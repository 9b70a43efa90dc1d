------------------------ MODULE PermanentStoreProofs ------------------------
(***************************************************************************)
(* What is proved of the permanent store for every number of servers,      *)
(* workers, copies and blocks, every size of queue and cache, and every    *)
(* mixture of the faults.                                                  *)
(***************************************************************************)
EXTENDS PermanentStore, SequenceTheorems, TLAPS

\* The steps of Next, and uploads of objects of any kind: what Retention
\* composes with its own actions.
StoreNext == Next \/ \E i \in Items : Save(i)

LEMMA InitTypeOK == Init => TypeOK
<1> SUFFICES ASSUME Init PROVE TypeOK
  OBVIOUS
<1>1. Lock!TypeOK
  BY DEF Init, Lock!Init, Lock!TypeOK
<1>2. <<>> \in Seq(Jobs) /\ Len(<<>>) = 0
  OBVIOUS
<1>3. 0 \in 0 .. MaxEpoch /\ 0 <= QueueCap
  BY StoreAssumption
<1> QED
  BY <1>1, <1>2, <1>3 DEF Init, TypeOK, Labels

\* The part of the type that speaks of one server's workers.
WorkersOK ==
  /\ pc \in [Servers -> [Workers -> Labels]]
  /\ job \in [Servers -> [Workers -> Jobs \cup {NoJob}]]
  /\ \A s \in Servers, w \in Workers : pc[s][w] = "idle" <=> job[s][w] = NoJob

\* A worker that moves on with its job, or puts it down at the end.
LEMMA MoveOn ==
  ASSUME WorkersOK, NEW s \in Servers, NEW w \in Workers, NEW l \in Labels \ {"idle"},
         pc[s][w] # "idle", Goto(s, w, l), UNCHANGED job
  PROVE  WorkersOK'
  BY DEF WorkersOK, Goto

\* The worker has a job, whose block exists.
LEMMA HasBlock ==
  ASSUME WorkersOK, NEW s \in Servers, NEW w \in Workers, pc[s][w] # "idle"
  PROVE  /\ job[s][w] \in Jobs /\ job[s][w].copy \in Copies
         /\ TheBlock(s, w) \in Blocks
<1>1. job[s][w] \in Jobs
  BY DEF WorkersOK
<1> QED
  BY <1>1, StoreAssumption DEF Jobs, TheBlock

\* A worker's step leaves every other worker alone.
LEMMA OtherWorkers ==
  ASSUME WorkersOK, NEW s \in Servers, NEW w \in Workers, Work(s, w)
  PROVE  \A t \in Servers, v \in Workers : t # s \/ v # w =>
           pc'[t][v] = pc[t][v] /\ job'[t][v] = job[t][v]
<1> USE DEF WorkersOK, Goto
<1>1. CASE Dequeue(s, w) \/ CloseChannel(s, w)
  BY <1>1 DEF Dequeue, CloseChannel
<1>2. ASSUME ~Dequeue(s, w), ~CloseChannel(s, w)
      PROVE  \E l \in Labels : Goto(s, w, l) /\ UNCHANGED job
  BY <1>2 DEF Work, CheckCache, AcquireLock, GiveUp, RecheckCache, CheckRow, CheckStore,
    RecordExisting, StartCopy, FinishCopy, RecordCopied, ReleaseLock, Labels
<1> QED
  BY <1>1, <1>2

\* A cache only ever gains the entry that is added.
LEMMA CacheGains ==
  ASSUME TypeOK, NEW s \in Servers, NEW b \in Blocks, AddToCache(s, b)
  PROVE  /\ cache' \in [Servers -> SUBSET Blocks]
         /\ \A t \in Servers : cache'[t] \subseteq cache[t] \cup {b}
<1>1. PICK C \in CachesWith(s, b) : cache' = [cache EXCEPT ![s] = C]
  BY DEF AddToCache
<1>2. C \subseteq cache[s] \cup {b}
  BY DEF CachesWith
<1> QED
  BY <1>1, <1>2 DEF TypeOK

LEMMA LockTyped ==
  ASSUME Lock!TypeOK, NEW s \in Servers, NEW b \in Blocks, epoch \in [Servers -> 0 .. MaxEpoch],
         Lock!Grant(Owner(s), b) \/ Lock!Free(Owner(s), b) \/ Lock!Lapse({b})
  PROVE  Lock!TypeOK'
<1>1. Owner(s) \in Owners
  BY DEF Owner, Owners
<1> QED
  BY <1>1 DEF Lock!TypeOK, Lock!Grant, Lock!Free, Lock!Lapse

-----------------------------------------------------------------------------
(* Type correctness, action by action *)

LEMMA OffersTyped ==
  ASSUME TypeOK, NEW s \in Servers, NEW j \in Jobs, Offer(s, j)
  PROVE  offers' \in [Servers -> SUBSET Jobs]
  BY DEF TypeOK, Offer

LEMMA QueueTyped ==
  ASSUME TypeOK, NEW s \in Servers,
         \/ queue' = [queue EXCEPT ![s] = <<>>]
         \/ queue[s] # <<>> /\ queue' = [queue EXCEPT ![s] = Tail(@)]
         \/ \E j \in Jobs :
              queue' = [queue EXCEPT ![s] = IF Len(@) < QueueCap THEN Append(@, j) ELSE @]
  PROVE  /\ queue' \in [Servers -> Seq(Jobs)]
         /\ \A t \in Servers : Len(queue'[t]) <= QueueCap
<1> USE StoreAssumption DEF TypeOK
<1>1. CASE queue' = [queue EXCEPT ![s] = <<>>]
  BY <1>1
<1>2. CASE queue[s] # <<>> /\ queue' = [queue EXCEPT ![s] = Tail(@)]
  <2>1. Tail(queue[s]) \in Seq(Jobs) /\ Len(Tail(queue[s])) <= QueueCap
    BY <1>2, HeadTailProperties
  <2> QED
    BY <1>2, <2>1
<1>3. ASSUME NEW j \in Jobs, Len(queue[s]) < QueueCap,
             queue' = [queue EXCEPT ![s] = Append(@, j)]
      PROVE  /\ queue' \in [Servers -> Seq(Jobs)]
             /\ \A t \in Servers : Len(queue'[t]) <= QueueCap
  <2>1. Append(queue[s], j) \in Seq(Jobs) /\ Len(Append(queue[s], j)) <= QueueCap
    BY <1>3, AppendProperties
  <2> QED
    BY <1>3, <2>1
<1>4. ASSUME queue' = [queue EXCEPT ![s] = @]
      PROVE  /\ queue' \in [Servers -> Seq(Jobs)]
             /\ \A t \in Servers : Len(queue'[t]) <= QueueCap
  BY <1>4
<1>5. ASSUME NEW j \in Jobs,
             queue' = [queue EXCEPT ![s] = IF Len(@) < QueueCap THEN Append(@, j) ELSE @]
      PROVE  /\ queue' \in [Servers -> Seq(Jobs)]
             /\ \A t \in Servers : Len(queue'[t]) <= QueueCap
  BY <1>3, <1>4, <1>5
<1> QED
  BY <1>1, <1>2, <1>5

LEMMA IntakeTypeOK ==
  ASSUME TypeOK, NEW s \in Servers,
         \/ \E j \in offers[s] : Send(s, j)
         \/ \E c \in Copies : CreateBeaconBlock(s, c)
         \/ \E i \in Items : Save(i)
         \/ Stop(s) \/ StopReturns(s) \/ Restart(s)
  PROVE  TypeOK'
<1> USE DEF world, intake
<1>1. ASSUME NEW j \in offers[s], Send(s, j)
      PROVE  TypeOK'
  <2>1. j \in Jobs
    BY DEF TypeOK
  <2>2. queue' \in [Servers -> Seq(Jobs)] /\ \A t \in Servers : Len(queue'[t]) <= QueueCap
    BY <1>1, <2>1, QueueTyped DEF Send
  <2> QED
    BY <1>1, <2>2 DEF TypeOK, Send, Lock!TypeOK
<1>2. ASSUME NEW c \in Copies, CreateBeaconBlock(s, c)
      PROVE  TypeOK'
  <2>1. [copy |-> c, waits |-> FALSE] \in Jobs
    BY DEF Jobs
  <2>2. offers' \in [Servers -> SUBSET Jobs]
    BY <1>2, <2>1, OffersTyped DEF CreateBeaconBlock
  <2> QED
    BY <1>2, <2>2 DEF TypeOK, CreateBeaconBlock, Lock!TypeOK
<1>3. ASSUME NEW i \in Items, Save(i)
      PROVE  TypeOK'
  BY <1>3 DEF TypeOK, Save, Lock!TypeOK
<1>4. CASE Stop(s) \/ StopReturns(s)
  <2>1. stop' \in [Servers -> {"running", "draining", "returned"}]
    <3>1. \E l \in {"running", "draining", "returned"} : stop' = [stop EXCEPT ![s] = l]
      BY <1>4 DEF Stop, StopReturns
    <3> QED
      BY <3>1 DEF TypeOK
  <2> QED
    BY <1>4, <2>1 DEF TypeOK, Stop, StopReturns, Lock!TypeOK
<1>5. CASE Restart(s)
  <2>1. queue' \in [Servers -> Seq(Jobs)] /\ \A t \in Servers : Len(queue'[t]) <= QueueCap
    BY <1>5, QueueTyped DEF Restart
  <2>2. epoch' \in [Servers -> 0 .. MaxEpoch]
    BY <1>5, StoreAssumption DEF Restart, TypeOK
  <2>3. WorkersOK'
    BY <1>5 DEF Restart, TypeOK, WorkersOK, Labels
  <2> QED
    BY <1>5, <2>1, <2>2, <2>3 DEF TypeOK, Restart, WorkersOK, Lock!TypeOK
<1> QED
  BY <1>1, <1>2, <1>3, <1>4, <1>5

LEMMA WorkTypeOK ==
  ASSUME TypeOK, NEW s \in Servers, NEW w \in Workers, Work(s, w)
  PROVE  TypeOK'
<1> USE DEF world, intake
<1>0. WorkersOK
  BY DEF TypeOK, WorkersOK
<1>1. CASE Dequeue(s, w)
  <2>1. queue' \in [Servers -> Seq(Jobs)] /\ \A t \in Servers : Len(queue'[t]) <= QueueCap
    BY <1>1, QueueTyped DEF Dequeue
  <2>2. Head(queue[s]) \in Jobs
    BY <1>1, HeadTailProperties DEF Dequeue, TypeOK
  <2>3. Head(queue[s]) # NoJob
    BY <2>2, NoJobAssumption
  <2>4. ASSUME UNCHANGED <<pc, job>>
        PROVE  WorkersOK'
    BY <1>0, <2>4 DEF WorkersOK
  <2>5. ASSUME job' = [job EXCEPT ![s][w] = Head(queue[s])],
               pc' = [pc EXCEPT ![s][w] = "checkCache"]
        PROVE  WorkersOK'
    BY <1>0, <2>2, <2>3, <2>5 DEF WorkersOK, Labels
  <2>6. WorkersOK'
    BY <1>1, <2>4, <2>5 DEF Dequeue, Goto
  <2> QED
    BY <1>1, <2>1, <2>6 DEF Dequeue, TypeOK, WorkersOK, Lock!TypeOK
<1>2. CASE CloseChannel(s, w)
  <2>1. job[s][w].copy \in Copies
    BY <1>0, <1>2, HasBlock DEF CloseChannel, At
  <2>2. done' \in [Servers -> SUBSET Copies]
    BY <1>2, <2>1 DEF CloseChannel, TypeOK
  <2>3. WorkersOK'
    BY <1>0, <1>2 DEF CloseChannel, At, Goto, WorkersOK, Labels
  <2> QED
    BY <1>2, <2>2, <2>3 DEF CloseChannel, TypeOK, WorkersOK, Lock!TypeOK
<1>3. ASSUME ~Dequeue(s, w), ~CloseChannel(s, w)
      PROVE  TypeOK'
  <2>1. PICK l \in Labels \ {"idle"} : Goto(s, w, l) /\ pc[s][w] # "idle" /\ UNCHANGED job
    BY <1>3 DEF Work, CheckCache, AcquireLock, GiveUp, RecheckCache, CheckRow, CheckStore,
      RecordExisting, StartCopy, FinishCopy, RecordCopied, ReleaseLock, At, Labels
  <2>2. WorkersOK'
    BY <1>0, <2>1, MoveOn
  <2>3. TheBlock(s, w) \in Blocks
    BY <1>0, <2>1, HasBlock
  <2>4. CASE CheckCache(s, w) \/ GiveUp(s, w) \/ RecheckCache(s, w)
    BY <2>2, <2>4 DEF CheckCache, GiveUp, RecheckCache, TypeOK, WorkersOK, Lock!TypeOK
  <2>5. CASE AcquireLock(s, w)
    <3>1. Lock!TypeOK'
      BY <2>3, <2>5, LockTyped DEF AcquireLock, TypeOK
    <3> QED
      BY <2>2, <2>5, <3>1 DEF AcquireLock, TypeOK, WorkersOK
  <2>6. CASE ReleaseLock(s, w)
    <3>1. Lock!TypeOK'
      BY <2>3, <2>6, LockTyped DEF ReleaseLock, TypeOK, Lock!TypeOK
    <3> QED
      BY <2>2, <2>6, <3>1 DEF ReleaseLock, TypeOK, WorkersOK
  <2>7. CASE CheckRow(s, w) \/ CheckStore(s, w)
    <3>1. cache' \in [Servers -> SUBSET Blocks]
      BY <2>3, <2>7, CacheGains DEF CheckRow, CheckStore, TypeOK
    <3> QED
      BY <2>2, <2>7, <3>1 DEF CheckRow, CheckStore, TypeOK, WorkersOK, Lock!TypeOK
  <2>8. CASE StartCopy(s, w) \/ FinishCopy(s, w)
    BY <2>2, <2>3, <2>8 DEF StartCopy, FinishCopy, TypeOK, WorkersOK, Lock!TypeOK
  <2>9. CASE RecordExisting(s, w) \/ RecordCopied(s, w)
    <3>1. permRows' \in [Blocks -> 0 .. 2]
      <4>1. (IF permRows[TheBlock(s, w)] < 2 THEN permRows[TheBlock(s, w)] + 1
             ELSE permRows[TheBlock(s, w)]) \in 0 .. 2
        BY <2>3 DEF TypeOK
      <4>2. InsertRow(TheBlock(s, w))
        BY <2>9 DEF RecordExisting, RecordCopied
      <4> QED
        BY <4>1, <4>2 DEF InsertRow, TypeOK
    <3>2. cache' \in [Servers -> SUBSET Blocks]
      BY <2>3, <2>9, CacheGains DEF RecordExisting, RecordCopied, TypeOK
    <3> QED
      BY <2>2, <2>9, <3>1, <3>2 DEF RecordExisting, RecordCopied, TypeOK, WorkersOK, Lock!TypeOK
  <2> QED
    BY <1>3, <2>4, <2>5, <2>6, <2>7, <2>8, <2>9 DEF Work
<1> QED
  BY <1>1, <1>2, <1>3

LEMMA StoreNextTypeOK ==
  ASSUME TypeOK, [StoreNext]_vars
  PROVE  TypeOK'
<1> USE DEF world, intake
<1>1. ASSUME NEW s \in Servers, Server(s)
      PROVE  TypeOK'
  BY <1>1, IntakeTypeOK, WorkTypeOK DEF Server
<1>2. ASSUME NEW i \in Items, Save(i)
      PROVE  TypeOK'
  BY <1>2 DEF TypeOK, Save, Lock!TypeOK
<1>3. ASSUME NEW b \in Blocks, LockLapses(b)
      PROVE  TypeOK'
  <2>1. Lock!TypeOK'
    BY <1>3 DEF LockLapses, Lock!Lapse, Lock!TypeOK, TypeOK
  <2> QED
    BY <1>3, <2>1 DEF LockLapses, TypeOK
<1>4. CASE UNCHANGED vars
  BY <1>4 DEF vars, TypeOK, Lock!TypeOK
<1> QED
  BY <1>1, <1>2, <1>3, <1>4, StoreAssumption DEF StoreNext, Next

\* Every reachable state of the permanent store is well typed; in particular
\* the queue never outgrows its capacity, and a worker has a job exactly when
\* it is in processBlock (permanent_store.go).
THEOREM StoreTypeCorrect == Spec => []TypeOK
<1>1. Init => TypeOK
  BY InitTypeOK
<1>2. TypeOK /\ [Next]_vars => TypeOK'
  BY StoreNextTypeOK DEF StoreNext
<1> QED
  BY <1>1, <1>2, PTL DEF Spec

-----------------------------------------------------------------------------
(* What the cache and the table say is true *)

\* A worker about to record a block has seen, or made, its permanent object.
Witnessed ==
  \A s \in Servers, w \in Workers :
    pc[s][w] \in {"record", "recordExisting"} => permanent[TheBlock(s, w)] = "whole"

\* No permanent object is ever torn: true when copies are atomic.
NeverPartial == \A b \in Blocks : permanent[b] # "partial"

SoundInv == TypeOK /\ NeverPartial /\ Witnessed /\ CacheSound /\ RecordSound

\* The steps that touch neither worker, cache, table nor permanent object.
LEMMA SoundUnchanged ==
  ASSUME SoundInv, UNCHANGED <<permanent, permRows, cache, pc, job>>
  PROVE  NeverPartial' /\ Witnessed' /\ CacheSound' /\ RecordSound'
  BY DEF SoundInv, NeverPartial, Witnessed, CacheSound, RecordSound, TheBlock

\* A restart idles the workers of its server and leaves the others alone.
LEMMA RestartWorkers ==
  ASSUME TypeOK, NEW s \in Servers, Restart(s), NEW t \in Servers, NEW v \in Workers
  PROVE  \/ pc'[t][v] = "idle"
         \/ /\ t # s
            /\ pc'[t][v] = pc[t][v] /\ job'[t][v] = job[t][v] /\ epoch'[t] = epoch[t]
<1>1. /\ pc' = [pc EXCEPT ![s] = [x \in Workers |-> "idle"]]
      /\ job' = [job EXCEPT ![s] = [x \in Workers |-> NoJob]]
      /\ epoch' = [epoch EXCEPT ![s] = @ + 1]
  BY DEF Restart
<1>2. CASE t = s
  BY <1>1, <1>2 DEF TypeOK
<1>3. CASE t # s
  BY <1>1, <1>3 DEF TypeOK
<1> QED
  BY <1>2, <1>3

LEMMA RestartSound ==
  ASSUME SoundInv, NEW s \in Servers, Restart(s)
  PROVE  NeverPartial' /\ Witnessed' /\ CacheSound' /\ RecordSound'
<1>1. \A t \in Servers : cache'[t] \subseteq cache[t]
  BY DEF Restart, SoundInv, TypeOK
<1>2. \A t \in Servers, v \in Workers :
        \/ pc'[t][v] = "idle"
        \/ pc'[t][v] = pc[t][v] /\ job'[t][v] = job[t][v]
  BY RestartWorkers DEF SoundInv
<1>3. Witnessed'
  BY <1>2 DEF Restart, world, SoundInv, Witnessed, TheBlock
<1> QED
  BY <1>1, <1>3 DEF Restart, world, SoundInv, NeverPartial, CacheSound, RecordSound

LEMMA WorkSound ==
  ASSUME AtomicCopy, SoundInv, NEW s \in Servers, NEW w \in Workers, Work(s, w)
  PROVE  NeverPartial' /\ Witnessed' /\ CacheSound' /\ RecordSound'
<1> DEFINE b == TheBlock(s, w)
<1> USE DEF world, intake
<1>0. TypeOK /\ WorkersOK
  BY DEF SoundInv, TypeOK, WorkersOK
<1>1. ASSUME NEW l \in Labels, Goto(s, w, l)
      PROVE  /\ pc'[s][w] = l
             /\ \A t \in Servers, v \in Workers : t # s \/ v # w => pc'[t][v] = pc[t][v]
  BY <1>0, <1>1 DEF Goto, WorkersOK
<1>2. CASE Dequeue(s, w) \/ CloseChannel(s, w)
  <2>1. UNCHANGED <<permanent, permRows, cache>>
    BY <1>2 DEF Dequeue, CloseChannel
  <2>2. \A t \in Servers, v \in Workers :
          \/ pc'[t][v] \in {"idle", "checkCache"}
          \/ pc'[t][v] = pc[t][v] /\ job'[t][v] = job[t][v]
    BY <1>0, <1>2 DEF Dequeue, CloseChannel, Goto, WorkersOK
  <2>3. Witnessed'
    BY <2>1, <2>2 DEF SoundInv, Witnessed, TheBlock
  <2> QED
    BY <2>1, <2>3 DEF SoundInv, NeverPartial, CacheSound, RecordSound
<1>3. ASSUME ~Dequeue(s, w), ~CloseChannel(s, w)
      PROVE  NeverPartial' /\ Witnessed' /\ CacheSound' /\ RecordSound'
  <2>1. PICK l \in Labels \ {"idle"} : Goto(s, w, l) /\ pc[s][w] # "idle" /\ UNCHANGED job
    BY <1>3 DEF Work, CheckCache, AcquireLock, GiveUp, RecheckCache, CheckRow, CheckStore,
      RecordExisting, StartCopy, FinishCopy, RecordCopied, ReleaseLock, At, Labels
  <2>2. b \in Blocks /\ b' = b
    BY <1>0, <2>1, HasBlock DEF TheBlock
  <2>3. /\ \A c \in Blocks : permanent[c] = "whole" => permanent'[c] = "whole"
        /\ NeverPartial'
        /\ pc'[s][w] \in {"record", "recordExisting"} => permanent'[b] = "whole"
    <3>1. CASE StartCopy(s, w)
      BY <1>1, <2>1, <3>1 DEF StartCopy, SoundInv, NeverPartial, Goto, TypeOK
    <3>2. CASE FinishCopy(s, w)
      BY <1>0, <2>2, <3>2 DEF FinishCopy, SoundInv, NeverPartial, Goto, TypeOK
    <3>3. CASE CheckStore(s, w)
      BY <1>0, <2>2, <3>3 DEF CheckStore, SoundInv, NeverPartial, Goto, TypeOK
    <3>4. CASE ~StartCopy(s, w) /\ ~FinishCopy(s, w) /\ ~CheckStore(s, w)
      BY <1>0, <1>3, <3>4 DEF Work, CheckCache, AcquireLock, GiveUp, RecheckCache, CheckRow,
        RecordExisting, RecordCopied, ReleaseLock, Goto, SoundInv, NeverPartial, TypeOK
    <3> QED
      BY <3>1, <3>2, <3>3, <3>4
  <2>4. Witnessed'
    BY <1>0, <1>1, <2>1, <2>2, <2>3, HasBlock
    DEF SoundInv, Witnessed, TheBlock
  <2>5. \A c \in Blocks : permRows'[c] > 0 => permanent'[c] = "whole"
    <3>1. CASE RecordExisting(s, w) \/ RecordCopied(s, w)
      <4>1. permanent[b] = "whole"
        BY <3>1 DEF RecordExisting, RecordCopied, At, SoundInv, Witnessed
      <4>2. \A c \in Blocks : c # b => permRows'[c] = permRows[c]
        BY <1>0, <3>1 DEF RecordExisting, RecordCopied, InsertRow, TypeOK
      <4> QED
        BY <2>3, <4>1, <4>2 DEF SoundInv, RecordSound
    <3>2. CASE ~RecordExisting(s, w) /\ ~RecordCopied(s, w)
      <4>1. permRows' = permRows
        BY <1>3, <3>2 DEF Work, CheckCache, AcquireLock, GiveUp, RecheckCache, CheckRow,
          CheckStore, StartCopy, FinishCopy, ReleaseLock
      <4> QED
        BY <2>3, <4>1 DEF SoundInv, RecordSound
    <3> QED
      BY <3>1, <3>2
  <2>6. \A t \in Servers : \A c \in cache'[t] : c \in Blocks /\ permanent'[c] = "whole"
    <3>1. CASE CheckRow(s, w) \/ CheckStore(s, w) \/ RecordCopied(s, w)
      <4>1. \/ AddToCache(s, b) /\ permanent[b] = "whole"
            \/ cache' = cache
        <5>1. CASE CheckRow(s, w)
          BY <2>2, <5>1 DEF CheckRow, SoundInv, RecordSound
        <5>2. CASE CheckStore(s, w)
          BY <1>0, <2>2, <5>2 DEF CheckStore, SoundInv, NeverPartial, TypeOK
        <5>3. CASE RecordCopied(s, w)
          BY <5>3 DEF RecordCopied, At, SoundInv, Witnessed
        <5> QED
          BY <3>1, <5>1, <5>2, <5>3
      <4>2. CASE AddToCache(s, b) /\ permanent[b] = "whole"
        BY <1>0, <2>2, <2>3, <4>2, CacheGains DEF SoundInv, CacheSound, TypeOK
      <4>3. CASE cache' = cache
        BY <1>0, <2>3, <4>3 DEF SoundInv, CacheSound, TypeOK
      <4> QED
        BY <4>1, <4>2, <4>3
    <3>2. CASE ~CheckRow(s, w) /\ ~CheckStore(s, w) /\ ~RecordCopied(s, w)
      <4>1. cache' = cache
        BY <1>3, <3>2 DEF Work, CheckCache, AcquireLock, GiveUp, RecheckCache, RecordExisting,
          StartCopy, FinishCopy, ReleaseLock
      <4> QED
        BY <1>0, <2>3, <4>1 DEF SoundInv, CacheSound, TypeOK
    <3> QED
      BY <3>1, <3>2
  <2> QED
    BY <2>3, <2>4, <2>5, <2>6 DEF CacheSound, RecordSound
<1> QED
  BY <1>2, <1>3

LEMMA StoreNextSound ==
  ASSUME AtomicCopy, SoundInv, [StoreNext]_vars
  PROVE  SoundInv'
<1> USE DEF world, intake
<1>0. TypeOK'
  BY StoreNextTypeOK DEF SoundInv
<1>1. CASE \E s \in Servers, w \in Workers : Work(s, w)
  BY <1>0, <1>1, WorkSound DEF SoundInv
<1>2. CASE \E s \in Servers : Restart(s)
  BY <1>0, <1>2, RestartSound DEF SoundInv
<1>3. CASE UNCHANGED <<permanent, permRows, cache, pc, job>>
  BY <1>0, <1>3, SoundUnchanged DEF SoundInv
<1> QED
  BY <1>1, <1>2, <1>3
  DEF StoreNext, Next, Server, Save, Send, CreateBeaconBlock, Stop, StopReturns, LockLapses, vars

LEMMA InitSound == Init => SoundInv
<1> SUFFICES ASSUME Init PROVE SoundInv
  OBVIOUS
<1>1. TypeOK
  BY InitTypeOK
<1> QED
  BY <1>1 DEF Init, SoundInv, NeverPartial, Witnessed, CacheSound, RecordSound

\* On a store that copies atomically no block is in a cache unless its object
\* is whole at the permanent location: with any number of servers and workers
\* sharing owners, and under every fault, crashes and stolen locks included.
THEOREM CacheIsSound == ASSUME AtomicCopy PROVE Spec => []CacheSound
<1>1. Init => SoundInv
  BY InitSound
<1>2. SoundInv /\ [Next]_vars => SoundInv'
  BY StoreNextSound DEF StoreNext
<1>3. SoundInv => CacheSound
  BY DEF SoundInv
<1> QED
  BY <1>1, <1>2, <1>3, PTL DEF Spec

\* The same of the rows of permanent_blocks, which other servers trust.
THEOREM RecordIsSound == ASSUME AtomicCopy PROVE Spec => []RecordSound
<1>1. Init => SoundInv
  BY InitSound
<1>2. SoundInv /\ [Next]_vars => SoundInv'
  BY StoreNextSound DEF StoreNext
<1>3. SoundInv => RecordSound
  BY DEF SoundInv
<1> QED
  BY <1>1, <1>2, <1>3, PTL DEF Spec

\* No step unmakes a permanent object.
LEMMA PermanentStays ==
  ASSUME AtomicCopy, SoundInv, [StoreNext]_vars
  PROVE  \A b \in Blocks : permanent[b] = "whole" => permanent'[b] = "whole"
<1> USE DEF world, intake
<1>1. ASSUME NEW s \in Servers, NEW w \in Workers, Work(s, w)
      PROVE  \A b \in Blocks : permanent[b] = "whole" => permanent'[b] = "whole"
  <2>1. CASE FinishCopy(s, w)
    BY <2>1 DEF FinishCopy, SoundInv, TypeOK
  <2>2. CASE ~FinishCopy(s, w)
    BY <1>1, <2>2 DEF Work, Dequeue, CheckCache, AcquireLock, GiveUp, RecheckCache, CheckRow,
      CheckStore, RecordExisting, StartCopy, RecordCopied, ReleaseLock, CloseChannel
  <2> QED
    BY <2>1, <2>2
<1>2. CASE UNCHANGED permanent
  BY <1>2
<1> QED
  BY <1>1, <1>2
  DEF StoreNext, Next, Server, Save, Send, CreateBeaconBlock, Stop, StopReturns, Restart,
    LockLapses, vars

-----------------------------------------------------------------------------
(* How items and jobs come and go *)

\* How a step of the store changes items.
LEMMA StoreItems ==
  ASSUME TypeOK, [StoreNext]_vars
  PROVE  \A i \in Items :
           \/ phase'[i] = phase[i] /\ (i \in stored' <=> i \in stored)
           \/ phase[i] = "absent" /\ phase'[i] = "saved" /\ i \in stored'
           \/ phase[i] = "saved" /\ phase'[i] = "indexed" /\ (i \in stored' <=> i \in stored)
<1> USE DEF world, intake, TypeOK
<1>1. ASSUME NEW i \in Items, Save(i)
      PROVE  \A j \in Items :
               \/ phase'[j] = phase[j] /\ (j \in stored' <=> j \in stored)
               \/ phase[j] = "absent" /\ phase'[j] = "saved" /\ j \in stored'
  BY <1>1 DEF Save
<1>2. ASSUME NEW s \in Servers, NEW c \in Copies, CreateBeaconBlock(s, c)
      PROVE  \A i \in Items :
               \/ phase'[i] = phase[i] /\ (i \in stored' <=> i \in stored)
               \/ phase[i] = "saved" /\ phase'[i] = "indexed" /\ (i \in stored' <=> i \in stored)
  BY <1>2 DEF CreateBeaconBlock
<1>3. ASSUME NEW s \in Servers, NEW w \in Workers, Work(s, w)
      PROVE  UNCHANGED <<phase, stored>>
  BY <1>3 DEF Work, Dequeue, CheckCache, AcquireLock, GiveUp, RecheckCache, CheckRow, CheckStore,
    RecordExisting, StartCopy, FinishCopy, RecordCopied, ReleaseLock, CloseChannel
<1>4. CASE UNCHANGED <<phase, stored>>
  BY <1>4
<1> QED
  BY <1>1, <1>2, <1>3, <1>4, StoreAssumption
  DEF StoreNext, Next, Server, Send, Stop, StopReturns, Restart, LockLapses, vars

\* The jobs of a server after a step of the store come from before it.
LEMMA StoreJobs ==
  ASSUME TypeOK, [StoreNext]_vars, NEW s \in Servers
  PROVE  /\ \A j \in offers'[s] :
              j \in offers[s] \/ (j \in Jobs /\ phase'[j.copy] = "indexed")
         /\ \A n \in 1 .. Len(queue'[s]) :
              \/ queue'[s][n] \in offers[s]
              \/ \E m \in 1 .. Len(queue[s]) : queue'[s][n] = queue[s][m]
         /\ \A w \in Workers : pc'[s][w] # "idle" =>
              \/ pc[s][w] # "idle" /\ job'[s][w] = job[s][w]
              \/ queue[s] # <<>> /\ pc'[s][w] = "checkCache" /\ job'[s][w] = Head(queue[s])
<1> DEFINE Offers == \A j \in offers'[s] :
                       j \in offers[s] \/ (j \in Jobs /\ phase'[j.copy] = "indexed")
           Queue  == \A n \in 1 .. Len(queue'[s]) :
                       \/ queue'[s][n] \in offers[s]
                       \/ \E m \in 1 .. Len(queue[s]) : queue'[s][n] = queue[s][m]
           Held   == \A w \in Workers : pc'[s][w] # "idle" =>
                       \/ pc[s][w] # "idle" /\ job'[s][w] = job[s][w]
                       \/ /\ queue[s] # <<>> /\ pc'[s][w] = "checkCache"
                          /\ job'[s][w] = Head(queue[s])
<1> USE DEF world, intake
<1>0. queue[s] \in Seq(Jobs) /\ WorkersOK
  BY DEF TypeOK, WorkersOK
<1>1. ASSUME NEW t \in Servers, NEW j \in offers[t], Send(t, j)
      PROVE  Offers /\ Queue /\ Held
  <2>1. Offers /\ Held
    BY <1>1 DEF Send, TypeOK
  <2>2. CASE t = s /\ Len(queue[s]) < QueueCap
    <3>1. queue'[s] = Append(queue[s], j) /\ j \in Jobs
      BY <1>1, <2>2 DEF Send, TypeOK
    <3> QED
      BY <1>0, <1>1, <2>1, <2>2, <3>1, AppendProperties
  <2>3. CASE ~(t = s /\ Len(queue[s]) < QueueCap)
    <3>1. queue'[s] = queue[s]
      BY <1>1, <2>3 DEF Send, TypeOK
    <3> QED
      BY <2>1, <3>1
  <2> QED
    BY <2>2, <2>3
<1>2. ASSUME NEW t \in Servers, NEW c \in Copies, CreateBeaconBlock(t, c)
      PROVE  Offers /\ Queue /\ Held
  <2>1. [copy |-> c, waits |-> FALSE] \in Jobs /\ c \in Items
    BY StoreAssumption DEF Jobs
  <2>2. phase'[c] = "indexed"
    BY <1>2, <2>1 DEF CreateBeaconBlock, TypeOK
  <2>3. offers'[s] \subseteq offers[s] \cup {[copy |-> c, waits |-> FALSE]}
    BY <1>2 DEF CreateBeaconBlock, Offer, TypeOK
  <2>4. ASSUME NEW j \in offers'[s], j \notin offers[s]
        PROVE  j \in Jobs /\ phase'[j.copy] = "indexed"
    <3>1. j = [copy |-> c, waits |-> FALSE]
      BY <2>3, <2>4
    <3> QED
      BY <2>1, <2>2, <3>1
  <2>5. UNCHANGED <<queue, pc, job>>
    BY <1>2 DEF CreateBeaconBlock
  <2> QED
    BY <2>4, <2>5
<1>3. ASSUME NEW t \in Servers, NEW w \in Workers, Work(t, w)
      PROVE  Offers /\ Queue /\ Held
  <2>1. Offers
    BY <1>3 DEF Work, Dequeue, CheckCache, AcquireLock, GiveUp, RecheckCache, CheckRow, CheckStore,
      RecordExisting, StartCopy, FinishCopy, RecordCopied, ReleaseLock, CloseChannel
  <2>2. ASSUME NEW v \in Workers, pc'[s][v] # "idle"
        PROVE  \/ pc[s][v] # "idle" /\ job'[s][v] = job[s][v]
               \/ queue[s] # <<>> /\ pc'[s][v] = "checkCache" /\ job'[s][v] = Head(queue[s])
    <3>1. CASE t # s \/ v # w
      BY <1>0, <1>3, <2>2, <3>1, OtherWorkers
    <3>2. CASE t = s /\ v = w
      <4>1. CASE Dequeue(t, w) \/ CloseChannel(t, w)
        BY <1>0, <2>2, <3>2, <4>1 DEF Dequeue, CloseChannel, At, Goto, WorkersOK
      <4>2. CASE ~(Dequeue(t, w) \/ CloseChannel(t, w))
        BY <1>3, <2>2, <3>2, <4>2 DEF Work, CheckCache, AcquireLock, GiveUp, RecheckCache,
          CheckRow, CheckStore, RecordExisting, StartCopy, FinishCopy, RecordCopied, ReleaseLock, At
      <4> QED
        BY <4>1, <4>2
    <3> QED
      BY <3>1, <3>2
  <2>3. CASE queue'[s] = queue[s]
    BY <2>1, <2>2, <2>3
  <2>4. CASE queue[s] # <<>> /\ queue'[s] = Tail(queue[s])
    <3>1. /\ Len(queue[s]) \in Nat /\ Len(queue'[s]) = Len(queue[s]) - 1
          /\ \A n \in 1 .. Len(queue'[s]) : queue'[s][n] = queue[s][n + 1]
      BY <1>0, <2>4, HeadTailProperties
    <3>2. \A n \in 1 .. Len(queue'[s]) : n + 1 \in 1 .. Len(queue[s])
      BY <3>1
    <3>3. Queue
      BY <3>1, <3>2
    <3> QED
      BY <2>1, <2>2, <3>3
  <2>5. queue'[s] = queue[s] \/ (queue[s] # <<>> /\ queue'[s] = Tail(queue[s]))
    BY <1>3 DEF Work, Dequeue, CheckCache, AcquireLock, GiveUp, RecheckCache, CheckRow, CheckStore,
      RecordExisting, StartCopy, FinishCopy, RecordCopied, ReleaseLock, CloseChannel, TypeOK
  <2> QED
    BY <2>3, <2>4, <2>5
<1>4. ASSUME NEW t \in Servers, Restart(t)
      PROVE  Offers /\ Queue /\ Held
  <2>1. offers'[s] \subseteq offers[s] /\ queue'[s] \in {queue[s], <<>>}
    BY <1>4 DEF Restart, TypeOK
  <2>2. Held
    BY <1>4, RestartWorkers
  <2> QED
    BY <2>1, <2>2
<1>5. CASE UNCHANGED <<offers, queue, pc, job>>
  BY <1>5
<1> QED
  BY <1>1, <1>2, <1>3, <1>4, <1>5
  DEF StoreNext, Next, Server, Save, Stop, StopReturns, LockLapses, vars

-----------------------------------------------------------------------------
(* What the lock buys with any number of workers to a server, when the store *)
(* does not fail and no worker outlives its lease: a server's workers share  *)
(* the lock and release it for each other, but only when the block has a     *)
(* permanent object, at whose sight nobody starts to write.                  *)

StoreWorks == Faults \cap {"slow", "storeExists", "storeCopy"} = {}

\* What is cached or recorded, and what a worker has done with, has an object
\* at its permanent location, be it torn.
Present ==
  /\ \A s \in Servers : \A b \in cache[s] : permanent[b] # "none"
  /\ \A b \in Blocks : permRows[b] > 0 => permanent[b] # "none"
  /\ \A s \in Servers, w \in Workers :
       pc[s][w] \in {"recordExisting", "record", "release"} => permanent[TheBlock(s, w)] # "none"

\* A worker has the lock, or it does not matter any more.
Guarded ==
  \A s \in Servers, w \in Workers : pc[s][w] \in Critical =>
    lock[TheBlock(s, w)] = Owner(s) \/ permanent[TheBlock(s, w)] # "none"

WriterInv == TypeOK /\ Present /\ Guarded /\ OneWriter

\* A worker about to copy finds its copy, or it does not matter any more.
Copyable ==
  \A s \in Servers, w \in Workers : pc[s][w] = "copy" =>
    job[s][w].copy \in stored \/ permanent[TheBlock(s, w)] # "none"

\* An object at a permanent location stays there.
LEMMA PresentStays ==
  ASSUME TypeOK, [StoreNext]_vars
  PROVE  \A b \in Blocks : permanent[b] # "none" => permanent'[b] # "none"
<1> USE DEF world, intake
<1>1. ASSUME NEW s \in Servers, NEW w \in Workers, Work(s, w)
      PROVE  \A b \in Blocks : permanent[b] # "none" => permanent'[b] # "none"
  <2>1. CASE FinishCopy(s, w) \/ StartCopy(s, w)
    BY <2>1 DEF FinishCopy, StartCopy, TypeOK
  <2>2. CASE ~FinishCopy(s, w) /\ ~StartCopy(s, w)
    BY <1>1, <2>2 DEF Work, Dequeue, CheckCache, AcquireLock, GiveUp, RecheckCache, CheckRow,
      CheckStore, RecordExisting, RecordCopied, ReleaseLock, CloseChannel
  <2> QED
    BY <2>1, <2>2
<1>2. CASE UNCHANGED permanent
  BY <1>2
<1> QED
  BY <1>1, <1>2
  DEF StoreNext, Next, Server, Save, Send, CreateBeaconBlock, Stop, StopReturns, Restart,
    LockLapses, vars

\* What the worker of a step knows after it.
LEMMA WorkPresent ==
  ASSUME StoreWorks, TypeOK, Present, Copyable, NEW s \in Servers, NEW w \in Workers, Work(s, w)
  PROVE  /\ pc'[s][w] \in {"recordExisting", "record", "release"} =>
              job'[s][w] = job[s][w] /\ pc[s][w] # "idle" /\ permanent'[TheBlock(s, w)] # "none"
         /\ \A t \in Servers : \A b \in cache'[t] :
              b \in cache[t] \/ (b = TheBlock(s, w) /\ permanent'[b] # "none")
         /\ \A b \in Blocks : permRows'[b] # permRows[b] => permanent[b] # "none"
<1> USE DEF world, intake, At, Goto, StoreWorks
<1>0. WorkersOK
  BY DEF TypeOK, WorkersOK
<1>1. CASE Dequeue(s, w) \/ CheckCache(s, w) \/ AcquireLock(s, w) \/ GiveUp(s, w) \/ ReleaseLock(s, w)
           \/ CloseChannel(s, w)
  BY <1>0, <1>1 DEF Dequeue, CheckCache, AcquireLock, GiveUp, ReleaseLock, CloseChannel, WorkersOK
<1>2. CASE RecheckCache(s, w)
  BY <1>0, <1>2, HasBlock DEF RecheckCache, WorkersOK, Present
<1>3. ASSUME TheBlock(s, w) \in Blocks, AddToCache(s, TheBlock(s, w)), permanent'[TheBlock(s, w)] # "none"
      PROVE  \A t \in Servers : \A b \in cache'[t] :
               b \in cache[t] \/ (b = TheBlock(s, w) /\ permanent'[b] # "none")
  BY <1>3, CacheGains
<1>4. CASE CheckRow(s, w)
  <2>1. TheBlock(s, w) \in Blocks /\ pc[s][w] = "checkRow" /\ UNCHANGED <<job, permanent, permRows>>
    BY <1>0, <1>4, HasBlock DEF CheckRow
  <2>2. CASE permRows[TheBlock(s, w)] > 0 /\ AddToCache(s, TheBlock(s, w))
    BY <1>3, <2>1, <2>2 DEF Present
  <2>3. CASE Goto(s, w, "checkStore") /\ UNCHANGED cache
    BY <1>0, <2>1, <2>3 DEF WorkersOK
  <2> QED
    BY <1>4, <2>2, <2>3 DEF CheckRow
<1>5. CASE CheckStore(s, w)
  <2>1. TheBlock(s, w) \in Blocks /\ pc[s][w] = "checkStore" /\ UNCHANGED <<job, permanent, permRows>>
    BY <1>0, <1>5, HasBlock DEF CheckStore
  <2>2. CASE permanent[TheBlock(s, w)] # "none" /\ AddToCache(s, TheBlock(s, w))
    BY <1>3, <2>1, <2>2
  <2>3. CASE Goto(s, w, "copy") /\ UNCHANGED cache
    BY <1>0, <2>1, <2>3 DEF WorkersOK
  <2> QED
    BY <1>5, <2>2, <2>3 DEF CheckStore
<1>6. CASE RecordExisting(s, w) \/ RecordCopied(s, w)
  <2>1. /\ TheBlock(s, w) \in Blocks /\ pc[s][w] \in {"recordExisting", "record"}
        /\ UNCHANGED <<job, permanent>> /\ InsertRow(TheBlock(s, w))
        /\ UNCHANGED cache \/ AddToCache(s, TheBlock(s, w))
    BY <1>0, <1>6, HasBlock DEF RecordExisting, RecordCopied
  <2>2. permanent[TheBlock(s, w)] # "none"
    BY <2>1 DEF Present
  <2>3. \A b \in Blocks : permRows'[b] # permRows[b] => b = TheBlock(s, w)
    BY <2>1 DEF InsertRow, TypeOK
  <2> QED
    BY <1>3, <2>1, <2>2, <2>3
<1>7. CASE StartCopy(s, w)
  <2>1. TheBlock(s, w) \in Blocks /\ pc[s][w] = "copy" /\ UNCHANGED <<job, permRows, cache>>
    BY <1>0, <1>7, HasBlock DEF StartCopy
  <2>2. CASE Goto(s, w, "write")
    BY <1>0, <2>1, <2>2 DEF WorkersOK
  <2>3. CASE job[s][w].copy \notin stored /\ UNCHANGED permanent
    BY <2>1, <2>3 DEF Copyable
  <2> QED
    BY <1>7, <2>2, <2>3 DEF StartCopy
<1>8. CASE FinishCopy(s, w)
  <2>1. TheBlock(s, w) \in Blocks /\ pc[s][w] = "write" /\ UNCHANGED <<job, permRows, cache>>
    BY <1>0, <1>8, HasBlock DEF FinishCopy
  <2> QED
    BY <1>8, <2>1 DEF FinishCopy, TypeOK
<1> QED
  BY <1>1, <1>2, <1>4, <1>5, <1>6, <1>7, <1>8 DEF Work

LEMMA StoreNextPresent ==
  ASSUME StoreWorks, TypeOK, Present, Copyable, [StoreNext]_vars
  PROVE  Present'
<1> USE DEF world, intake
<1>0. WorkersOK /\ TypeOK'
  BY StoreNextTypeOK DEF TypeOK, WorkersOK
<1>1. ASSUME NEW s \in Servers, NEW w \in Workers, Work(s, w)
      PROVE  Present'
  <2>1. ASSUME NEW t \in Servers, NEW v \in Workers,
               pc'[t][v] \in {"recordExisting", "record", "release"}
        PROVE  permanent'[TheBlock(t, v)'] # "none"
    <3>1. CASE t = s /\ v = w
      BY <1>1, <2>1, <3>1, WorkPresent DEF TheBlock
    <3>2. CASE t # s \/ v # w
      <4>1. pc'[t][v] = pc[t][v] /\ TheBlock(t, v)' = TheBlock(t, v)
        BY <1>0, <1>1, <3>2, OtherWorkers DEF TheBlock
      <4> QED
        BY <1>0, <1>1, <2>1, <4>1, HasBlock, PresentStays DEF Present, StoreNext, Next, Server
    <3> QED
      BY <3>1, <3>2
  <2>2. \A t \in Servers : \A b \in cache'[t] : permanent'[b] # "none"
    BY <1>0, <1>1, WorkPresent, PresentStays DEF Present, StoreNext, Next, Server, TypeOK
  <2>3. \A b \in Blocks : permRows'[b] > 0 => permanent'[b] # "none"
    BY <1>1, WorkPresent, PresentStays DEF Present, StoreNext, Next, Server
  <2> QED
    BY <2>1, <2>2, <2>3 DEF Present
<1>2. ASSUME NEW s \in Servers, Restart(s)
      PROVE  Present'
  <2>1. \A t \in Servers, v \in Workers :
          \/ pc'[t][v] = "idle"
          \/ pc'[t][v] = pc[t][v] /\ job'[t][v] = job[t][v]
    BY <1>2, RestartWorkers
  <2>2. \A t \in Servers : cache'[t] \subseteq cache[t]
    BY <1>2 DEF Restart, TypeOK
  <2>3. UNCHANGED <<permanent, permRows>>
    BY <1>2 DEF Restart
  <2> QED
    BY <2>1, <2>2, <2>3 DEF Present, TheBlock
<1>3. CASE UNCHANGED <<permanent, permRows, cache, pc, job>>
  BY <1>3 DEF Present, TheBlock
<1> QED
  BY <1>1, <1>2, <1>3
  DEF StoreNext, Next, Server, Save, Send, CreateBeaconBlock, Stop, StopReturns, LockLapses, vars

LEMMA StoreNextGuarded ==
  ASSUME StoreWorks, TypeOK, Present, Guarded, [StoreNext]_vars
  PROVE  Guarded'
<1> USE DEF world, intake
<1>0. WorkersOK /\ \A t \in Servers : Owner(t) \in Owners /\ Owner(t) # NoOwner
  BY NoOwnerAssumption DEF TypeOK, WorkersOK, Owner, Owners
<1>1. ASSUME NEW s \in Servers, NEW w \in Workers, Work(s, w)
      PROVE  Guarded'
  <2>1. \A t \in Servers : Owner(t)' = Owner(t)
    BY <1>1 DEF Work, Dequeue, CheckCache, AcquireLock, GiveUp, RecheckCache, CheckRow, CheckStore,
      RecordExisting, StartCopy, FinishCopy, RecordCopied, ReleaseLock, CloseChannel, Owner
  <2>2. ASSUME NEW t \in Servers, NEW v \in Workers, pc[t][v] \in Critical
        PROVE  /\ TheBlock(t, v) \in Blocks
               /\ lock'[TheBlock(t, v)] = Owner(t) \/ permanent'[TheBlock(t, v)] # "none"
    <3>1. TheBlock(t, v) \in Blocks
      BY <1>0, <2>2, HasBlock DEF Critical
    <3>2. CASE permanent[TheBlock(t, v)] # "none"
      BY <1>1, <3>1, <3>2, PresentStays DEF StoreNext, Next, Server
    <3>3. CASE permanent[TheBlock(t, v)] = "none"
      <4>1. lock[TheBlock(t, v)] = Owner(t)
        BY <2>2, <3>3 DEF Guarded
      <4>2. CASE AcquireLock(s, w)
        BY <1>0, <3>1, <4>1, <4>2 DEF AcquireLock, Lock!Grant, TypeOK, Lock!TypeOK
      <4>3. CASE ReleaseLock(s, w)
        <5>1. TheBlock(s, w) # TheBlock(t, v)
          BY <3>3, <4>3 DEF ReleaseLock, At, Present
        <5> QED
          BY <3>1, <4>1, <4>3, <5>1 DEF ReleaseLock, Lock!Free, TypeOK, Lock!TypeOK
      <4>4. CASE ~AcquireLock(s, w) /\ ~ReleaseLock(s, w)
        <5>1. lock' = lock
          BY <1>1, <4>4 DEF Work, Dequeue, CheckCache, GiveUp, RecheckCache, CheckRow, CheckStore,
            RecordExisting, StartCopy, FinishCopy, RecordCopied, CloseChannel
        <5> QED
          BY <3>1, <4>1, <5>1
      <4> QED
        BY <4>2, <4>3, <4>4
    <3> QED
      BY <3>1, <3>2, <3>3
  <2>3. ASSUME NEW t \in Servers, NEW v \in Workers, pc'[t][v] \in Critical
        PROVE  lock'[TheBlock(t, v)'] = Owner(t)' \/ permanent'[TheBlock(t, v)'] # "none"
    <3>1. CASE t # s \/ v # w
      BY <1>0, <1>1, <2>1, <2>2, <2>3, <3>1, OtherWorkers DEF TheBlock
    <3>2. CASE t = s /\ v = w /\ AcquireLock(s, w)
      <4>1. TheBlock(s, w)' = TheBlock(s, w) /\ TheBlock(s, w) \in Blocks
        BY <1>0, <3>2, HasBlock DEF AcquireLock, At, TheBlock
      <4> QED
        BY <2>1, <3>2, <4>1 DEF AcquireLock, Lock!Grant, TypeOK, Lock!TypeOK
    <3>3. CASE t = s /\ v = w /\ ~AcquireLock(s, w)
      <4>1. pc[s][w] \in Critical /\ job' = job
        BY <1>0, <1>1, <2>3, <3>3 DEF Work, Dequeue, CheckCache, GiveUp, RecheckCache, CheckRow,
          CheckStore, RecordExisting, StartCopy, FinishCopy, RecordCopied, ReleaseLock,
          CloseChannel, At, Goto, Critical, WorkersOK
      <4> QED
        BY <2>1, <2>2, <3>3, <4>1 DEF TheBlock
    <3> QED
      BY <3>1, <3>2, <3>3
  <2> QED
    BY <2>3 DEF Guarded
<1>2. ASSUME NEW s \in Servers, Restart(s)
      PROVE  Guarded'
  <2>1. \A t \in Servers, v \in Workers : pc'[t][v] \in Critical =>
          t # s /\ pc'[t][v] = pc[t][v] /\ job'[t][v] = job[t][v] /\ epoch'[t] = epoch[t]
    BY <1>2, RestartWorkers DEF Critical
  <2>2. UNCHANGED <<lock, permanent>>
    BY <1>2 DEF Restart
  <2> QED
    BY <2>1, <2>2 DEF Guarded, TheBlock, Owner, Critical
<1>3. ASSUME NEW b \in Blocks, LockLapses(b)
      PROVE  Guarded'
  <2>1. \A t \in Servers, v \in Workers :
          pc[t][v] \in Critical /\ TheBlock(t, v) = b => lock[b] # Owner(t)
    BY <1>3 DEF LockLapses, Busy, StoreWorks
  <2>2. \A t \in Servers, v \in Workers : pc[t][v] \in Critical => TheBlock(t, v) \in Blocks
    BY <1>0, HasBlock DEF Critical
  <2>3. \A c \in Blocks : c # b => lock'[c] = lock[c]
    BY <1>3 DEF LockLapses, Lock!Lapse
  <2>4. UNCHANGED <<permanent, epoch, pc, job>>
    BY <1>3 DEF LockLapses
  <2> QED
    BY <2>1, <2>2, <2>3, <2>4 DEF Guarded, TheBlock, Owner
<1>4. CASE UNCHANGED <<lock, permanent, epoch, pc, job>>
  BY <1>4 DEF Guarded, TheBlock, Owner
<1> QED
  BY <1>1, <1>2, <1>3, <1>4
  DEF StoreNext, Next, Server, Save, Send, CreateBeaconBlock, Stop, StopReturns, vars

Writing == {"copy", "write", "record"}

\* Nobody begins to write what another server may be writing: it has seen the
\* permanent location empty, so the lock is its own and nobody else's.
LEMMA StoreNextWriter ==
  ASSUME StoreWorks, WriterInv, Copyable, [StoreNext]_vars
  PROVE  WriterInv'
<1> USE DEF world, intake
<1>0. TypeOK' /\ Present' /\ Guarded' /\ WorkersOK
  BY StoreNextTypeOK, StoreNextPresent, StoreNextGuarded DEF WriterInv, TypeOK, WorkersOK
<1>1. ASSUME NEW s \in Servers, NEW w \in Workers, pc'[s][w] \in Writing
      PROVE  \/ pc[s][w] \in Writing /\ job'[s][w] = job[s][w]
             \/ CheckStore(s, w) /\ permanent[TheBlock(s, w)] = "none" /\ job'[s][w] = job[s][w]
  <2>1. CASE pc'[s][w] = pc[s][w] /\ job'[s][w] = job[s][w]
    BY <1>1, <2>1
  <2>2. CASE ~(pc'[s][w] = pc[s][w] /\ job'[s][w] = job[s][w])
    <3>1. PICK t \in Servers : Restart(t) \/ \E v \in Workers : Work(t, v)
      BY <2>2 DEF StoreNext, Next, Server, Save, Send, CreateBeaconBlock, Stop, StopReturns,
        LockLapses, vars
    <3>2. PICK v \in Workers : Work(t, v)
      BY <1>1, <2>2, <3>1, RestartWorkers DEF WriterInv, Writing
    <3>3. Work(s, w)
      BY <1>0, <2>2, <3>2, OtherWorkers
    <3> QED
      BY <1>0, <1>1, <3>3
      DEF Work, Dequeue, CheckCache, AcquireLock, GiveUp, RecheckCache, CheckRow, CheckStore,
        RecordExisting, StartCopy, FinishCopy, RecordCopied, ReleaseLock, CloseChannel, At, Goto,
        WorkersOK, Writing
  <2> QED
    BY <2>1, <2>2
<1>2. ASSUME NEW s \in Servers, NEW t \in Servers, NEW v \in Workers, NEW w \in Workers,
             pc'[s][v] \in Writing, pc'[t][w] \in Writing, TheBlock(s, v)' = TheBlock(t, w)',
             s # t
      PROVE  FALSE
  <2>1. /\ TheBlock(s, v) = TheBlock(t, w)
        /\ pc[s][v] \in Critical /\ pc[t][w] \in Critical
    BY <1>1, <1>2 DEF TheBlock, Writing, Critical, CheckStore, At
  <2>2. CASE pc[s][v] \in Writing /\ pc[t][w] \in Writing
    BY <1>2, <2>1, <2>2 DEF WriterInv, OneWriter, Writing
  <2>3. CASE permanent[TheBlock(s, v)] = "none"
    <3>1. lock[TheBlock(s, v)] = Owner(s) /\ lock[TheBlock(s, v)] = Owner(t)
      BY <2>1, <2>3 DEF WriterInv, Guarded
    <3> QED
      BY <1>2, <3>1 DEF Owner
  <2> QED
    BY <1>1, <1>2, <2>1, <2>2, <2>3
<1> QED
  BY <1>0, <1>2 DEF WriterInv, OneWriter, Writing

LEMMA InitWriter == Init => WriterInv
  BY InitTypeOK DEF Init, WriterInv, Present, Guarded, OneWriter, Critical

\* What a server has been given to do has been uploaded.
JobsStored ==
  /\ \A i \in Items : phase[i] # "absent" => i \in stored
  /\ \A s \in Servers :
       /\ \A j \in offers[s] : j.copy \in stored
       /\ \A n \in 1 .. Len(queue[s]) : queue[s][n].copy \in stored
       /\ \A w \in Workers : pc[s][w] # "idle" => job[s][w].copy \in stored

LEMMA StoreNextJobsStored ==
  ASSUME TypeOK, JobsStored, [StoreNext]_vars
  PROVE  JobsStored'
<1>1. /\ \A i \in Items : phase'[i] # "absent" => i \in stored'
      /\ stored \subseteq stored'
  BY StoreItems DEF JobsStored, TypeOK
<1>2. ASSUME NEW s \in Servers
      PROVE  /\ \A j \in offers'[s] : j.copy \in stored'
             /\ \A n \in 1 .. Len(queue'[s]) : queue'[s][n].copy \in stored'
             /\ \A w \in Workers : pc'[s][w] # "idle" => job'[s][w].copy \in stored'
  <2>1. \A j \in Jobs : phase'[j.copy] = "indexed" => j.copy \in stored'
    BY <1>1, StoreAssumption DEF Jobs
  <2>2. queue[s] # <<>> => Head(queue[s]) = queue[s][1] /\ 1 \in 1 .. Len(queue[s])
    <3>1. queue[s] \in Seq(Jobs)
      BY DEF TypeOK
    <3> QED
      BY <3>1, HeadTailProperties, EmptySeq
  <2>3. \A j \in offers'[s] : j.copy \in stored'
    BY <1>1, <2>1, StoreJobs DEF JobsStored
  <2>4. \A n \in 1 .. Len(queue'[s]) : queue'[s][n].copy \in stored'
    BY <1>1, StoreJobs DEF JobsStored
  <2>5. \A w \in Workers : pc'[s][w] # "idle" => job'[s][w].copy \in stored'
    BY <1>1, <2>2, StoreJobs DEF JobsStored
  <2> QED
    BY <2>3, <2>4, <2>5
<1> QED
  BY <1>1, <1>2 DEF JobsStored

\* With any number of workers to a server, all under one owner, only one server
\* at a time writes a block's permanent location, through crashes, failing
\* queries and inserts and releases: as long as the store answers, a worker
\* frees the lock its colleagues rely on only when there is nothing left to
\* write (processBlock).
THEOREM LockProtectsWriters == ASSUME StoreWorks PROVE Spec => []OneWriter
<1>1. Init => WriterInv /\ JobsStored
  <2> SUFFICES ASSUME Init PROVE WriterInv /\ JobsStored
    OBVIOUS
  <2>1. \A s \in Servers : Len(queue[s]) = 0
    BY DEF Init
  <2> QED
    BY <2>1, InitWriter DEF Init, JobsStored
<1>2. TypeOK /\ JobsStored => Copyable
  BY DEF JobsStored, Copyable
<1>3. WriterInv /\ JobsStored /\ [Next]_vars => (WriterInv /\ JobsStored)'
  BY <1>2, StoreNextWriter, StoreNextJobsStored DEF StoreNext, WriterInv
<1>4. WriterInv => OneWriter
  BY DEF WriterInv
<1> QED
  BY <1>1, <1>3, <1>4, PTL DEF Spec
=============================================================================
