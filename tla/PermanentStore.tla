--------------------------- MODULE PermanentStore ---------------------------
(***************************************************************************)
(* The permanent store of the server                                       *)
(* (pkg/server/service/indexer/permanent_store.go): a bounded queue and a  *)
(* pool of workers per server, which copy one object of every beacon block *)
(* to a permanent location, record it in the database and remember it in   *)
(* a cache.  Servers share the object store, the database and its lock     *)
(* table (LeaseLock, implemented by DistributedLock).                      *)
(*                                                                         *)
(* A copy is one captured instance of a block: an object the agent         *)
(* uploaded, and later a beacon_block record pointing at it.  Several      *)
(* copies of one block (BlockOf: network and root) are the normal case,    *)
(* one per agent.                                                          *)
(***************************************************************************)
EXTENDS Naturals, Sequences, FiniteSets

CONSTANTS
  Servers, Workers,   \* server processes; worker goroutines of each (10 in the code)
  Items,              \* everything agents capture
  Copies,             \* the items that are beacon blocks
  Blocks, BlockOf,    \* network and root of a block; the block of a copy
  Incomplete,         \* copies indexed without a network, which the request's
                      \* Validate accepts
  Enabled,            \* configuration: permanentStore.blocks.enabled
  QueueCap, CacheCap, \* capacity of queue and cache (both 5000 in the code)
  AtomicCopy,         \* TRUE: S3, a copy appears whole; FALSE: the file store,
                      \* os.WriteFile truncates the target and then writes it
  Faults,             \* what may befall the servers, see FaultKinds
  MaxEpoch,           \* bound on restarts of a server
  NoOwner, NoJob

FaultKinds ==
  {"crash",           \* a server process dies and is started again
   "stop",            \* a server is told to stop, and may be started again
   "storeExists",     \* store.Exists fails
   "storeCopy",       \* store.Copy fails
   "storeDelete",     \* store.Delete... fails
   "dbRead",          \* a query fails
   "dbWrite",         \* an insert, a delete or the release of a lock fails
   "giveUp",          \* the lock stays out of reach for 35 s
   "slow"}            \* a worker holds a lock longer than its lease of 30 s

ASSUME StoreAssumption ==
  /\ Copies \subseteq Items /\ Incomplete \subseteq Copies
  /\ BlockOf \in [Copies -> Blocks]
  /\ Enabled \in BOOLEAN /\ AtomicCopy \in BOOLEAN
  /\ QueueCap \in Nat /\ CacheCap \in Nat \ {0}
  /\ Faults \subseteq FaultKinds
  /\ MaxEpoch \in Nat

Jobs == [copy : Copies, waits : BOOLEAN]   \* PermanentStoreBlock; waits: ProcessedChan

ASSUME NoJobAssumption == NoJob \notin Jobs

Labels == {"idle", "checkCache", "acquire", "recheckCache", "checkRow", "checkStore",
           "recordExisting", "copy", "write", "record", "release", "close"}

VARIABLES
  phase,      \* items: "absent", "saved" by an agent, "indexed" in the database, "purged"
  stored,     \* items whose object is in the store
  permanent,  \* object at a block's permanent location: "none", "partial", "whole"
  permRows,   \* rows of a block in permanent_blocks: 0, 1, or 2 for several
  lock,       \* the lease lock of each block
  epoch,      \* incarnation of a server: NewIndexer draws a new nodeID
  stop,       \* PermanentStore.Stop: "running", "draining", "returned"
  offers,     \* jobs past QueueBlock's checks and not yet sent to the channel
  queue,      \* p.queue
  cache,      \* p.cache
  pc, job,    \* next step and job of each worker
  done        \* copies whose ProcessedChan has been closed

world == <<phase, stored, permanent, permRows, lock>>
intake == <<stop, offers, queue, done>>
vars == <<phase, stored, permanent, permRows, lock, epoch, stop, offers, queue, cache,
          pc, job, done>>

Owner(s) == <<s, epoch[s]>>
Owners == Servers \X (0 .. MaxEpoch)

ASSUME NoOwnerAssumption == NoOwner \notin Owners

Lock == INSTANCE LeaseLock WITH Keys <- Blocks, holder <- lock

TypeOK ==
  /\ phase \in [Items -> {"absent", "saved", "indexed", "purged"}]
  /\ stored \subseteq Items
  /\ permanent \in [Blocks -> {"none", "partial", "whole"}]
  /\ permRows \in [Blocks -> 0 .. 2]
  /\ Lock!TypeOK
  /\ epoch \in [Servers -> 0 .. MaxEpoch]
  /\ stop \in [Servers -> {"running", "draining", "returned"}]
  /\ offers \in [Servers -> SUBSET Jobs]
  /\ queue \in [Servers -> Seq(Jobs)]
  /\ \A s \in Servers : Len(queue[s]) <= QueueCap
  /\ cache \in [Servers -> SUBSET Blocks]
  /\ pc \in [Servers -> [Workers -> Labels]]
  /\ job \in [Servers -> [Workers -> Jobs \cup {NoJob}]]
  /\ \A s \in Servers, w \in Workers : pc[s][w] = "idle" <=> job[s][w] = NoJob
  /\ done \in [Servers -> SUBSET Copies]

Init ==
  /\ phase = [i \in Items |-> "absent"]
  /\ stored = {}
  /\ permanent = [b \in Blocks |-> "none"]
  /\ permRows = [b \in Blocks |-> 0]
  /\ Lock!Init
  /\ epoch = [s \in Servers |-> 0]
  /\ stop = [s \in Servers |-> "running"]
  /\ offers = [s \in Servers |-> {}]
  /\ queue = [s \in Servers |-> <<>>]
  /\ cache = [s \in Servers |-> {}]
  /\ pc = [s \in Servers |-> [w \in Workers |-> "idle"]]
  /\ job = [s \in Servers |-> [w \in Workers |-> NoJob]]
  /\ done = [s \in Servers |-> {}]

-----------------------------------------------------------------------------
(* QueueBlock: check the flags, then try to send *)

Offer(s, j) ==
  offers' = IF Enabled /\ stop[s] = "running"
            THEN [offers EXCEPT ![s] = @ \cup {j}] ELSE offers

\* Mutant: the send appends to a queue of any length.
SendUnbounded(s, j) ==
  /\ j \in offers[s]
  /\ offers' = [offers EXCEPT ![s] = @ \ {j}]
  /\ queue' = [queue EXCEPT ![s] = Append(@, j)]
  /\ UNCHANGED <<world, epoch, stop, cache, pc, job, done>>

\* The send is a select with a default: a full queue drops the job, and says
\* so only in the log.
Send(s, j) ==
  /\ j \in offers[s]
  /\ offers' = [offers EXCEPT ![s] = @ \ {j}]
  /\ queue' = [queue EXCEPT ![s] = IF Len(@) < QueueCap THEN Append(@, j) ELSE @]
  /\ UNCHANGED <<world, epoch, stop, cache, pc, job, done>>

\* An agent uploads an object (external: the agent's pipeline).
Save(i) ==
  /\ phase[i] = "absent"
  /\ phase' = [phase EXCEPT ![i] = "saved"]
  /\ stored' = stored \cup {i}
  /\ UNCHANGED <<permanent, permRows, lock, epoch, intake, cache, pc, job>>

\* CreateBeaconBlock from the insert on: the record, then QueueBlock without a
\* channel.  The agent calls it once per uploaded object; a server that is
\* stopping takes no more requests (GracefulStop).
CreateBeaconBlock(s, c) ==
  /\ phase[c] = "saved"
  /\ stop[s] = "running"
  /\ phase' = [phase EXCEPT ![c] = "indexed"]
  /\ Offer(s, [copy |-> c, waits |-> FALSE])
  /\ UNCHANGED <<stored, permanent, permRows, lock, epoch, stop, queue, cache, pc, job, done>>

-----------------------------------------------------------------------------
(* processQueue and processBlock, one action per access to shared state *)

TheBlock(s, w) == BlockOf[job[s][w].copy]

At(s, w, l) == pc[s][w] = l
Goto(s, w, l) == pc' = [pc EXCEPT ![s][w] = l]

\* The caches that adding b may leave: the cache evicts one entry when full.
CachesWith(s, b) ==
  IF Cardinality(cache[s] \cup {b}) <= CacheCap
  THEN {cache[s] \cup {b}}
  ELSE {(cache[s] \ {v}) \cup {b} : v \in cache[s]}

AddToCache(s, b) == \E C \in CachesWith(s, b) : cache' = [cache EXCEPT ![s] = C]

\* Mutant: the workers quit when the stopped flag is set.
DequeueUnlessStopped(s, w) ==
  /\ stop[s] = "running"
  /\ At(s, w, "idle")
  /\ queue[s] # <<>>
  /\ queue' = [queue EXCEPT ![s] = Tail(@)]
  /\ job' = [job EXCEPT ![s][w] = Head(queue[s])]
  /\ Goto(s, w, "checkCache")
  /\ UNCHANGED <<world, epoch, stop, offers, cache, done>>

\* A job with an empty field is skipped; its channel, if any, is not closed.
Dequeue(s, w) ==
  /\ At(s, w, "idle")
  /\ queue[s] # <<>>
  /\ queue' = [queue EXCEPT ![s] = Tail(@)]
  /\ IF Head(queue[s]).copy \in Incomplete
     THEN UNCHANGED <<pc, job>>
     ELSE /\ job' = [job EXCEPT ![s][w] = Head(queue[s])]
          /\ Goto(s, w, "checkCache")
  /\ UNCHANGED <<world, epoch, stop, offers, cache, done>>

\* Mutant: the first look at the cache comes before the deferred close.
CheckCacheNoClose(s, w) ==
  /\ At(s, w, "checkCache")
  /\ IF TheBlock(s, w) \in cache[s]
     THEN Goto(s, w, "idle") /\ job' = [job EXCEPT ![s][w] = NoJob]
     ELSE Goto(s, w, "acquire") /\ UNCHANGED job
  /\ UNCHANGED <<world, epoch, intake, cache>>

CheckCache(s, w) ==
  /\ At(s, w, "checkCache")
  /\ Goto(s, w, IF TheBlock(s, w) \in cache[s] THEN "close" ELSE "acquire")
  /\ UNCHANGED <<world, epoch, intake, cache, job>>

\* Mutant: a failed AcquireLock is taken for a success.
AcquireNothing(s, w) ==
  /\ At(s, w, "acquire")
  /\ Goto(s, w, "recheckCache")
  /\ UNCHANGED <<world, epoch, intake, cache, job>>

\* All workers of a server acquire under its nodeID, so the lock does not keep
\* them from each other.
AcquireLock(s, w) ==
  /\ At(s, w, "acquire")
  /\ Lock!Grant(Owner(s), TheBlock(s, w))
  /\ Goto(s, w, "recheckCache")
  /\ UNCHANGED <<phase, stored, permanent, permRows, epoch, intake, cache, job>>

\* No lock after 35 s of retries: return nil.
GiveUp(s, w) ==
  /\ "giveUp" \in Faults
  /\ At(s, w, "acquire")
  /\ Goto(s, w, "close")
  /\ UNCHANGED <<world, epoch, intake, cache, job>>

RecheckCache(s, w) ==
  /\ At(s, w, "recheckCache")
  /\ Goto(s, w, IF TheBlock(s, w) \in cache[s] THEN "release" ELSE "checkRow")
  /\ UNCHANGED <<world, epoch, intake, cache, job>>

\* A missing row comes back as an error; any error is logged and the worker
\* goes on to the store.
CheckRow(s, w) ==
  /\ At(s, w, "checkRow")
  /\ \/ /\ permRows[TheBlock(s, w)] > 0
        /\ AddToCache(s, TheBlock(s, w))
        /\ Goto(s, w, "release")
     \/ /\ permRows[TheBlock(s, w)] = 0 \/ "dbRead" \in Faults
        /\ Goto(s, w, "checkStore")
        /\ UNCHANGED cache
  /\ UNCHANGED <<world, epoch, intake, job>>

\* Mutant: the block is put in the cache before it is copied.
CheckStoreCachesEarly(s, w) ==
  /\ At(s, w, "checkStore")
  /\ AddToCache(s, TheBlock(s, w))
  /\ Goto(s, w, IF permanent[TheBlock(s, w)] # "none" THEN "recordExisting" ELSE "copy")
  /\ UNCHANGED <<world, epoch, intake, job>>

CheckStore(s, w) ==
  /\ At(s, w, "checkStore")
  /\ \/ /\ permanent[TheBlock(s, w)] # "none"
        /\ AddToCache(s, TheBlock(s, w))
        /\ Goto(s, w, "recordExisting")
     \/ /\ permanent[TheBlock(s, w)] = "none"
        /\ Goto(s, w, "copy")
        /\ UNCHANGED cache
     \/ /\ "storeExists" \in Faults
        /\ Goto(s, w, "release")
        /\ UNCHANGED cache
  /\ UNCHANGED <<world, epoch, intake, job>>

\* recordPermanentBlock: a plain insert, on a table without a unique index.
InsertRow(b) ==
  \/ permRows' = [permRows EXCEPT ![b] = IF @ < 2 THEN @ + 1 ELSE @]
  \/ "dbWrite" \in Faults /\ UNCHANGED permRows

RecordExisting(s, w) ==
  /\ At(s, w, "recordExisting")
  /\ InsertRow(TheBlock(s, w))
  /\ Goto(s, w, "release")
  /\ UNCHANGED <<phase, stored, permanent, lock, epoch, intake, cache, job>>

\* store.Copy reads the source; the file store then opens the target, which
\* truncates it, before it writes.
StartCopy(s, w) ==
  /\ At(s, w, "copy")
  /\ \/ /\ job[s][w].copy \in stored
        /\ permanent' = IF AtomicCopy THEN permanent
                        ELSE [permanent EXCEPT ![TheBlock(s, w)] = "partial"]
        /\ Goto(s, w, "write")
     \/ /\ job[s][w].copy \notin stored \/ "storeCopy" \in Faults
        /\ Goto(s, w, "release")
        /\ UNCHANGED permanent
  /\ UNCHANGED <<phase, stored, permRows, lock, epoch, intake, cache, job>>

\* Mutant: an error of store.Copy is logged and ignored.
FinishCopyIgnoresError(s, w) ==
  /\ At(s, w, "write")
  /\ \/ permanent' = [permanent EXCEPT ![TheBlock(s, w)] = "whole"]
     \/ "storeCopy" \in Faults /\ UNCHANGED permanent
  /\ Goto(s, w, "record")
  /\ UNCHANGED <<phase, stored, permRows, lock, epoch, intake, cache, job>>

FinishCopy(s, w) ==
  /\ At(s, w, "write")
  /\ \/ /\ permanent' = [permanent EXCEPT ![TheBlock(s, w)] = "whole"]
        /\ Goto(s, w, "record")
     \/ /\ "storeCopy" \in Faults
        /\ Goto(s, w, "release")
        /\ UNCHANGED permanent
  /\ UNCHANGED <<phase, stored, permRows, lock, epoch, intake, cache, job>>

RecordCopied(s, w) ==
  /\ At(s, w, "record")
  /\ InsertRow(TheBlock(s, w))
  /\ AddToCache(s, TheBlock(s, w))
  /\ Goto(s, w, "release")
  /\ UNCHANGED <<phase, stored, permanent, lock, epoch, intake, job>>

\* The deferred ReleaseLock, which runs before the deferred close.
ReleaseLock(s, w) ==
  /\ At(s, w, "release")
  /\ \/ Lock!Free(Owner(s), TheBlock(s, w))
     \/ "dbWrite" \in Faults /\ UNCHANGED lock
  /\ Goto(s, w, "close")
  /\ UNCHANGED <<phase, stored, permanent, permRows, epoch, intake, cache, job>>

\* The deferred close of ProcessedChan, whatever processBlock returns.
CloseChannel(s, w) ==
  /\ At(s, w, "close")
  /\ done' = IF job[s][w].waits THEN [done EXCEPT ![s] = @ \cup {job[s][w].copy}] ELSE done
  /\ job' = [job EXCEPT ![s][w] = NoJob]
  /\ Goto(s, w, "idle")
  /\ UNCHANGED <<world, epoch, stop, offers, queue, cache>>

Work(s, w) ==
  \/ Dequeue(s, w) \/ CheckCache(s, w) \/ AcquireLock(s, w) \/ GiveUp(s, w)
  \/ RecheckCache(s, w) \/ CheckRow(s, w) \/ CheckStore(s, w) \/ RecordExisting(s, w)
  \/ StartCopy(s, w) \/ FinishCopy(s, w) \/ RecordCopied(s, w)
  \/ ReleaseLock(s, w) \/ CloseChannel(s, w)

Critical == {"recheckCache", "checkRow", "checkStore", "recordExisting", "copy", "write",
             "record", "release"}

\* A worker of this incarnation of s is between AcquireLock and ReleaseLock.
Busy(s, b) == \E w \in Workers : pc[s][w] \in Critical /\ TheBlock(s, w) = b

\* Mutant: expired locks are never cleaned up or taken over.
LockNeverLapses(b) == lock[b] # lock[b] /\ UNCHANGED vars

\* The lease on b runs out: on a worker that outlives it only with "slow".
LockLapses(b) ==
  /\ lock[b] # NoOwner
  /\ "slow" \in Faults \/ \A s \in Servers : lock[b] = Owner(s) => ~Busy(s, b)
  /\ Lock!Lapse({b})
  /\ UNCHANGED <<phase, stored, permanent, permRows, epoch, intake, cache, pc, job>>

-----------------------------------------------------------------------------
(* Stop, and the end of the process *)

\* Server.stop waits for the requests in flight (GracefulStop), then calls
\* Stop, which sets the flag and polls the length of the queue.
Stop(s) ==
  /\ "stop" \in Faults
  /\ stop[s] = "running"
  /\ \A j \in offers[s] : j.waits
  /\ stop' = [stop EXCEPT ![s] = "draining"]
  /\ UNCHANGED <<world, epoch, offers, queue, cache, pc, job, done>>

StopReturns(s) ==
  /\ stop[s] = "draining"
  /\ queue[s] = <<>>
  /\ stop' = [stop EXCEPT ![s] = "returned"]
  /\ UNCHANGED <<world, epoch, offers, queue, cache, pc, job, done>>

\* The process ends, after Stop or without, and a new one starts: everything
\* in memory is gone, the goroutines wherever they are, and the nodeID is new.
Restart(s) ==
  /\ "crash" \in Faults \/ stop[s] = "returned"
  /\ epoch[s] < MaxEpoch
  /\ epoch' = [epoch EXCEPT ![s] = @ + 1]
  /\ stop' = [stop EXCEPT ![s] = "running"]
  /\ offers' = [offers EXCEPT ![s] = {}]
  /\ queue' = [queue EXCEPT ![s] = <<>>]
  /\ cache' = [cache EXCEPT ![s] = {}]
  /\ pc' = [pc EXCEPT ![s] = [w \in Workers |-> "idle"]]
  /\ job' = [job EXCEPT ![s] = [w \in Workers |-> NoJob]]
  /\ done' = [done EXCEPT ![s] = {}]
  /\ UNCHANGED world

Server(s) ==
  \/ \E j \in offers[s] : Send(s, j)
  \/ \E w \in Workers : Work(s, w)
  \/ Stop(s) \/ StopReturns(s) \/ Restart(s)
  \/ \E c \in Copies : CreateBeaconBlock(s, c)

Next ==
  \/ \E i \in Copies : Save(i)
  \/ \E s \in Servers : Server(s)
  \/ \E b \in Blocks : LockLapses(b)

\* Goroutines that can run do run; leases run out; Stop polls.
Fairness ==
  /\ \A s \in Servers :
       /\ WF_vars(\E j \in offers[s] : Send(s, j))
       /\ \A w \in Workers : WF_vars(Work(s, w))
       /\ WF_vars(StopReturns(s))
  /\ \A b \in Blocks : WF_vars(LockLapses(b))

Spec == Init /\ [][Next]_vars /\ Fairness

-----------------------------------------------------------------------------
(* Properties *)

\* A block in some server's cache, which stops all work on it, has a whole
\* object at its permanent location, whoever put it there and whatever failed
\* or crashed on the way (cache.Add in processBlock).
CacheSound == \A s \in Servers : \A b \in cache[s] : permanent[b] = "whole"

\* A row in permanent_blocks, which the API lists and other servers trust,
\* has a whole object behind it (recordPermanentBlock).
RecordSound == \A b \in Blocks : permRows[b] > 0 => permanent[b] = "whole"

\* A worker writes the permanent location of a block only while no worker of
\* another server does (the distributed lock around store.Copy).
OneWriter ==
  \A s, t \in Servers : \A v, w \in Workers :
    /\ pc[s][v] \in {"copy", "write", "record"}
    /\ pc[t][w] \in {"copy", "write", "record"}
    /\ TheBlock(s, v) = TheBlock(t, w)
    => s = t

\* Stop returns, even if more jobs are sent meanwhile and locks were left behind
\* by a server that died (the polling loop of Stop).
StopTerminates == \A s \in Servers : stop[s] = "draining" ~> stop[s] # "draining"

\* A block accepted into a queue becomes permanent unless that server ends
\* first, even if another one, or its predecessor, died with the lock on it
\* (processQueue).
QueuedBecomesPermanent ==
  \A s \in Servers, b \in Blocks, e \in 0 .. MaxEpoch :
    (/\ epoch[s] = e
     /\ \E i \in 1 .. Len(queue[s]) :
          queue[s][i].copy \notin Incomplete /\ BlockOf[queue[s][i].copy] = b)
      ~> (permanent[b] = "whole" \/ epoch[s] # e)
=============================================================================
