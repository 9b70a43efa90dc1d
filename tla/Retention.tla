------------------------------ MODULE Retention ------------------------------
(***************************************************************************)
(* The retention watcher of the server                                     *)
(* (pkg/server/service/indexer/retention.go) composed with the permanent   *)
(* store.  Each server runs one loop over the six kinds of records.  An    *)
(* old record's object is deleted from the store first and the record      *)
(* after it; an old beacon block is first handed to the permanent store    *)
(* through its queue, and the loop waits on the block's ProcessedChan.     *)
(***************************************************************************)
EXTENDS PermanentStore

CONSTANTS
  KindOf,         \* the kind of each item
  MissingIsError, \* deleting an object that is not there: TRUE for the file store,
                  \* whose os.Remove error is not ErrNotFound; FALSE for S3
  NoItem

ASSUME RetentionAssumption ==
  /\ Copies = {i \in Items : KindOf[i] = "beacon_block"}
  /\ MissingIsError \in BOOLEAN
  /\ NoItem \notin Items

\* Mutant: the loop leaves out the execution traces.
NextKindNoTraces ==
  [beacon_state          |-> "beacon_block",
   beacon_block          |-> "beacon_bad_block",
   beacon_bad_block      |-> "beacon_bad_blob",
   beacon_bad_blob       |-> "execution_bad_block",
   execution_block_trace |-> "execution_bad_block",
   execution_bad_block   |-> "beacon_state"]

\* The order of the loop in startRetentionWatchers.
NextKind ==
  [beacon_state          |-> "beacon_block",
   beacon_block          |-> "beacon_bad_block",
   beacon_bad_block      |-> "beacon_bad_blob",
   beacon_bad_blob       |-> "execution_block_trace",
   execution_block_trace |-> "execution_bad_block",
   execution_bad_block   |-> "beacon_state"]

Kinds == DOMAIN NextKind

VARIABLES
  old,   \* indexed items older than the retention period of their kind
  step,  \* of each server's loop: "list", "next", "wait", "deleteObject", "deleteRecord"
  kind,  \* the kind the loop is at
  todo,  \* listed items of that kind not yet looked at
  item   \* the item in hand

loop == <<step, kind, todo, item>>
rvars == <<vars, old, loop>>

RTypeOK ==
  /\ TypeOK
  /\ old \subseteq Items
  /\ step \in [Servers -> {"list", "next", "wait", "deleteObject", "deleteRecord"}]
  /\ kind \in [Servers -> Kinds]
  /\ todo \in [Servers -> SUBSET Items]
  /\ item \in [Servers -> Items \cup {NoItem}]
  /\ \A s \in Servers : item[s] = NoItem <=> step[s] \in {"list", "next"}

RInit ==
  /\ Init
  /\ old = {}
  /\ step = [s \in Servers |-> "list"]
  /\ kind = [s \in Servers |-> "beacon_state"]
  /\ todo = [s \in Servers |-> {}]
  /\ item = [s \in Servers |-> NoItem]

\* The handlers that index the other kinds only add a record (from the insert
\* on, as for CreateBeaconBlock).
IndexOther(i) ==
  /\ i \notin Copies
  /\ phase[i] = "saved"
  /\ phase' = [phase EXCEPT ![i] = "indexed"]
  /\ UNCHANGED <<stored, permanent, permRows, lock, epoch, intake, cache, pc, job, old, loop>>

\* Time passes: a record becomes older than the retention period.
GrowOld(i) ==
  /\ phase[i] = "indexed"
  /\ old' = old \cup {i}
  /\ UNCHANGED <<vars, loop>>

-----------------------------------------------------------------------------
(* What the six purge functions share *)

\* The query for records fetched before now minus the period; with none left,
\* or on an error, the loop goes to the next kind (after the last one it
\* sleeps a minute and starts over).
List(s) ==
  /\ step[s] = "list"
  /\ LET found == {i \in old : phase[i] = "indexed" /\ KindOf[i] = kind[s]} IN
       \/ /\ found # {}
          /\ todo' = [todo EXCEPT ![s] = found]
          /\ step' = [step EXCEPT ![s] = "next"]
          /\ UNCHANGED kind
       \/ /\ found = {} \/ "dbRead" \in Faults
          /\ kind' = [kind EXCEPT ![s] = NextKind[@]]
          /\ UNCHANGED <<todo, step>>
  /\ UNCHANGED <<vars, old, item>>

EndOfList(s) ==
  /\ step[s] = "next"
  /\ todo[s] = {}
  /\ kind' = [kind EXCEPT ![s] = NextKind[@]]
  /\ step' = [step EXCEPT ![s] = "list"]
  /\ UNCHANGED <<vars, old, todo, item>>

Pick(s, i, l) ==
  /\ step[s] = "next"
  /\ i \in todo[s]
  /\ todo' = [todo EXCEPT ![s] = @ \ {i}]
  /\ item' = [item EXCEPT ![s] = i]
  /\ step' = [step EXCEPT ![s] = l]
  /\ UNCHANGED <<old, kind>>

\* Mutant: the loop goes on with the item still in hand.
SkipKeepsItem(s) ==
  /\ step' = [step EXCEPT ![s] = "next"]
  /\ UNCHANGED item

\* `continue`: the record is left for the next round.
Skip(s) ==
  /\ step' = [step EXCEPT ![s] = "next"]
  /\ item' = [item EXCEPT ![s] = NoItem]

\* Mutant: every error of the store counts as not found.
DeleteObjectIgnoresError(s) ==
  /\ step[s] = "deleteObject"
  /\ \/ stored' = stored \ {item[s]}
     \/ "storeDelete" \in Faults /\ UNCHANGED stored
  /\ step' = [step EXCEPT ![s] = "deleteRecord"]
  /\ UNCHANGED <<phase, permanent, permRows, lock, epoch, intake, cache, pc, job, old, kind,
                 todo, item>>

DeleteObject(s) ==
  /\ step[s] = "deleteObject"
  /\ \/ /\ item[s] \in stored \/ ~MissingIsError
        /\ stored' = stored \ {item[s]}
        /\ step' = [step EXCEPT ![s] = "deleteRecord"]
        /\ UNCHANGED item
     \/ /\ (item[s] \notin stored /\ MissingIsError) \/ "storeDelete" \in Faults
        /\ Skip(s)
        /\ UNCHANGED stored
  /\ UNCHANGED <<phase, permanent, permRows, lock, epoch, intake, cache, pc, job, old, kind, todo>>

DeleteRecord(s) ==
  /\ step[s] = "deleteRecord"
  /\ \/ phase' = [phase EXCEPT ![item[s]] = "purged"]
     \/ "dbWrite" \in Faults /\ UNCHANGED phase
  /\ Skip(s)
  /\ UNCHANGED <<stored, permanent, permRows, lock, epoch, intake, cache, pc, job, old, kind, todo>>

Purge(s) ==
  \/ List(s) \/ EndOfList(s) \/ DeleteObject(s) \/ DeleteRecord(s)
  \/ \E i \in todo[s] \ Copies : Pick(s, i, "deleteObject") /\ UNCHANGED vars

-----------------------------------------------------------------------------
(* The six purge functions *)

PurgeOldBeaconStates(s) == kind[s] = "beacon_state" /\ Purge(s)
PurgeOldBeaconBadBlocks(s) == kind[s] = "beacon_bad_block" /\ Purge(s)
PurgeOldBeaconBadBlobs(s) == kind[s] = "beacon_bad_blob" /\ Purge(s)
PurgeOldExecutionTraces(s) == kind[s] = "execution_block_trace" /\ Purge(s)
PurgeOldExecutionBadBlocks(s) == kind[s] = "execution_bad_block" /\ Purge(s)

\* Mutant: old blocks are deleted without a word to the permanent store.
QueueNothing(s) ==
  /\ kind[s] = "beacon_block"
  /\ \E c \in todo[s] : Pick(s, c, "deleteObject")
  /\ UNCHANGED vars

\* QueueBlock with a fresh channel; it says nothing of whether it took the block.
QueueOld(s) ==
  /\ kind[s] = "beacon_block"
  /\ \E c \in todo[s] :
       /\ Pick(s, c, "wait")
       /\ Offer(s, [copy |-> c, waits |-> TRUE])
       /\ done' = [done EXCEPT ![s] = @ \ {c}]
  /\ UNCHANGED <<world, epoch, stop, queue, cache, pc, job>>

\* Mutant: the loop does not wait for the channel.
ProcessedAtOnce(s) ==
  /\ step[s] = "wait"
  /\ step' = [step EXCEPT ![s] = "deleteObject"]
  /\ UNCHANGED <<vars, old, kind, todo, item>>

\* <-b.ProcessedChan: the channel is closed, whatever came of the block.
Processed(s) ==
  /\ step[s] = "wait"
  /\ item[s] \in done[s]
  /\ step' = [step EXCEPT ![s] = "deleteObject"]
  /\ done' = [done EXCEPT ![s] = @ \ {item[s]}]
  /\ UNCHANGED <<world, epoch, stop, offers, queue, cache, pc, job, old, kind, todo, item>>

PurgeOldBeaconBlocks(s) ==
  /\ kind[s] = "beacon_block"
  /\ \/ List(s) \/ EndOfList(s) \/ QueueOld(s) \/ Processed(s)
     \/ DeleteObject(s) \/ DeleteRecord(s)

RetentionWatcher(s) ==
  \/ PurgeOldBeaconStates(s) \/ PurgeOldBeaconBlocks(s)
  \/ PurgeOldBeaconBadBlocks(s) \/ PurgeOldBeaconBadBlobs(s)
  \/ PurgeOldExecutionTraces(s) \/ PurgeOldExecutionBadBlocks(s)

\* A restarted server starts its loop over.
RestartWatcher(s) ==
  /\ Restart(s)
  /\ step' = [step EXCEPT ![s] = "list"]
  /\ kind' = [kind EXCEPT ![s] = "beacon_state"]
  /\ todo' = [todo EXCEPT ![s] = {}]
  /\ item' = [item EXCEPT ![s] = NoItem]
  /\ UNCHANGED old

StoreStep(s) ==
  \/ \E j \in offers[s] : Send(s, j)
  \/ \E w \in Workers : Work(s, w)
  \/ Stop(s) \/ StopReturns(s)
  \/ \E c \in Copies : CreateBeaconBlock(s, c)

RNext ==
  \/ \E i \in Items :
       \/ Save(i) /\ UNCHANGED <<old, loop>>
       \/ IndexOther(i) \/ GrowOld(i)
  \/ \E s \in Servers :
       \/ StoreStep(s) /\ UNCHANGED <<old, loop>>
       \/ RetentionWatcher(s)
       \/ RestartWatcher(s)
  \/ \E b \in Blocks : LockLapses(b) /\ UNCHANGED <<old, loop>>

\* As in PermanentStore, and the loop runs and time passes.
RFairness ==
  /\ \A s \in Servers :
       /\ WF_rvars((\E j \in offers[s] : Send(s, j)) /\ UNCHANGED <<old, loop>>)
       /\ \A w \in Workers : WF_rvars(Work(s, w) /\ UNCHANGED <<old, loop>>)
       /\ WF_rvars(StopReturns(s) /\ UNCHANGED <<old, loop>>)
       /\ WF_rvars(RetentionWatcher(s))
  /\ \A b \in Blocks : WF_rvars(LockLapses(b) /\ UNCHANGED <<old, loop>>)
  /\ \A i \in Items : WF_rvars(GrowOld(i))

RSpec == RInit /\ [][RNext]_rvars /\ RFairness

-----------------------------------------------------------------------------
(* Properties *)

\* Of every block that was ever indexed there is a whole object, at the
\* permanent location or as some agent's copy: "ensures that at least one copy
\* of each block per network is retained" (permanent_store.go).
AtLeastOneCopy ==
  \A c \in Copies : phase[c] \in {"indexed", "purged"} =>
    \/ permanent[BlockOf[c]] = "whole"
    \/ \E d \in stored : d \in Copies /\ BlockOf[d] = BlockOf[c]

\* A purged record leaves no object behind in the store, which nothing would
\* ever delete: the object goes first, also with two servers purging the same
\* records (the purge functions).
NoOrphans == \A i \in Items : phase[i] = "purged" => i \notin stored

\* Objects and records of all kinds are an archive, and the permanent
\* locations hold the blocks in custody.
Custody == INSTANCE Custody WITH
  content <- [i \in Items |-> IF i \in stored THEN "object" ELSE "none"],
  rows <- [i \in Items |-> IF phase[i] = "indexed" THEN 1 ELSE 0],
  kept <- {b \in Blocks : permanent[b] = "whole"},
  Truth <- [i \in Items |-> {"object"}],
  None <- "none",
  Unique <- Items,
  Purgeable <- Items

\* Objects come before their records and go before them, in any order of the
\* steps of the servers that purge them (the purge functions).
ImplementsArchive == Custody!Spec

\* No copy of a block is discarded before a listed copy of it has been kept,
\* by whichever server, and what is kept stays (purgeOldBeaconBlocks and
\* processBlock).
ImplementsCustody == Custody!CSpec

\* The job of the block in the hand of the loop of s.
OwnJob(s) == [copy |-> item[s], waits |-> TRUE]

\* The loop of s is not waiting, or somebody is going to close the channel it is
\* waiting on: its job is about to be sent, in the queue, with a worker, or done.
ChannelHeld(s) ==
  step[s] = "wait" =>
    \/ OwnJob(s) \in offers[s]
    \/ \E n \in 1 .. Len(queue[s]) : queue[s][n] = OwnJob(s)
    \/ \E w \in Workers : job[s][w] = OwnJob(s)
    \/ item[s] \in done[s]

\* What the next step may do to a job without telling anybody: a full queue
\* drops it, and a worker skips it when its block has no network.
MayDrop(s, j) ==
  \/ j \in offers[s] /\ Len(queue[s]) = QueueCap
  \/ queue[s] # <<>> /\ Head(queue[s]) = j /\ j.copy \in Incomplete

\* The loop comes to wait for a channel nobody will close in three ways only: it
\* queues a block with the store disabled or stopped, its job meets a full queue,
\* or the block has no network.  No error, race or early return of a worker does
\* it (QueueBlock, processQueue and processBlock, purgeOldBeaconBlocks).
HangsOnlyIfDropped ==
  [][\A s \in Servers : ChannelHeld(s) /\ ~ChannelHeld(s)' =>
       \/ step[s] = "next" /\ (~Enabled \/ stop[s] # "running")
       \/ MayDrop(s, OwnJob(s))]_rvars

\* Some server runs and has not been told to stop.
ServerUp == \E s \in Servers : stop[s] = "running"

\* Every record older than its retention period is purged in the end, of
\* every kind, whatever the loop has to wait for on the way, unless all
\* servers are stopped first (startRetentionWatchers).
EventuallyPurged == \A i \in Items : i \in old ~> phase[i] = "purged" \/ ~ServerUp
=============================================================================
