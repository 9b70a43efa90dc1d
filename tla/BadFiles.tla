------------------------------ MODULE BadFiles ------------------------------
(***************************************************************************)
(* One agent's collection of bad blocks and blobs (pkg/agent/agent.go,     *)
(* queue.go, consensus.go, execution.go) up to the server's create         *)
(* handlers (indexer.go).  The beacon client dumps what it rejects into    *)
(* directories; the execution client lists what it rejected.  A scheduler  *)
(* asks for a round every so often, one goroutine per kind goes through    *)
(* what there is, uploads and indexes it, and deletes the files it is done *)
(* with.                                                                   *)
(*                                                                         *)
(* An item is a file of a directory, by its name, or a block of the        *)
(* client's list, by its hash.  Location and record are made of what the   *)
(* name or the hash says, so an item stands for those as well.             *)
(***************************************************************************)
EXTENDS Naturals

CONSTANTS
  Items,
  KindOf,           \* kind of each item
  Foreign,          \* files whose names do not match, or whose numbers do not parse
  Clients,          \* the beacon clients to start the agent with, see Groups
  FeatureSets,      \* the configurations to start the agent with: kinds it collects
  QueueCap,         \* capacity of each queue (1000 in the code)
  MaxDumps,         \* how often a client may write the same name
  Faults,           \* what may fail, see FaultKinds
  MaxFaults,        \* bound on the number of failures
  NoItem

Kinds == {"bad_block", "bad_blob", "execution_bad_block"}
FileKinds == {"bad_block", "bad_blob"}
FaultKinds ==
  {"source",        \* the directory, a file or the client's list cannot be read
   "list",          \* a List request to the server fails
   "compress",      \* the compressor fails
   "save",          \* an upload fails
   "spec",          \* the beacon node's spec is not there
   "create",        \* a Create request fails before it inserts
   "reply",         \* a Create request inserts, and its reply is lost
   "remove",        \* a file cannot be deleted
   "timeout",       \* the 60 s of an execution bad block run out
   "crash"}         \* the agent dies and is started again

ASSUME BadFilesAssumption ==
  /\ KindOf \in [Items -> Kinds]
  /\ Foreign \subseteq {i \in Items : KindOf[i] \in FileKinds}
  /\ FeatureSets \subseteq SUBSET Kinds
  /\ QueueCap \in Nat \ {0}
  /\ MaxDumps \in Nat /\ MaxFaults \in Nat
  /\ Faults \subseteq FaultKinds
  /\ NoItem \notin Items

VARIABLES
  features,     \* the kinds this agent collects
  client,       \* the beacon client it sits next to
  source,       \* what the file holds or the list shows: its n-th dump, 0 when it is not there
  dumps,        \* how often the client has dumped an item
  requests,     \* number of requests in the queue of each kind
  pc,           \* next step of each kind's processor
  todo,         \* what the processor read from the directory or list and has not looked at
  item, data,   \* the item in hand, and what was read of it
  objects,      \* the dump that is stored at the location of an item, 0 for none
  records,      \* rows of an item in the server's database: 0, 1, or 2 for several
  mishaps       \* number of failures so far

config == <<features, client>>
clients == <<source, dumps>>
processors == <<pc, todo, item, data>>
server == <<objects, records>>
vars == <<config, clients, requests, processors, server, mishaps>>

BTypeOK ==
  /\ features \in FeatureSets /\ client \in Clients
  /\ source \in [Items -> 0 .. MaxDumps] /\ dumps \in [Items -> 0 .. MaxDumps]
  /\ requests \in [Kinds -> 0 .. QueueCap]
  /\ pc \in [Kinds -> {"idle", "next", "list", "save", "create", "remove"}]
  /\ todo \in [Kinds -> SUBSET Items]
  /\ \A k \in Kinds : \A i \in todo[k] : KindOf[i] = k
  /\ item \in [Kinds -> Items \cup {NoItem}]
  /\ \A k \in Kinds : item[k] = NoItem <=> pc[k] \in {"idle", "next"}
  /\ \A k \in Kinds : item[k] # NoItem => KindOf[item[k]] = k
  /\ data \in [Kinds -> 0 .. MaxDumps]
  /\ objects \in [Items -> 0 .. MaxDumps]
  /\ records \in [Items -> 0 .. 2]
  /\ mishaps \in 0 .. MaxFaults

Init ==
  /\ features \in FeatureSets /\ client \in Clients
  /\ source = [i \in Items |-> 0] /\ dumps = [i \in Items |-> 0]
  /\ requests = [k \in Kinds |-> 0]
  /\ pc = [k \in Kinds |-> "idle"]
  /\ todo = [k \in Kinds |-> {}]
  /\ item = [k \in Kinds |-> NoItem]
  /\ data = [k \in Kinds |-> 0]
  /\ objects = [i \in Items |-> 0]
  /\ records = [i \in Items |-> 0]
  /\ mishaps = 0

\* A failure of the given kind happens in this step.
Fails(f) == f \in Faults /\ mishaps < MaxFaults /\ mishaps' = mishaps + 1
Succeeds == UNCHANGED mishaps

-----------------------------------------------------------------------------
(* The clients (external) *)

\* A file appears, or is written anew; a block appears in the list.
Dump(i) ==
  /\ dumps[i] < MaxDumps
  /\ KindOf[i] \in features
  /\ dumps' = [dumps EXCEPT ![i] = @ + 1]
  /\ source' = [source EXCEPT ![i] = dumps[i] + 1]
  /\ UNCHANGED <<config, requests, processors, server, mishaps>>

\* The execution client lists the latest bad blocks only.
Forget(i) ==
  /\ KindOf[i] = "execution_bad_block"
  /\ source[i] # 0
  /\ source' = [source EXCEPT ![i] = 0]
  /\ UNCHANGED <<config, dumps, requests, processors, server, mishaps>>

-----------------------------------------------------------------------------
(* The scheduler and the loop over the requests *)

\* Mutant: the channel has no capacity limit.
EnqueueUnbounded(k) ==
  /\ k \in features
  /\ requests' = [requests EXCEPT ![k] = @ + 1]
  /\ UNCHANGED <<config, clients, processors, server, mishaps>>

\* Every 30 s (execution: 90 s): a send, which waits while the queue is full.
Enqueue(k) ==
  /\ k \in features
  /\ requests[k] < QueueCap
  /\ requests' = [requests EXCEPT ![k] = @ + 1]
  /\ UNCHANGED <<config, clients, processors, server, mishaps>>

At(k, l) == pc[k] = l
Goto(k, l) == pc' = [pc EXCEPT ![k] = l]

\* `continue`: the item is left as it is, the round goes on.
Skip(k) ==
  /\ Goto(k, "next")
  /\ item' = [item EXCEPT ![k] = NoItem]
  /\ data' = [data EXCEPT ![k] = 0]
  /\ UNCHANGED todo

\* The round ends, with or without an error; the loop over the requests goes on.
Return(k) ==
  /\ Goto(k, "idle")
  /\ todo' = [todo EXCEPT ![k] = {}]
  /\ item' = [item EXCEPT ![k] = NoItem]
  /\ data' = [data EXCEPT ![k] = 0]

\* getBadBlocksFilePattern and getBadBlobsFilePattern: the number of groups in
\* each client's pattern; other clients are an error.
Groups ==
  [bad_block |-> [lighthouse |-> 2, nimbus |-> 2, prysm |-> 1],
   bad_blob  |-> [prysm |-> 3]]

\* A match has the groups and the whole name.  The loops take matches of this
\* length, whatever the client's pattern.
Submatches == [bad_block |-> 2, bad_blob |-> 4]

\* The files that the loop over the directory does not pass over.
Matching(k) ==
  {i \in Items \ Foreign : KindOf[i] = k /\ Groups[k][client] + 1 = Submatches[k]}

Read(k) == IF k \in FileKinds THEN Matching(k) ELSE {i \in Items : KindOf[i] = k}

\* fetchAndIndexBeaconBadBlocks and the like: read the directory, or ask the
\* execution client for its list.
Take(k) ==
  /\ At(k, "idle")
  /\ requests[k] > 0
  /\ requests' = [requests EXCEPT ![k] = @ - 1]
  /\ \/ /\ k \in FileKinds => client \in DOMAIN Groups[k]
        /\ todo' = [todo EXCEPT ![k] = {i \in Read(k) : source[i] # 0}]
        /\ Goto(k, "next")
        /\ Succeeds
     \/ /\ k \in FileKinds /\ client \notin DOMAIN Groups[k]
        /\ UNCHANGED <<todo, pc>>
        /\ Succeeds
     \/ /\ Fails("source")
        /\ UNCHANGED <<todo, pc>>
  /\ UNCHANGED <<config, clients, item, data, server>>

-----------------------------------------------------------------------------
(* One item: indexExecutionBadBlock, and the bodies of the other loops *)

\* A file is read now; a block of the list came with the list.
Pick(k) ==
  /\ At(k, "next")
  /\ \E i \in todo[k] :
       /\ todo' = [todo EXCEPT ![k] = @ \ {i}]
       /\ \/ /\ k \in FileKinds => source[i] # 0
             /\ item' = [item EXCEPT ![k] = i]
             /\ data' = [data EXCEPT ![k] = IF k \in FileKinds THEN source[i] ELSE dumps[i]]
             /\ Goto(k, "list")
             /\ Succeeds
          \/ /\ k \in FileKinds
             /\ (source[i] = 0 /\ Succeeds) \/ Fails("source")
             /\ UNCHANGED <<item, data, pc>>
  /\ UNCHANGED <<config, clients, requests, server>>

EndOfRound(k) ==
  /\ At(k, "next")
  /\ todo[k] = {}
  /\ Return(k)
  /\ UNCHANGED <<config, clients, requests, server, mishaps>>

\* Mutant: an execution bad block whose List request failed is indexed anyway.
ListIgnoresError(k) ==
  /\ At(k, "list")
  /\ \/ /\ records[item[k]] > 0 /\ Succeeds
        /\ IF k \in FileKinds THEN Goto(k, "remove") /\ UNCHANGED <<todo, item, data>>
                              ELSE Skip(k)
     \/ /\ (records[item[k]] = 0 /\ Succeeds) \/ Fails("list")
        /\ Goto(k, "save") /\ UNCHANGED <<todo, item, data>>
  /\ UNCHANGED <<config, clients, requests, server>>

\* Mutant: the first block that is indexed already ends the round.
ListEndsRound(k) ==
  /\ At(k, "list")
  /\ \/ /\ records[item[k]] > 0 /\ Succeeds
        /\ IF k \in FileKinds THEN Goto(k, "remove") /\ UNCHANGED <<todo, item, data>>
                              ELSE Return(k)
     \/ /\ (records[item[k]] = 0 /\ Succeeds) \/ (k \in FileKinds /\ Fails("list"))
        /\ Goto(k, "save") /\ UNCHANGED <<todo, item, data>>
     \/ /\ k \notin FileKinds /\ Fails("list")
        /\ Skip(k)
  /\ UNCHANGED <<config, clients, requests, server>>

\* What has a record is not captured again: a file is deleted, a block passed
\* over.  After an error, files are captured anyway, blocks are not.
List(k) ==
  /\ At(k, "list")
  /\ \/ /\ records[item[k]] > 0 /\ Succeeds
        /\ IF k \in FileKinds THEN Goto(k, "remove") /\ UNCHANGED <<todo, item, data>>
                              ELSE Skip(k)
     \/ /\ (records[item[k]] = 0 /\ Succeeds) \/ (k \in FileKinds /\ Fails("list"))
        /\ Goto(k, "save") /\ UNCHANGED <<todo, item, data>>
     \/ /\ k \notin FileKinds /\ Fails("list")
        /\ Skip(k)
  /\ UNCHANGED <<config, clients, requests, server>>

\* Compress and upload; an error of the compressor ends a round over files.
\* Files need the spec next, of which there may be none.
Save(k) ==
  /\ At(k, "save")
  /\ \/ /\ objects' = [objects EXCEPT ![item[k]] = data[k]]
        /\ \/ Succeeds /\ Goto(k, "create") /\ UNCHANGED <<todo, item, data>>
           \/ k \in FileKinds /\ Fails("spec") /\ Skip(k)
     \/ /\ \/ Fails("save") /\ Skip(k)
           \/ Fails("compress") /\ IF k \in FileKinds THEN Return(k) ELSE Skip(k)
        /\ UNCHANGED objects
  /\ UNCHANGED <<config, clients, requests, records>>

AddRecord(i) == records' = [records EXCEPT ![i] = IF @ < 2 THEN @ + 1 ELSE @]

\* The server's look before it inserts: for files only, and only if the object
\* is in the store.
AlreadyExists(k) == k \in FileKinds /\ objects[item[k]] # 0 /\ records[item[k]] > 0

\* Mutant: an error of the Create request is logged and ignored.
CreateIgnoresError(k) ==
  /\ At(k, "create")
  /\ \/ /\ ~AlreadyExists(k) /\ AddRecord(item[k])
        /\ Succeeds \/ Fails("reply")
     \/ /\ (AlreadyExists(k) /\ Succeeds) \/ Fails("create")
        /\ UNCHANGED records
  /\ IF k \in FileKinds THEN Goto(k, "remove") /\ UNCHANGED <<todo, item, data>> ELSE Skip(k)
  /\ UNCHANGED <<config, clients, requests, objects>>

\* CreateBeaconBadBlock, CreateBeaconBadBlob and CreateExecutionBadBlock.
Create(k) ==
  /\ At(k, "create")
  /\ \/ /\ ~AlreadyExists(k) /\ AddRecord(item[k])
        /\ \/ /\ k \in FileKinds /\ Succeeds
              /\ Goto(k, "remove") /\ UNCHANGED <<todo, item, data>>
           \/ /\ (k \notin FileKinds /\ Succeeds) \/ Fails("reply")
              /\ Skip(k)
     \/ /\ (AlreadyExists(k) /\ Succeeds) \/ Fails("create")
        /\ Skip(k) /\ UNCHANGED records
  /\ UNCHANGED <<config, clients, requests, objects>>

\* os.Remove: whatever the file holds by now.
Remove(k) ==
  /\ At(k, "remove")
  /\ \/ source' = [source EXCEPT ![item[k]] = 0] /\ Succeeds
     \/ UNCHANGED source /\ Fails("remove")
  /\ Skip(k)
  /\ UNCHANGED <<config, dumps, requests, server>>

\* The deadline of an execution bad block cancels the call under way.
Timeout(k) ==
  /\ k \notin FileKinds
  /\ pc[k] \in {"list", "save", "create"}
  /\ Fails("timeout")
  /\ Skip(k)
  /\ UNCHANGED <<config, clients, requests, server>>

Process(k) ==
  \/ Take(k) \/ Pick(k) \/ EndOfRound(k) \/ List(k) \/ Save(k) \/ Create(k) \/ Remove(k)
  \/ Timeout(k)

\* Queues and processors are gone; the directories are not.
Crash ==
  /\ Fails("crash")
  /\ requests' = [k \in Kinds |-> 0]
  /\ pc' = [k \in Kinds |-> "idle"]
  /\ todo' = [k \in Kinds |-> {}]
  /\ item' = [k \in Kinds |-> NoItem]
  /\ data' = [k \in Kinds |-> 0]
  /\ UNCHANGED <<config, clients, server>>

Next ==
  \/ \E i \in Items : Dump(i) \/ Forget(i)
  \/ \E k \in Kinds : Enqueue(k) \/ Process(k)
  \/ Crash

\* The scheduler ticks and the processors run.
Fairness == \A k \in Kinds : WF_vars(Enqueue(k)) /\ WF_vars(Process(k))

Spec == Init /\ [][Next]_vars /\ Fairness

-----------------------------------------------------------------------------
(* Properties *)

IsFile(i) == KindOf[i] \in FileKinds

\* The agent deletes a file only when a version of it that the client wrote, the
\* only one if it was written once, is stored and has a record, whatever failed,
\* was lost or died before: a file that is gone can be downloaded
\* (fetchAndIndexBeaconBadBlocks and ...BadBlobs).
NoFileLost ==
  \A i \in Items : IsFile(i) /\ dumps[i] > 0 =>
    \/ source[i] = dumps[i]
    \/ objects[i] \in 1 .. dumps[i] /\ records[i] > 0

\* Nothing is recorded twice, although rounds are repeated after every failure:
\* for files the server looks, for blocks the agent gives up when it cannot
\* look (indexExecutionBadBlock).
OneRecord == \A i \in Items : records[i] <= 1

\* The database's rows and the store's objects are an archive of what was
\* dumped under the items' names.
Archive == INSTANCE Archive WITH
  content <- objects,
  rows <- records,
  Truth <- [i \in Items |-> 1 .. MaxDumps],
  None <- 0,
  Unique <- Items,
  Purgeable <- {}

\* What is recorded was stored before and is recorded once, through rounds,
\* failures, lost replies, deadlines and crashes (fetchAndIndexBeaconBadBlocks,
\* ...BadBlobs and ...ExecutionBadBlocks with the Create handlers).
ImplementsArchive == Archive!Spec

\* The agent reads a file only if its client's pattern has the groups the loop
\* asks for: for bad blocks those of Prysm, not those of Lighthouse and Nimbus.
Recognised(i) ==
  IF IsFile(i) THEN /\ client \in DOMAIN Groups[KindOf[i]]
                    /\ i \in Matching(KindOf[i])
               ELSE TRUE

Collected(i) == source[i] = 0 \/ (~IsFile(i) /\ records[i] > 0)

\* Files that are recognised are deleted, which NoFileLost allows only once one
\* is kept, and blocks are recorded in the end, unless the client drops the
\* block first: a failure of one item, a lost reply or a crash does not keep it
\* or the others from being looked at again (fetchAndIndexBeaconBadBlocks,
\* ...BadBlobs and ...ExecutionBadBlocks).
BadDataCaptured ==
  \A i \in Items : source[i] # 0 /\ Recognised(i) ~> Collected(i)
=============================================================================
