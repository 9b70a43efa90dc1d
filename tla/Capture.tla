------------------------------ MODULE Capture ------------------------------
(***************************************************************************)
(* One agent's capture of beacon states, beacon blocks and execution       *)
(* traces (pkg/agent/agent.go, queue.go, consensus.go, execution.go), up   *)
(* to the server's create handlers (indexer.go).  Handlers of block and    *)
(* reorg events fill one bounded queue per kind; one goroutine per kind    *)
(* takes requests out of it, asks the nodes, uploads and indexes.  All of  *)
(* them run concurrently, while the chain under them moves.                *)
(*                                                                         *)
(* Agents have names of their own, which are part of every query and of    *)
(* every location, so what one agent does never touches another's items.   *)
(***************************************************************************)
EXTENDS Integers, Sequences

CONSTANTS
  StartSlot,        \* the slot it is when the agent is first started
  MaxSlot,          \* bound on the clock
  MaxFork,          \* bound on reorgs
  FeatureSets,      \* the configurations to start the agent with: kinds it fetches
  QueueCap,         \* capacity of each queue (1000 in the code)
  SyncTolerance,    \* syncToleranceSlots
  StateAge,         \* beaconStateAgeThresholdEpochs
  SlotsPerEpoch,
  Word,             \* unsigned integers wrap at Word
  Lag,              \* slots by which the agent's clock is behind the node's
  ByRoot,           \* states are fetched by root; FALSE for Lodestar and Prysm
  Faults,           \* what may fail, see FaultKinds
  MaxCrashes,       \* bound on crashes of the agent
  None

Kinds == {"state", "block", "trace"}
FaultKinds ==
  {"node",          \* a request to the beacon or execution node fails
   "list",          \* a List request to the server fails
   "save",          \* an upload fails
   "create",        \* a Create request fails before it inserts
   "timeout"}       \* the 30 s (traces: 60 s) of an item run out

ASSUME CaptureAssumption ==
  /\ StartSlot \in Nat /\ MaxSlot \in Nat /\ StartSlot <= MaxSlot /\ MaxFork \in Nat /\ MaxCrashes \in Nat
  /\ FeatureSets \subseteq SUBSET Kinds
  /\ QueueCap \in Nat \ {0}
  /\ SyncTolerance \in Nat /\ StateAge \in Nat /\ SlotsPerEpoch \in Nat \ {0}
  /\ Lag \in Nat
  /\ Word \in Nat /\ Word > 2 * (MaxSlot + SyncTolerance + StateAge)
  /\ ByRoot \in BOOLEAN
  /\ Faults \subseteq FaultKinds
  /\ None \notin 0 .. MaxFork

Slots == 0 .. MaxSlot
Forks == 0 .. MaxFork

\* What can be captured at a slot: fork f's state, block or trace stands for
\* its root (or the hash of its execution payload), which each fork has anew.
Items == [kind : Kinds, slot : Slots, fork : Forks]

VARIABLES
  features,     \* the kinds this agent fetches
  clock,        \* the slot it is for the nodes
  head,         \* slot of the head block
  forks,        \* number of reorgs so far
  chain,        \* canonical chain: the fork of each slot up to head
  blocks,       \* slots up to head with a canonical block, not missed
  blockEvents,  \* running handlers of block events, for states and blocks
  traceEvents,  \* running handlers of block events, for traces
  reorgEvents,  \* running handlers of reorg events
  queue,        \* the queue of each kind
  pc, req,      \* next step and request of each kind's processor
  root,         \* fork whose root the processor was given
  content,      \* fork whose data the processor holds
  objects,      \* fork whose data is stored at the location of an item
  records,      \* rows of an item in the server's database: 0, 1, or 2 for several
  crashes

nodes == <<clock, head, forks, chain, blocks>>
handlers == <<blockEvents, traceEvents, reorgEvents>>
processors == <<pc, req, root, content>>
server == <<objects, records>>
vars == <<features, nodes, handlers, queue, processors, server, crashes>>

\* A request names a slot, and for traces the fork (the block's hash) too.
Requests == [slot : Slots, fork : Forks]
NoRequest == [slot |-> 0, fork |-> 0]

BlockHandlers == [slot : Slots, fork : Forks, step : {"check", "state", "block"}]
TraceHandlers == [slot : Slots, fork : Forks, step : {"check", "send"}]
ReorgHandlers ==
  [from : Slots, next : 0 .. MaxSlot + 1, last : -1 .. MaxSlot, fork : Forks,
   step : {"start", "state", "block", "fetch", "send"}]

CTypeOK ==
  /\ features \in FeatureSets
  /\ clock \in Slots /\ head \in Slots /\ head <= clock
  /\ forks \in Forks
  /\ chain \in [Slots -> Forks]
  /\ blocks \subseteq 0 .. head
  /\ blockEvents \subseteq BlockHandlers
  /\ traceEvents \subseteq TraceHandlers
  /\ reorgEvents \subseteq ReorgHandlers
  /\ \A e \in reorgEvents : e.step \in {"block", "send"} => e.next <= e.last
  /\ queue \in [Kinds -> Seq(Requests)]
  /\ \A k \in Kinds : Len(queue[k]) <= QueueCap
  /\ pc \in [Kinds -> {"idle", "root", "list", "fetch", "save", "check", "insert"}]
  /\ req \in [Kinds -> Requests]
  /\ root \in [Kinds -> Forks]
  /\ content \in [Kinds -> Forks \cup {None}]
  /\ objects \in [Items -> Forks \cup {None}]
  /\ records \in [Items -> 0 .. 2]
  /\ crashes \in 0 .. MaxCrashes

Init ==
  /\ features \in FeatureSets
  /\ clock = StartSlot /\ head = StartSlot /\ forks = 0
  /\ chain = [s \in Slots |-> 0]
  /\ blocks = 0 .. StartSlot
  /\ blockEvents = {} /\ traceEvents = {} /\ reorgEvents = {}
  /\ queue = [k \in Kinds |-> <<>>]
  /\ pc = [k \in Kinds |-> "idle"]
  /\ req = [k \in Kinds |-> NoRequest]
  /\ root = [k \in Kinds |-> 0]
  /\ content = [k \in Kinds |-> None]
  /\ objects = [i \in Items |-> None]
  /\ records = [i \in Items |-> 0]
  /\ crashes = 0

-----------------------------------------------------------------------------
(* The beacon node (external) *)

Tick ==
  /\ clock < MaxSlot
  /\ clock' = clock + 1
  /\ UNCHANGED <<features, head, forks, chain, blocks, handlers, queue, processors, server, crashes>>

\* A block event starts one handler for states and blocks and one for traces,
\* neither of which does anything with its features off.
Announce(s, f) ==
  LET event == {[slot |-> s, fork |-> f, step |-> "check"]} IN
    /\ blockEvents' = blockEvents \cup IF features \cap {"state", "block"} # {} THEN event ELSE {}
    /\ traceEvents' = traceEvents \cup IF "trace" \in features THEN event ELSE {}

\* The head is extended by a block at the current slot; the slots since the
\* last block are missed.
NewBlock ==
  /\ head < clock
  /\ head' = clock
  /\ chain' = [s \in Slots |-> IF s > head THEN forks ELSE chain[s]]
  /\ blocks' = blocks \cup {clock}
  /\ Announce(clock, forks)
  /\ UNCHANGED <<features, clock, forks, reorgEvents, queue, processors, server, crashes>>

\* The slots from `from` on get another history, with or without blocks; the
\* reorg event names the first of them, and the new head is announced too.
Reorg(from, h, bs) ==
  /\ forks < MaxFork
  /\ from \in 1 .. head /\ h \in from .. clock
  /\ bs \subseteq from .. (h - 1)
  /\ forks' = forks + 1
  /\ head' = h
  /\ chain' = [s \in Slots |-> IF s >= from THEN forks + 1 ELSE chain[s]]
  /\ blocks' = {s \in blocks : s < from} \cup bs \cup {h}
  /\ Announce(h, forks + 1)
  /\ reorgEvents' = reorgEvents \cup
       {[from |-> from, next |-> from, last |-> -1, fork |-> 0, step |-> "start"]}
  /\ UNCHANGED <<features, clock, queue, processors, server, crashes>>

Chain == Tick \/ NewBlock \/ \E from, h \in Slots : \E bs \in SUBSET Slots : Reorg(from, h, bs)

-----------------------------------------------------------------------------
(* Event handlers of the agent *)

\* The agent's wall clock.
Now == IF clock >= Lag THEN clock - Lag ELSE 0

\* a - b in unsigned arithmetic.
Minus(a, b) == (a - b) % Word

ShouldIgnoreEventFromSlot(s) == Minus(Now, s) > SyncTolerance

\* Mutant: the channel has no capacity limit.
SendsUnbounded(k, r) ==
  IF k \in features THEN queue' = [queue EXCEPT ![k] = Append(@, r)] ELSE UNCHANGED queue

\* The enqueue functions: a blocking send, for the features that are on.
Sends(k, r) ==
  IF k \in features
  THEN /\ Len(queue[k]) < QueueCap
       /\ queue' = [queue EXCEPT ![k] = Append(@, r)]
  ELSE UNCHANGED queue

Becomes(hs, e, step) == (hs \ {e}) \cup {[e EXCEPT !.step = step]}

\* The handler for states and blocks: check the age, sleep 2 s, enqueue the
\* state (and block while its queue is full), enqueue the block.
OnBlockCheck(e) ==
  /\ e \in blockEvents /\ e.step = "check"
  /\ blockEvents' = IF ShouldIgnoreEventFromSlot(e.slot) THEN blockEvents \ {e}
                    ELSE Becomes(blockEvents, e, "state")
  /\ UNCHANGED <<features, nodes, traceEvents, reorgEvents, queue, processors, server, crashes>>

OnBlockState(e) ==
  /\ e \in blockEvents /\ e.step = "state"
  /\ Sends("state", [slot |-> e.slot, fork |-> 0])
  /\ blockEvents' = Becomes(blockEvents, e, "block")
  /\ UNCHANGED <<features, nodes, traceEvents, reorgEvents, processors, server, crashes>>

OnBlockBlock(e) ==
  /\ e \in blockEvents /\ e.step = "block"
  /\ Sends("block", [slot |-> e.slot, fork |-> 0])
  /\ blockEvents' = blockEvents \ {e}
  /\ UNCHANGED <<features, nodes, traceEvents, reorgEvents, processors, server, crashes>>

\* The handler for traces fetches the block by its root for its payload hash.
OnBlockTraceCheck(e) ==
  /\ e \in traceEvents /\ e.step = "check"
  /\ \/ /\ ~ShouldIgnoreEventFromSlot(e.slot)
        /\ traceEvents' = Becomes(traceEvents, e, "send")
     \/ /\ ShouldIgnoreEventFromSlot(e.slot) \/ "node" \in Faults
        /\ traceEvents' = traceEvents \ {e}
  /\ UNCHANGED <<features, nodes, blockEvents, reorgEvents, queue, processors, server, crashes>>

OnBlockTraceSend(e) ==
  /\ e \in traceEvents /\ e.step = "send"
  /\ Sends("trace", [slot |-> e.slot, fork |-> e.fork])
  /\ traceEvents' = traceEvents \ {e}
  /\ UNCHANGED <<features, nodes, blockEvents, reorgEvents, processors, server, crashes>>

OnBlock ==
  \/ \E e \in blockEvents : OnBlockCheck(e) \/ OnBlockState(e) \/ OnBlockBlock(e)
  \/ \E e \in traceEvents : OnBlockTraceCheck(e) \/ OnBlockTraceSend(e)

\* The handler of reorg events: one loop over the slots from the event's to
\* the one before the current for states and blocks, a second one for traces.
ReorgGoes(e, next, step) ==
  reorgEvents' = (reorgEvents \ {e}) \cup {[e EXCEPT !.next = next, !.step = step]}

\* Mutant: the loop leaves out the event's own slot.
ReorgStartsLate(e) ==
  /\ e \in reorgEvents /\ e.step = "start"
  /\ reorgEvents' = (reorgEvents \ {e})
       \cup {[e EXCEPT !.last = Now - 1, !.next = e.from + 1, !.step = "state"]}
  /\ UNCHANGED <<features, nodes, blockEvents, traceEvents, queue, processors, server, crashes>>

ReorgStart(e) ==
  /\ e \in reorgEvents /\ e.step = "start"
  /\ reorgEvents' = (reorgEvents \ {e}) \cup {[e EXCEPT !.last = Now - 1, !.step = "state"]}
  /\ UNCHANGED <<features, nodes, blockEvents, traceEvents, queue, processors, server, crashes>>

\* Mutant: the second loop goes on where the first one ended.
ReorgStateNoReset(e) ==
  /\ e \in reorgEvents /\ e.step = "state"
  /\ \/ /\ e.next <= e.last
        /\ Sends("state", [slot |-> e.next, fork |-> 0])
        /\ ReorgGoes(e, e.next, "block")
     \/ /\ e.next > e.last
        /\ ReorgGoes(e, e.next, "fetch")
        /\ UNCHANGED queue
  /\ UNCHANGED <<features, nodes, blockEvents, traceEvents, processors, server, crashes>>

ReorgState(e) ==
  /\ e \in reorgEvents /\ e.step = "state"
  /\ \/ /\ e.next <= e.last
        /\ Sends("state", [slot |-> e.next, fork |-> 0])
        /\ ReorgGoes(e, e.next, "block")
     \/ /\ e.next > e.last
        /\ ReorgGoes(e, e.from, "fetch")
        /\ UNCHANGED queue
  /\ UNCHANGED <<features, nodes, blockEvents, traceEvents, processors, server, crashes>>

ReorgBlock(e) ==
  /\ e \in reorgEvents /\ e.step = "block"
  /\ Sends("block", [slot |-> e.next, fork |-> 0])
  /\ ReorgGoes(e, e.next + 1, "state")
  /\ UNCHANGED <<features, nodes, blockEvents, traceEvents, processors, server, crashes>>

\* A slot whose block cannot be fetched, a missed one among them, ends the
\* handler.
ReorgFetch(e) ==
  /\ e \in reorgEvents /\ e.step = "fetch"
  /\ \/ /\ e.next <= e.last /\ e.next \in blocks /\ "trace" \in features
        /\ reorgEvents' = (reorgEvents \ {e})
             \cup {[e EXCEPT !.fork = chain[e.next], !.step = "send"]}
     \/ /\ e.next > e.last \/ e.next \notin blocks \/ "trace" \notin features
           \/ "node" \in Faults
        /\ reorgEvents' = reorgEvents \ {e}
  /\ UNCHANGED <<features, nodes, blockEvents, traceEvents, queue, processors, server, crashes>>

ReorgSend(e) ==
  /\ e \in reorgEvents /\ e.step = "send"
  /\ Sends("trace", [slot |-> e.next, fork |-> e.fork])
  /\ ReorgGoes(e, e.next + 1, "fetch")
  /\ UNCHANGED <<features, nodes, blockEvents, traceEvents, processors, server, crashes>>

OnChainReOrg ==
  \E e \in reorgEvents :
    ReorgStart(e) \/ ReorgState(e) \/ ReorgBlock(e) \/ ReorgFetch(e) \/ ReorgSend(e)

-----------------------------------------------------------------------------
(* The processors, one per kind: fetchAndIndex... *)

At(k, l) == pc[k] = l
Goto(k, l) == pc' = [pc EXCEPT ![k] = l]

\* The function returns, with or without an error: the loop goes on.
Return(k) ==
  /\ Goto(k, "idle")
  /\ req' = [req EXCEPT ![k] = NoRequest]
  /\ root' = [root EXCEPT ![k] = 0]
  /\ content' = [content EXCEPT ![k] = None]

Item(k) == [kind |-> k, slot |-> req[k].slot, fork |-> root[k]]

\* A state older than the threshold in epochs, by unsigned arithmetic, is skipped.
StateTooOld(s) == Minus(Now \div SlotsPerEpoch, s \div SlotsPerEpoch) > StateAge

\* Left out: an error of Wallclock().Now() ends the loop over states for good.
Take(k) ==
  /\ At(k, "idle")
  /\ queue[k] # <<>>
  /\ queue' = [queue EXCEPT ![k] = Tail(@)]
  /\ IF k = "state" /\ StateTooOld(Head(queue[k]).slot)
     THEN UNCHANGED processors
     ELSE /\ req' = [req EXCEPT ![k] = Head(queue[k])]
          /\ root' = [root EXCEPT ![k] = Head(queue[k]).fork]
          /\ Goto(k, IF k = "trace" THEN "list" ELSE "root")
          /\ UNCHANGED content
  /\ UNCHANGED <<features, nodes, handlers, server, crashes>>

\* What the beacon node has at a slot: a state up to the head, a block unless
\* the slot was missed.
HasAtSlot(k, s) == s <= head /\ (k = "block" => s \in blocks)

FetchRoot(k) ==
  /\ At(k, "root")
  /\ \/ /\ HasAtSlot(k, req[k].slot)
        /\ root' = [root EXCEPT ![k] = chain[req[k].slot]]
        /\ Goto(k, "list")
        /\ UNCHANGED <<req, content>>
     \/ /\ ~HasAtSlot(k, req[k].slot) \/ "node" \in Faults
        /\ Return(k)
  /\ UNCHANGED <<features, nodes, handlers, queue, server, crashes>>

\* An error of the List request is logged, and the item is captured again.
List(k) ==
  /\ At(k, "list")
  /\ \/ /\ records[Item(k)] > 0
        /\ Return(k)
     \/ /\ records[Item(k)] = 0 \/ "list" \in Faults
        /\ Goto(k, "fetch")
        /\ UNCHANGED <<req, root, content>>
  /\ UNCHANGED <<features, nodes, handlers, queue, server, crashes>>

\* Mutant: every state is fetched by its slot.
FetchedBySlotAlways(k) == k # "trace"

\* Blocks are fetched by slot, states too from Lodestar and Prysm.
FetchedBySlot(k) == k = "block" \/ (k = "state" /\ ~ByRoot)

Fetch(k) ==
  /\ At(k, "fetch")
  /\ \/ /\ FetchedBySlot(k) => HasAtSlot(k, req[k].slot)
        /\ content' = [content EXCEPT
             ![k] = IF FetchedBySlot(k) THEN chain[req[k].slot] ELSE root[k]]
        /\ Goto(k, "save")
        /\ UNCHANGED <<req, root>>
     \/ /\ (FetchedBySlot(k) /\ ~HasAtSlot(k, req[k].slot)) \/ "node" \in Faults
        /\ Return(k)
  /\ UNCHANGED <<features, nodes, handlers, queue, server, crashes>>

\* The location is made of the agent's name, slot and root: a second capture
\* overwrites the first.
Save(k) ==
  /\ At(k, "save")
  /\ \/ /\ objects' = [objects EXCEPT ![Item(k)] = content[k]]
        /\ Goto(k, IF k = "trace" THEN "insert" ELSE "check")
        /\ UNCHANGED <<req, root, content>>
     \/ /\ "save" \in Faults
        /\ Return(k)
        /\ UNCHANGED objects
  /\ UNCHANGED <<features, nodes, handlers, queue, records, crashes>>

\* Mutant: the handler does not look for an existing record.
CheckNothing(k) ==
  /\ At(k, "check")
  /\ Goto(k, "insert")
  /\ UNCHANGED <<features, nodes, handlers, queue, req, root, content, server, crashes>>

\* CreateBeaconState and CreateBeaconBlock look for a record of the item, if its
\* object is in the store (nothing takes it out again here).
CheckIndexed(k) ==
  /\ At(k, "check")
  /\ \/ /\ objects[Item(k)] = None \/ records[Item(k)] = 0
        /\ Goto(k, "insert")
        /\ UNCHANGED <<req, root, content>>
     \/ /\ (objects[Item(k)] # None /\ records[Item(k)] > 0) \/ "create" \in Faults
        /\ Return(k)
  /\ UNCHANGED <<features, nodes, handlers, queue, server, crashes>>

\* CreateExecutionBlockTrace inserts without looking.
Insert(k) ==
  /\ At(k, "insert")
  /\ \/ records' = [records EXCEPT ![Item(k)] = IF @ < 2 THEN @ + 1 ELSE @]
     \/ "create" \in Faults /\ UNCHANGED records
  /\ Return(k)
  /\ UNCHANGED <<features, nodes, handlers, queue, objects, crashes>>

\* The deadline of the item cancels whatever call is under way; a cancelled
\* Create ends, with its effect or without, before the agent's next one.
Timeout(k) ==
  /\ "timeout" \in Faults
  /\ ~At(k, "idle")
  /\ Return(k)
  /\ UNCHANGED <<features, nodes, handlers, queue, server, crashes>>

Process(k) ==
  \/ Take(k) \/ FetchRoot(k) \/ List(k) \/ Fetch(k) \/ Save(k) \/ CheckIndexed(k) \/ Insert(k)
  \/ Timeout(k)

\* The agent dies and is started again: handlers, queues and processors are gone.
Crash ==
  /\ crashes < MaxCrashes
  /\ crashes' = crashes + 1
  /\ blockEvents' = {} /\ traceEvents' = {} /\ reorgEvents' = {}
  /\ queue' = [k \in Kinds |-> <<>>]
  /\ pc' = [k \in Kinds |-> "idle"]
  /\ req' = [k \in Kinds |-> NoRequest]
  /\ root' = [k \in Kinds |-> 0]
  /\ content' = [k \in Kinds |-> None]
  /\ UNCHANGED <<features, nodes, server>>

Next ==
  \/ Chain \/ OnBlock \/ OnChainReOrg
  \/ \E k \in Kinds : Process(k)
  \/ Crash

\* Goroutines that can run do run: the processors, and the event handlers.
Fairness ==
  /\ WF_vars(OnBlock) /\ WF_vars(OnChainReOrg)
  /\ \A k \in Kinds : WF_vars(Process(k))

Spec == Init /\ [][Next]_vars /\ Fairness

-----------------------------------------------------------------------------
(* Properties *)

\* What the database lists can be downloaded: a record is only made after the
\* upload succeeded, whatever failed, timed out or died before
\* (fetchAndIndexBeaconState, fetchAndIndexBeaconBlock,
\* fetchAndIndexExecutionBlockTrace).
RecordHasObject == \A i \in Items : records[i] > 0 => objects[i] # None

\* A state or block an agent captures again, because its List request failed,
\* its last attempt was cut off or its agent died, is not recorded twice
\* (CreateBeaconState, CreateBeaconBlock).
OneBeaconRecord == \A i \in Items : i.kind # "trace" => records[i] <= 1

\* Under the root of a state, and under the hash of a trace, lies that state
\* or trace, whatever reorgs came between asking for the root, fetching and
\* uploading.  (For blocks, which are fetched by slot, this does not hold.)
StoredUnderItsRoot ==
  \A i \in Items : i.kind # "block" => objects[i] \in {None, i.fork}

\* The database's rows and the store's objects are an archive, of which the
\* agent's processors see nothing but the answers to their requests: only the
\* items of blocks, and of states fetched by slot, may hold another fork's data.
Archive == INSTANCE Archive WITH
  content <- objects,
  rows <- records,
  Truth <- [i \in Items |-> IF FetchedBySlot(i.kind) THEN Forks ELSE {i.fork}],
  Unique <- {i \in Items : i.kind # "trace"},
  Purgeable <- {}

\* An object is stored before its record is made, under its own root, states
\* and blocks are recorded once, and nothing is taken back, whatever fails,
\* times out, is reorganised or dies in between (the fetchAndIndex functions
\* with the Create handlers).
ImplementsArchive == Archive!Spec

\* The agent may leave out what is this old.
TooLate(k, s) ==
  \/ clock - s > SyncTolerance
  \/ k = "state" /\ (clock \div SlotsPerEpoch) - (s \div SlotsPerEpoch) > StateAge

Canonical(s, f) == s \in blocks /\ chain[s] = f

\* Fork f keeps a block at slot s that came after the agent was started, and
\* an agent that fetches kind k is still in time for it.
Due(k, s, f) ==
  /\ k \in features
  /\ s > StartSlot \/ f > 0
  /\ Canonical(s, f) /\ ~TooLate(k, s)

IsIndexed(k, s, f) == records[[kind |-> k, slot |-> s, fork |-> f]] > 0

\* No slot was missed on the branch of s, up to s.
NoneMissed(s) == \A t \in 1 .. s : chain[t] = chain[s] => t \in blocks

\* State and block of every slot that has a block and keeps it are recorded in
\* the end, also those a reorg brought, unless they were too old by the time:
\* again and again the database has caught up with the chain (OnBlock and
\* OnChainReOrg handlers, with the queues between them and the processors).
BeaconDataIndexed ==
  []<>(\A k \in {"state", "block"}, s \in Slots, f \in Forks : Due(k, s, f) => IsIndexed(k, s, f))

\* The same of the traces, as far as no slot was missed on the new branch
\* (OnChainReOrg handler).
TracesIndexedIfNoneMissed ==
  []<>(\A s \in Slots, f \in Forks :
         Due("trace", s, f) /\ NoneMissed(s) => IsIndexed("trace", s, f))

\* The same of all traces: "Go back and fetch all the new execution block
\* traces" (OnChainReOrg handler).
TracesIndexed ==
  []<>(\A s \in Slots, f \in Forks : Due("trace", s, f) => IsIndexed("trace", s, f))
=============================================================================
