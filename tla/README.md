# Tracoor in TLA+

Tracoor captures data of Ethereum nodes — beacon states, beacon blocks, execution traces, bad
blocks — and makes them available for as long as a retention period says. *Agents* sit next to the
nodes; they fetch, compress and upload objects to a shared object store (S3 or a directory) and then
ask a *server* to index them in a database. Servers purge old records with their objects, and keep
one copy of every beacon block in a permanent location. Several servers may share one database and
one store. A *web frontend* lists the records, six kinds of them, and composes the commands of four
debugging tools from them.

This directory holds the specifications of the parts where the order of things matters, the TLC
runs over them, and the proofs. Source paths below are relative to `src/pkg/`, those of the frontend
(`App.tsx`, `api/`, `components/`, `contexts/`, `hooks/`, `parts/`, `providers/`) to `src/web/src/`.

## The system and its parts

| part | code | state | operations | specified in |
|---|---|---|---|---|
| Distributed lock | `server/persistence/lock.go` | table of locks (key, owner, expiry, soft-deleted) | AcquireLock (clean up, then read and write in a transaction), ReleaseLock | `DistributedLock`, `LeaseLock` |
| Permanent store | `server/service/indexer/permanent_store.go` | queue, LRU cache, stopped flag, 10 workers; `permanent_blocks` table; permanent objects | QueueBlock, processQueue, processBlock, Stop | `PermanentStore` |
| Retention watcher | `server/service/indexer/retention.go` | a loop per server over six kinds of records | list old records, wait for the permanent store, delete object, delete record | `Retention` |
| Create handlers | `server/service/indexer/indexer.go` | rows of the six tables | check the store, look for a record, insert, queue | `PermanentStore`, `Retention`, `Capture`, `BadFiles` |
| Agent: events and queues | `agent/agent.go`, `agent/queue.go` | six bounded queues, handlers of block and reorg events | age check, scheduler, enqueue, processors | `Capture` (states, blocks, traces), `BadFiles` (bad data) |
| Agent: capture | `agent/consensus.go`, `agent/execution.go` | the item in hand of each processor | root, list, fetch, save, create | `Capture` |
| Object store | `store/fs.go`, `store/s3.go` | objects | Exists, Save, Copy, Delete | inside `PermanentStore`, `Retention`, `Capture`, `BadFiles` |
| Server lifecycle | `server/server.go` | — | start, graceful stop | `PermanentStore` (Stop, StopReturns, Restart) |
| Agent: readiness | `agent/ethereum/node.go` | two ready flags, callbacks | checkReadyPublish | not modelled |
| Agent: bad data | `agent/consensus.go`, `agent/execution.go` | files in a directory of the beacon client, the list of the execution client | list, save, create, delete the file | `BadFiles` |
| Handshake | `agent/agent.go`, `indexer.go` | one token object per agent | check, save, compare | not modelled |
| List and count handlers | `server/service/api/api.go`, `server/service/indexer/indexer.go`, `server/persistence/*.go` | the tables' rows | hand on the filters, filter, order, page, count | `Listing` (the answer to a query) |
| Web: listings | `components/*Table.tsx`, `*Filter.tsx`, `*Id.tsx`, `DebouncedInput.tsx`, `Combobox.tsx`, `hooks/useQuery.ts`, `api/*.ts` | form fields, texts being typed, debounce timers, sort, page, open dialog, query cache, requests in flight | type, pick, clear, sort, turn the page, click a cell, a line or View, refetch | `ListingKinds`, `Listing` |
| Web: page buttons | `components/Pagination.tsx` | — | which buttons there are and where they lead | `Pagination` |
| Web: pages, form and address | `App.tsx`, `parts/Selector.tsx`, `Filters.tsx`, `Tools.tsx`, `Listing.tsx`, `providers/filters.tsx` | address and history, shown page, the form all pages share | tabs, links, back, reload; three effects | `Pages`, `Workbench` |
| Web: tools and selectors | `components/*Selector.tsx`, `LCLIStateTransition.tsx`, `NCLIStateTransition.tsx`, `ZCLIDiff.tsx`, `GoEVMLabDiff.tsx` | selected ids, a memoised command | search, select, clear, links from detail pages | `Pages`, `Workbench` |
| Web: network choice | `components/NetworkSelect.tsx`, `providers/network.tsx` | the chosen network | the first of the server's list | `Listing` (`SetNetwork`) |
| API facade, all but the filters of list and count | `server/service/api/api.go` | — | translates requests and answers, distinct values | not modelled |
| Downloads, web text and set-up pages, commands, metrics | see `PROJECT.json` | none that other parts depend on | reads and translations | not modelled |

Interactions: the agent uploads before it calls Create; Create inserts the record and, for a block,
queues it; a worker of the permanent store takes the database lock of the block's network and root,
consults cache, table and store, copies, inserts a row; the retention loop queues an old block
again and waits on a channel the worker closes, then deletes object and record. Everything the
servers share is in the database and in the store; everything else dies with the process. The
frontend reads only: a listing observes a query for rows, one for their count and, in its dialog, one
for a row; the parts of the page share one form, and each writes the address for itself.

What is hard, and what each part has to get right:

* **Lock**: statements of different servers interleave, leases run out while their holder works, and
  failed transactions and releases leave rows behind. One owner at a time; a live row changes hands only
  by release or expiry.
* **Permanent store**: workers of several servers process copies of the same block; every call may
  fail; processes stop and die anywhere; queue and cache are bounded. Nothing is cached or recorded that
  is not completely copied; one server at a time writes a block; no accepted block is forgotten. (A block may get several rows, see below.)
* **Retention**: deletes what cannot be restored, on the word of a channel; two servers purge
  the same records. A whole copy of each block remains, no object is left without its record, a loop waits
  forever only when its job was turned away, and everything old goes in the end.
* **Capture**: the chain moves while handlers and processors run; slots are older or newer than
  the agent thinks; items are captured again after failures. What is recorded is stored, once, under
  its own root, and the records catch up with the chain.
* **Bad data**: the only copy is a file, and the agent deletes it; every step before may fail. A file
  goes only when its content is stored and recorded, nothing is recorded twice although rounds repeat
  forever, and everything whose name is recognised is collected in the end.
* **Listings**: several requests are under way while the user edits, and are answered in any order or
  fail; inputs keep a copy of what the form holds, and change it half a second later; twelve files name
  columns and fields by hand. The table shows the current page of what the filters select and nothing else, count and
  buttons agree with it, an input shows the filter in force.
* **Pages, address, tools**: the shown page is a copy of what the address says, and two effects write the address
  after one another; a tool's command is memoised and waits for answers that come in any order. Page, form and address
  stay in step, a reload restores them, a command downloads what was selected.

## The modules

**`LeaseLock`** is what a lock promises: `holder[k]` is granted when it is free or held by the same
owner, freed by its holder, and may lapse.

**`Archive`** is what agents and servers together promise of everything they collect: each item has a location and rows,
`Upload` fills the location with data that belongs there, `Record` adds a row for an object that is there, `Discard` takes the object
while a row still leads to it, and `Forget` the rows when there is no object left. **`Custody`** extends it by what the
permanent store adds for blocks: `Keep` a block of which a copy is there and listed, and `DiscardSpare`, the discarding of a copy only
when its block is kept. Both know nothing of queues, workers, failures or crashes. `Capture` and `BadFiles` implement `Archive` for what
agents upload, `Retention` implements `Archive` and `Custody` for what servers purge: the same two variables seen from both ends of an
item's life. Each of the three maps its own variables (`INSTANCE Archive WITH` in its properties), and `ArchiveProofs` says once what follows for all.

**`DistributedLock`** is `lock.go`, one action per database statement: `CleanupExpiredLocks` (the
deletion AcquireLock starts with, by its own clock reading), `ReadRow` (the transaction's SELECT),
`Acquire` (its write and commit: insert, delete-and-insert of a soft-deleted row, or update of a row that is
expired or the caller's own), `AcquireFails`, `ReleaseLock`, `ReleaseFails`. `Serializable` chooses
whether the database lets a transaction commit only if the row it read is unchanged (SQLite;
PostgreSQL at SERIALIZABLE) or also when it is not (PostgreSQL's default). It implements `LeaseLock`
under the mapping "the holder of a key is the owner of its live row, if any".

**`PermanentStore`** is one server process per element of `Servers`, each with a queue, a cache and
`Workers`. `CreateBeaconBlock` inserts the record and offers the job; `Send` is QueueBlock's
`select` (the flag check and the send are two steps, as in the code). `Dequeue` … `CloseChannel` are
processBlock, one action per access to something shared, in the order of the code: cache, lock,
cache, table, store, copy (two actions, see below), row and cache, deferred release, deferred close. The lock is an instance of
`LeaseLock`, whose owner is `<<server, epoch>>`, the nodeID NewIndexer draws; a
lease ends in `LockLapses`, during its holder's work only with the fault `"slow"`. `Stop`,
`StopReturns` and `Restart` are the end of a process: after Stop, or by a crash. The file store
copies in place (`AtomicCopy = FALSE`: a `"partial"` object between `StartCopy` and `FinishCopy`), S3 at once.
What may go wrong is the constant `Faults`, so that each run and each theorem says what it assumes.
A *copy* is one agent's capture of a block; `BlockOf` maps it to network and root. `permRows`
counts rows up to 2 ("several"), and `"absent" → "saved" → "indexed" → "purged"` is the life of an
item.

**`Retention`** extends it by the loop of `retention.go`. The six purge functions share `List`, `Pick`,
`DeleteObject`, `DeleteRecord` and `Skip` (the `continue` after an error); blocks go through `QueueOld` and
`Processed` (the receive on ProcessedChan) first. `MissingIsError` is the difference between
the stores when the object is already gone: S3's delete succeeds, os.Remove's error is not ErrNotFound.
`GrowOld` is time passing.

**`Capture`** is one agent. The beacon node is external: `Tick`, `NewBlock`, `Reorg(from, h, bs)` —
the slots from `from` on get another history with head `h` and blocks in `bs` only — with the events they
send. A running handler is an element of `blockEvents`, `traceEvents` or `reorgEvents` with its next
step; sends block on a full queue. Processors run `Take`, `FetchRoot`, `List`, `Fetch`, `Save`, then
the server's `CheckIndexed` and `Insert`. `chain[s]` is the fork at slot `s`: it stands for the
root, so an item is (kind, slot, fork), and `objects[i]` is the fork whose data lies at the
location of `i`. The age checks subtract in unsigned arithmetic (`Minus`, modulo `Word`). It is assumed of the
node that a reorg event names the first slot that changed, and that a block event comes when the
block is canonical. Agents have different names, which are part of every query and location, so one
agent is enough. An error of the wall clock, which ends the loop over states for good
(`Wallclock().Now()`, queue.go:103), is left out. Crashes lose handlers, queues and processors. A cancelled Create call ends
before the agent's next one for the same item (an upload and a second of sleep lie between them).

**`BadFiles`** is one agent's other half: three loops (bad blocks and bad blobs from directories, the execution
client's list), asked for a round by a scheduler through bounded queues. An item is a file name, or a
hash of the list; the content of a file is the number of its dump (`Dump` writes it, `MaxDumps` times at most). `Take` reads the
directory or the list, `Pick` the next file, then `List`, `Save` (compression, upload, the spec), `Create` with the server's
handler, and `Remove`. `Skip` is the `continue` of the loops and `Return` the end of a round. The kinds
differ where the code does: after a failed List, files are captured anyway and blocks are not; only for files does the server look for a record. `Groups`
and `Submatches` are the number of groups in each client's file pattern and the number of
submatches the loops ask for; both come from the code, and what a loop sees of a directory (`Matching`) follows from them: the bad files of Prysm, none of Lighthouse and Nimbus.
`mishaps` bounds the failures, crashes included; a failed Create may have inserted (`"reply"`).

**`ListingKinds`** is what the six listings differ in, each read off its own files: which field each text input, combo
box, table cell and detail line sets, which columns sort, and what list and count request send for each column
(the field's text, or parseInt of it). The map names the file and the lines of each of these 42 functions. It also has what the API drops of each listing's request.

**`Pagination`** says which pages have a button, where the ellipses are and where each enabled button leads (`Clicks`).

**`Listing`** is one of the six listings with the server behind it. Every rendering observes queries, whose keys hold everything
the request sends (`ListKey`, `CountKey`, `IdKey`), and sends for those that are new and not fresh (`Render`, `Fetch`: one request per key at a time). The user
types (`Type`; the form changes when the debounce fires, `Fire`), picks (`Pick`), clears, sorts, turns pages, clicks cells, opens rows (`View`)
and clicks lines in the dialog (`HandleSearch`), lets answers grow stale (`Wait`) or comes back to the window (`Focus`).
`Reply` answers a request from a version of the table between its sending and now, `Fail` does not answer it, `Change` adds or removes a row, `SetNetwork` is
the list of networks arriving. `Answer` is the server's: a list request loses the filters the API does not hand on (`HandedOn`, `DroppedByList`: implementation and version on the execution listings), a count request keeps them; then filter, order and offset.
Zero is no filter where the number travels bare (`BareNumbers`), but it is one for the index of a blob, which has a wrapper; a text where a number is wanted is refused.
A row is named by the column in which it differs from the row `"base"`, so that every filter tells rows apart. A `session` is the listing and the columns
that are in play, with its bounds.

**`Pages`** is the data of the ten pages: the fields each keeps in its address (`FilterFields`, `ToolFields`), the fields a load
fills from it (`ProvidedFields`, without those of beacon blocks, as in the code), what the effects write (`FilterQuery`, `ToolQuery`), and for each detail page what its
links to the tools set in the form and what they carry in the address — which is not the same.

**`Workbench`** is the frontend around the listings. `entries` is the history, `form` the form of all pages. A step that changes what a part of the page watches makes its effect
due: `SelectorEffect` reads the address and asks for a page, `FilterEffect` and `ToolEffect` write the address, and `Commit` renders the page that was asked for.
They run in the order of App.tsx before the user acts again. The user opens tabs, details and links (also in a new tab), edits filters and selectors, selects rows of a search, goes on from
a transition to a diff (`LetsGo`), reloads and goes back. `command` is the memo of the tool's command with the dependencies it was computed for; a command stands for the items it downloads.

`MCDistributedLock`, `MCPermanentStore`, `MCRetention`, `MCBadFiles`, `MCListing` and `MCWorkbench` give the functions among the constants
their values and define the symmetry of the safety runs (servers; copies of one block), the sessions and the starting addresses. `Capture` needs
no such module.

## The runs

| run | expects | checks | instance |
|---|---|---|---|
| `Lock` | pass | `TypeOK`, `MutualExclusion`, `ImplementsLease` | 2 servers, 1 key, 4 row ids, clock to 5, lease 2; 240 000 states |
| `Store_Faults` | pass | `TypeOK`, `CacheSound`, `RecordSound` | 2 servers × 2 workers, 2 copies of one block and 1 incomplete one, every fault the store meets, queue 1, cache 1, one restart each; 1.5 million states |
| `Retention_TwoServers` | pass | `RTypeOK`, `AtLeastOneCopy`, `NoOrphans`, `OneWriter`, `ImplementsCustody`, `HangsOnlyIfDropped` | 2 servers × 1 worker, 2 copies of one block, queue 1, crash and failing deletions; 2.2 million states up to symmetry |
| `Retention_Liveness` | pass | `EventuallyPurged`, `StopTerminates`, `QueuedBecomesPermanent` | 1 server × 1 worker, 2 copies and a trace, crash and stop, queue 3; 210 000 states |
| `Retention_Disabled` | violation | `EventuallyPurged` | the permanent store disabled |
| `Capture` | pass | `CTypeOK`, `StoredUnderItsRoot`, `ImplementsArchive` | slots to 2, one reorg, each kind alone, all faults, one crash, queue 1; 570 000 states |
| `Capture_Liveness` | pass | `BeaconDataIndexed`, `TracesIndexedIfNoneMissed` | slots to 2, one reorg; states and blocks together, and traces; 470 000 states |
| `Capture_ReorgTraces` | violation | `TracesIndexed` | slot 3, one reorg, traces only |
| `BadFiles` | pass | `BTypeOK`, `NoFileLost`, `ImplementsArchive`, `BadDataCaptured` | 2 bad blocks and a foreign file, 2 blobs, or 2 hashes, each written twice at most; Prysm, Lighthouse or a client without patterns; queue 2, three failures of ten kinds; 186 000 states |
| `Listing` | pass | `LTypeOK`, `ShownIsTheCurrentPage`, `CountExplainsPage`, `InputShowsFilter`, `LoadingMeansFetching`, `FilterKeepsItsRow`, `ButtonsLeadBack`, `SettlesOnWhatIsTyped` | every column of the six listings in a session of two steps; sessions with two filters, with three pages and three steps, with changing rows, a failing request, a late network; one row per page; 260 000 states |
| `Listing_Execution` | violation | `ShownRowsAreWanted` | the sessions of `Listing` |
| `Workbench` | pass | `WTypeOK`, `PageFollowsPath`, `AddressDescribesPage`, `CommandIsOfSelection`, `ReloadRestoresPage`, `EffectsSettle` | three steps from 8 starting addresses, history of 3, an item of each kind a link carries, two traces of one block; 126 000 states |

`CHECK_DEADLOCK FALSE` except in the run of `BadFiles`, whose scheduler never stops: all bounded worlds end, with every copy purged, every server stopped, the
last slot reached, or the user's steps taken. That nobody waits for nothing is the business of `HangsOnlyIfDropped` and of the liveness properties.

*Why these bounds.* The lock's cases need two owners and enough clock for a lease to run out and a second one to
start. In the store, two servers with copies of the same block meet in every pair of steps; a third
would only repeat a pair. A queue and a cache of one are full as soon as they are used: in `Retention_TwoServers` a full queue drops
the job of a new block, and the loop's own, whose channel then stays open. In `Retention_Liveness` it cannot, because `EventuallyPurged` and `QueuedBecomesPermanent` are
claims about jobs that are not dropped: with a queue of one `EventuallyPurged` fails there. The queue of three is longer than the jobs there can be, and the wait that is left is the one for a lock whose holder died. Two restarts of one
server differ from one only in the name of the owner. A reorg with one slot before its head exercises
both loops of its handler, and one with two (slot 3) is needed for a missed slot to come before another.
Three failures reach an item that fails, is retried, and fails
again while another is in hand; a second file of a name is needed for one that comes while, or after, the first is captured. `RecordHasObject`, `OneBeaconRecord` (`Capture`) and
`OneRecord` (`BadFiles`) follow from `ImplementsArchive`, whose `Record` needs an object and, of a unique item, no row; they are theorems and have no run of their own. In a listing the columns meet only in the requests, so each column gets its own sessions and one session has two; two steps of the user are enough for an
answer to come after the query has changed and for a field to be set while its debounce runs, three for a page that no longer exists and a way back from it.
With one row per page three rows make three pages. In the workbench three steps reach a link, the tool behind it, and back or a reload; the starting addresses are the pages a deep link can name, with and
without a query, so that no step is spent on getting there. Each safety property that has a theorem does not depend on the bounds at all.

*Fairness.* Weak fairness of each goroutine that can run (workers, sends, the loop, the handlers and processors), of
Stop's polling, of the agent's scheduler, of leases running out and of time making records old. No fairness on crashes,
stops, uploads, events, dumps, or on the choice between success and failure of a call; a worker's step that waits
for a lock is fair only while the lock is free, and what makes it free is the holder's release or the lapse
of its lease. The Go scheduler gives the first, timers the others. In the frontend, debounce timers fire, requests are answered or fail, the list of networks arrives, and the effects of a rendering run;
the user owes nothing. React and the browser give this.

### What the violations show

* **`Retention_Disabled`.** With the permanent store disabled, which is the default, QueueBlock returns without
  closing the channel, and the loop waits for the first old block forever; nothing of any kind is purged again.
  The same happens when a full queue drops the job, when the block was indexed without a network (the workers skip it),
  and when the store is stopped. `HangsOnlyIfDropped` says that nothing else does it, and is proved without assumptions. `EventuallyPurged` is checked where none of them occurs:
  with the store enabled, a queue that is large enough and complete records.
* **`Listing_Execution`.** `ListExecutionBlockTrace` and `ListExecutionBadBlock` of the API do not hand `ExecutionImplementation` and `NodeVersion` on to the indexer (api.go:656-666 and
  781-792), `CountExecutionBlockTrace` and `CountExecutionBadBlock` do. A filter by either leaves the rows of both execution listings as they are, under the page buttons of the
  filtered count. `ShownIsTheCurrentPage` and `CountExplainsPage` except requests with such a filter (`AllHandedOn`); all other filters of the six listings are in them.
* **`Capture_ReorgTraces`.** The trace loop of the reorg handler returns on the first slot without a block.

Things the models show that no run is kept for:

* *A failed copy* (`Retention` with `"storeCopy"`). The channel is closed on every return of processBlock and carries no result, so a failed copy
  (or a lock out of reach for 35 s, or a failing Exists) ends in the deletion of the last object. `AtLeastOneCopy` is proved under the
  assumption that none of these happens.
* *Lighthouse and Nimbus* (`BadFiles` with their patterns). The patterns have two groups, slot and root, so a match has three parts; the
  loop takes matches of two (consensus.go:257-259, 296). No bad block of these clients is ever read, although src/README.md:4 promises "invalid gossiped verified blocks", and the branch for three parts inside the loop is dead.
  The run has Lighthouse, and `BadDataCaptured` speaks of files that are recognised (`Recognised`): without that condition it fails on the first Lighthouse file.
* *Several rows of one block* (`PermanentStore`). All workers of a server acquire under the server's nodeID, and an owner
  is always granted its own lock: two workers with two agents' copies of a block pass together, and the block is recorded twice. The second look at the cache narrows the window and does not close it.
  Nor is the row safe among servers: a worker that finds the object caches the block before it inserts the row, so that a colleague who meets the cache releases the lock they share, and another server inserts a second row. The table has no unique index, and
  permanent_store_test.go:217-220 processes one block after the other. That a block has one row is therefore no property of this project; what is checked of rows is that each has a whole object (`RecordSound`).
* *Locks that colleagues release* (`PermanentStore` with two servers of two workers and `"storeExists"` or `"storeCopy"`). The first of two workers that share a lock releases it for both.
  If it failed to copy, the other goes on writing without the lock, and another server joins in. While the store works, the first releases
  only when the block has its permanent object, and the others find it: `OneWriter`, which compares *servers*, is then proved for any number of workers.
  With the retention loop it takes more, because a worker that finds its source purged also releases with nothing copied: no worker may give up waiting for the lock,
  so that nothing is purged before it is permanent (`PurgeKeepsOneWriterOfMany`).
* *The file store* (`AtomicCopy = FALSE` with a stop or crash). It writes the permanent object in place. A process that ends in the
  middle — by a crash, or because Stop waits for the queue to be empty and not for the workers — leaves a truncated file,
  which the next incarnation takes for the copy, and `AtLeastOneCopy` fails. `CacheSound` and `RecordSound` are claims about S3.
* *Names that are written twice* (`BadFiles`). Prysm names bad blocks by slot alone, and they are recorded
  under the root `unknown`: a second file of a slot has a record already and is deleted unsaved, or overwrites the first when it comes before the upload.
  `NoFileLost` therefore says of a name that is gone that some file of that name is stored and recorded, not that the last one is.
* *Traces that are recorded twice* (`Capture` with `"list"`). CreateExecutionBlockTrace does not look for a record, so a trace that is captured again after a failed
  List gets a second row. Without failing Lists it cannot: one goroutine asks, captures and records (`TracesRecordedOnce`).
* With `Serializable = FALSE`, `MutualExclusion` fails (two servers that
read one expired row both take it over).
* With `MissingIsError = TRUE` and a crash between the two deletions, the record stays
forever, because every retry fails on the missing file.
* With `Lag = 1` in `Capture`, an agent whose clock is one slot behind the node's ignores every
fresh block as too old, by unsigned underflow.
* With blocks included in `StoredUnderItsRoot`, or with `ByRoot = FALSE`, a reorg between
root and fetch puts one block's (state's) data under the root of another.
* *A filter does not reset the page* (`Listing`). A user on page 3 who types a filter that leaves one page sees an empty table, and the page buttons
  are hidden because there is one page only. `ShownIsTheCurrentPage` still holds — the table shows page 3 of the answer — which is why it says *the current page*,
  and why `ButtonsLeadBack` is about the buttons that are shown.
* *Clear while a debounce runs* (`Listing`). Clear empties the form. An input whose text has not reached the form yet sees no change
  and keeps the text, and its timer applies it after the Clear. `SettlesOnWhatIsTyped` therefore says that form and inputs agree in the end, and not that Clear is the last word.
* *Lines of a dialog that still loads* (`Listing`). They can be clicked and set the field to undefined; the input keeps its text, and only then do
  input and filter differ (`InputShowsFilter` and `SettlesOnWhatIsTyped` except an undefined field).
* *Filters that filter nothing* (`Listing`). The server takes zero as "no filter" for slot, epoch and block number, and the frontend sends parseInt of the text: `0`, or a text without digits, shows
  every row; index 0 of a bad blob does filter. The index of a bad blob is not parsed in the list request but in the count request, so that junk fails the list and not the count.
* *A reload loses the filters of beacon blocks* (`Workbench`). `providers/filters.tsx` has no defaults for the `beaconBlock*` fields the page writes to its
  address. `ReloadRestoresPage` excludes that page for this reason alone.
* *A tab starts with a bare address* (`Workbench`). On loading and on changing the tab the effect of Tools runs last and writes a query of tool fields, so the address of a
  listing loses its filters until one of them changes; coming back to the same page by Back leaves a query that the form no longer has. `AddressDescribesPage` speaks of the address written last by an effect of the
  page, `ReloadRestoresPage` of one with a query.
* *Links of the detail pages* (`Pages`). The links to zcli of a block, a bad block and a bad blob put their id where the selector expects the id of a state, and the `href` of
  a link (a new tab) does not carry what its `onClick` (the same tab) sets. A trace opened in the diff does not clear the second id, so a trace may be compared
  with itself. The badge of a bad block in a search leads to its page and, being part of the row,
  also selects it. `LetsGo` with a bad block writes the slot `undefined` into the address of the diff.
  `CommandIsOfSelection` says that the command downloads what is selected, not that the selection makes sense.

## The proofs

Checked by TLAPS for every value of the constants that satisfies the modules' ASSUMEs.

| theorem | statement | assumes |
|---|---|---|
| `DistributedLockProofs!TypeCorrect` | `Spec => []TypeOK` | — |
| `LockIsExclusive` | `Spec => []MutualExclusion` | `Serializable`, `OneClientPerOwner` |
| `LockRefinesLease` | `Spec => ImplementsLease` | `Serializable` |
| `StoreTypeCorrect` | `Spec => []TypeOK` (with the queue bound) | — |
| `CacheIsSound`, `RecordIsSound` | `Spec => []CacheSound`, `[]RecordSound` | `AtomicCopy` (S3); every fault allowed |
| `LockProtectsWriters` | `Spec => []OneWriter` | `StoreWorks`: no `"slow"`, `"storeExists"`, `"storeCopy"`; any number of workers per server |
| `RetentionTypeCorrect` | `RSpec => []RTypeOK` | — |
| `PurgeLeavesNoOrphans` | `RSpec => []NoOrphans` | —; every fault allowed |
| `RetentionKeepsOneCopy` | `RSpec => []AtLeastOneCopy` | `CopiesSucceed`: S3, no `"storeExists"`, `"storeCopy"`, `"giveUp"` |
| `RetentionRefinesArchive` | `RSpec => ImplementsArchive` | —; every fault allowed |
| `RetentionRefinesCustody` | `RSpec => ImplementsCustody` | `CopiesSucceed` |
| `BlocksAreNeverLost` | `RSpec => Custody!NeverLost` | `CopiesSucceed` |
| `JobsAreKept` | `RSpec => [][JobsSettled]_rvars` | `CopiesSucceed` |
| `PurgeKeepsStoreSound` | `RSpec => [](CacheSound /\ RecordSound)` | `AtomicCopy` |
| `PurgeKeepsOneWriterOfMany` | `RSpec => []OneWriter` | `CopiesSucceed`, `StoreWorks`; any number of workers per server |
| `CaptureTypeCorrect` | `Spec => []CTypeOK` | — |
| `TracesRecordedOnce` | `Spec => []OneTraceRecord` | no failing List (`"list"`) |
| `CaptureRefinesArchive` | `Spec => ImplementsArchive` | —; every fault, any chain, by root or not |
| `RecordsAreStored`, `BeaconRecordsOnce` | `Spec => []RecordHasObject`, `[]OneBeaconRecord` | —; every fault, any chain |
| `DataLiesUnderItsRoot` | `Spec => []StoredUnderItsRoot` | `ByRoot` |
| `BadFilesTypeCorrect` | `Spec => []BTypeOK` | — |
| `BadDataRecordedOnce` | `Spec => []OneRecord` | —; every fault, any client |
| `FilesAreKept` | `Spec => []NoFileLost` | —; names are written any number of times |
| `BadFilesRefineArchive` | `Spec => ImplementsArchive` | —; every fault, any client |
| `LoopHangsOnlyIfDropped` | `RSpec => HangsOnlyIfDropped` | —; every fault, any queue, the store enabled or not |
| `ArchiveIsTruthful`, `ArchiveIsDownloadable` | `Archive!Spec => []Truthful`, `[]Downloadable` | —; for the second, no item's data is `None` |
| `ArchiveListsOnce`, `ArchiveLeavesNothing` | `Archive!Spec => []ListedOnce`, `NothingLeftBehind` | — |
| `CustodyIsArchive` | `Custody!CSpec => Archive!Spec` | — |
| `CustodyLosesNothing`, `CustodyListsAvailable` | `Custody!CSpec => NeverLost`, `[]ListedIsAvailable` | no item's data is `None` |
| `PageButtonsRight` | the buttons `Clicks` lists are right for every page and number of pages | — |
| `ListingTypeCorrect` | `Spec => []LTypeOK` | — |
| `TableIsCurrent` | `Spec => []ShownIsTheCurrentPage` | — |
| `CountMatchesPage` | `Spec => []CountExplainsPage` | — |
| `InputsAgreeWithForm` | `Spec => []InputShowsFilter` | — |
| `NoQueryIsForgotten` | `Spec => []LoadingMeansFetching` | — |
| `ClicksFilterTheirColumn` | `Spec => FilterKeepsItsRow` | — |
| `ButtonsNeverStray` | `Spec => ButtonsLeadBack` | — |
| `WorkbenchTypeCorrect` | `Spec => []WTypeOK` | — |
| `PageIsOfPath`, `AddressIsOfPage` | `Spec => []PageFollowsPath`, `[]AddressDescribesPage` | — |
| `ReloadKeepsPage` | `Spec => ReloadRestoresPage` | — |
| `CommandIsOfChoice` | `Spec => []CommandIsOfSelection` | — |

The theorems of `Listing` hold for any sessions (any columns of any of the six listings together), table versions, page size, number of requests, failures and changes; those of
`Workbench` for any items, starting addresses, edits and length of the history.

The arguments, each an inductive invariant:

* **Lock.** `LockInv`: a client that holds a key is backed by a live row of its owner whose expiry is not before
  the client's. A transaction that commits against the row it read can only replace a row that is
  absent, soft-deleted, expired or its own. The refinement maps every step to `Grant`, `Free`, `Lapse` or a stutter;
  it needs no assumption about clients per owner, which is why `PermanentStore` may use `LeaseLock` for ten workers.
* **Soundness.** `SoundInv`: with atomic copies no permanent object is ever partial (`NeverPartial`), and a worker at
  a step that will cache or record has a whole object behind it (`Witnessed`). `CacheSound` alone is not inductive: the
  cache is filled from what a worker saw steps ago.
* **One writer.** Workers of a server share an owner, so that a worker between AcquireLock and ReleaseLock need not hold the lock: a colleague may have released it. `WriterInv`
  says that what is cached, recorded or released has an object, be it torn (`Present`), and that a worker between AcquireLock and ReleaseLock has the lock under its owner or works on
  a block that has an object (`Guarded`): objects stay, and no server starts to write a block at whose location it sees one. A copy must find its source (`Copyable`); in the composition this
  is `GonePermanent`, that only copies of permanent blocks have been purged, which comes from `CopyInv` (`SharedInv`).
* **No orphans.** `PurgeInv`: what the loop has listed was indexed, so its upload is over (`Listed`), and at `"deleteRecord"`
  the object is gone (`ObjectGone`) — for any number of servers at the same record, since nobody uploads it again.
* **One copy.** `CopyInv`, on top of the two above: a job was submitted for an indexed block, a worker at
  `"release"` or `"close"` leaves a whole permanent object, unless that copy was gone already (`Spent`); so does a closed channel (`ChannelsTrue`), and the loop deletes
  only what such a channel answered for (`DeletesSpent`). `PermanentStays`: no step takes a whole object away.
* **Custody.** `CustodyInv` adds to `CopyInv` that the copy a worker is writing from is still in the store, unless somebody else has made the block permanent
  meanwhile (`CopyingStored`). Then `FinishCopy` maps to `Keep`, `DeleteObject` to `DiscardSpare` (its block is kept, because the closed channel says so, or the copy is gone and nothing happens), `DeleteRecord` to
  `Forget` (by `ObjectGone`), uploads and inserts to `Upload` and `Record`, and every other step of servers, workers and loops to a stutter. `RetentionRefinesArchive` needs only `PurgeInv`, and so
  holds under every fault. `BlocksAreNeverLost` is then no new induction: it instantiates `ArchiveProofs` with the mapping and applies `CustodyLosesNothing`.
* **Jobs.** `JobsSettled` compares two states: a job a server had and has no more — on its way to the queue, in it, or with a worker — was put down for one of four reasons. Each step of
  the store is one case; the case of `CloseChannel` needs `CopyInv` to know that the block is permanent or that copy gone.
* **The store with the loop.** The theorems of `PermanentStore` are about its own `Spec`, whose steps the loop interleaves with deletions. `StoreSteps` says which steps of the composition change the store's variables and
  how; the store's invariants hold across them, since the loop only submits jobs and takes away sources, never permanent objects.
* **Capture.** `CaptureInv`: a processor at `"check"` or `"insert"` has its item in the store, one that will insert a state or block saw no
  record, and one that will save holds what it asked for (`KnowsAt`). Kinds have items of their own, so no processor disturbs what another knows (`OthersKeep`).
  No step of the chain or of a handler touches any of this: that is why reorgs cannot hurt what is fetched by root.
  The refinement of `Archive` follows step by step: `Save` is an `Upload` of what the location may hold, `Insert` a `Record`, all else stutters.
* **Traces.** `TraceInv`: while List does not fail, a processor that has a trace in hand after its List has seen that there is no row, and no row has come since, as there is one processor of traces.
  The row is then the first.
* **Bad data.** `CollectInv`: at `"remove"` the item has a record, at `"create"` its object is stored, and records have objects
  (`Stored`, `Checked`); a file that is gone has a record (`GoneIsRecorded`). The server's look works because the object is already in
  the store when it looks. With names that are written again, what is stored of a file that is gone is a version that was written (`Dumped`), not necessarily the last.
* **Archives.** `Truthful`, `ListedOnce` and the others are inductive as they stand with the types, over one lemma on what a step does to its item and to the others (`ItemSteps`): the abstract specifications carry
  none of the machinery, which is the use of having them.
* **Hanging loops.** `WaitInv` is only that a loop that waits has a block in hand; the rest is about steps. `SendLoses`, `DequeueLoses` and `WorkLoses` say
  where each step of the store leaves a job; together (`RNextLoses`) a job that was in a send, the queue or a worker's hand and is in none of them met a full queue or had no network, or its process ended, or its channel was closed.
  A process that ends takes its loop with it. What is left are the steps of the loop itself (`WaitSteps`), of which only `QueueOld` begins a wait.
* **Listings.** `ListingInv`: an input's text is the form's value unless its debounce runs (`FormOK`); an entry of the cache is the server's answer to exactly the request its key
  names, from a version the table has had, and a query that has no answer and has not failed is being fetched (`CacheOK`); sort, page and dialog are possible choices (`ChoicesOK`).
  A table that has data under the key of the current query then shows the current page because the key determines the request: this is a fact about the twelve
  files of `ListingKinds`, proved once for each kind (`Consistent`). `CountMatchesPage` counts the page without induction: `Rank` is a bijection of the matching
  rows onto an interval, and a page is the part of the interval between two bounds. It needs the count request never to be refused where the list is answered, and no filter in force that the API drops from the list (`AllHandedOn`).
* **Workbench.** `WorkbenchInv`: when no effect is due the shown page is the one of the path (`PathOK`), the address written last by an effect describes form and page
  (`WrittenOK`, `FiltersOK`), and the memo is the command of the dependencies it was computed for, which are the current ones (`MemoOK`). The dependencies of each tool determine
  its command — the step that fails when a `useMemo` forgets one. `Rerender` is shared by all steps of the user, so one lemma carries the invariant over most of them.

Only model-checked: all liveness properties (`StopTerminates`, `QueuedBecomesPermanent`, `EventuallyPurged`,
`BeaconDataIndexed`, `TracesIndexedIfNoneMissed`, `BadDataCaptured`, `SettlesOnWhatIsTyped`, `EffectsSettle`), since
fairness and ENABLED are out of the prover's reach. Every safety property of a passing run has a theorem. Theorems that state no run's property go beyond the
runs in their statement (`BlocksAreNeverLost`, `JobsAreKept`, `TracesRecordedOnce`, `RetentionRefinesArchive`), or say a part of what a run checks as a whole (`RecordsAreStored`, `BeaconRecordsOnce`, `BadDataRecordedOnce`).

## Not modelled

* *Data and formats*: wording, metrics, compression, JSON and SSZ contents, the texts of the tools' commands and the configuration they
  contain (a command is the items it downloads), the limit of 10 000 records of a retention query.
* *Stateless code*: the API facade but for the filters of list and count, the download handlers (a record, then a redirect or the object), network names, start-up, generated code, the
  set-up and text pages of the frontend.
* *Readiness* (`agent/ethereum/node.go`). The flags of the two nodes are written and read by two goroutines without a lock, so their callbacks run
  never, once or twice, depending on the build: nothing that holds says more, and a property over a free choice would only repeat it.
* *Handshake*. One token object per agent is written and compared at start-up; two agents of one name are the only actors who could disagree.
* *Servers*: the distinct queries, and List as the agents use it (`Capture` and `BadFiles` take it to find exactly the item asked for).
* *Frontend*: the browser's Forward button, the second level of tabs inside a page, the options of the combo boxes, another network chosen by the user (the choice is memoised without dependencies: networks that
  arrive after the first rendering are never offered), loading and error texts of the selectors' searches.
* *Compositions*: Retention with `Capture` or `BadFiles` — an item that is purged while its agent captures it again is outside all of them — and `Listing` with `Workbench`: a step
  of one touches nothing of the other but the form's fields, which each has for itself.
* A file is read whole, never while its client still writes it. The upload of `Capture` is one step (a torn upload has no record yet, and
  the next capture overwrites it).

## Plan

1. *(done)* Lock, permanent store, retention, `Capture`, `BadFiles`, with the proofs above, `HangsOnlyIfDropped` included.
2. *(done)* The frontend: `ListingKinds`, `Pagination`, `Listing`, `Pages`, `Workbench`, with the proofs above.
3. *(done)* What agents and servers promise of an item as `Archive` and `Custody`, implemented by `Capture`, `BadFiles` and `Retention`; the store's theorems for many workers and in the composition with the loop.
4. Composition of `Capture` with `Retention`: items that are purged while they are captured again, objects without records.
5. The distinct queries behind the combo boxes, and the user's change of the network in `Listing`; `Listing` inside `Workbench`.
6. The start of an agent: readiness, and what a second trace processor, which a second start of the handlers would be, does to `TracesRecordedOnce`; the handshake of two agents of one name.
