---------------------------- MODULE ListingKinds ----------------------------
(***************************************************************************)
(* The six listings of the web frontend as data: for each kind of object   *)
(* which form field an input edits, what the list and the count request    *)
(* send, which columns sort, and which field a click on a cell of the      *)
(* table or on a line of the detail page sets.  Every one of the six is a  *)
(* component written out by hand, so each record below is read off its own *)
(* source file; the machinery they share is in module Listing.             *)
(*                                                                         *)
(* Columns carry the names of the request's properties, fields the names   *)
(* the form is keyed by.                                                   *)
(***************************************************************************)

\* Columns the server stores as 64-bit numbers.
NumericColumns == {"slot", "epoch", "index", "block_number"}
\* Of these, the ones a request carries as bare numbers: the server reads a zero
\* as no filter.  The index of a blob comes in a wrapper, whose zero is a value.
BareNumbers == {"slot", "epoch", "block_number"}

\* What a request sends for a column: the field's text through parseInt, or
\* the text as it stands.
ParseInt(field) == [field |-> field, as |-> "int"]
Verbatim(field) == [field |-> field, as |-> "text"]

\* beacon_state: the inputs of the filter form, text inputs and combo boxes.
BeaconStateInputs ==
  [slot |-> "beaconStateSlot", epoch |-> "beaconStateEpoch",
   state_root |-> "beaconStateStateRoot"]
BeaconStateCombos ==
  [node |-> "beaconStateNode", beacon_implementation |-> "beaconStateNodeImplementation",
   node_version |-> "beaconStateNodeVersion"]
BeaconStateList ==
  [slot |-> ParseInt("beaconStateSlot"), epoch |-> ParseInt("beaconStateEpoch"),
   state_root |-> Verbatim("beaconStateStateRoot"), node |-> Verbatim("beaconStateNode"),
   node_version |-> Verbatim("beaconStateNodeVersion"),
   beacon_implementation |-> Verbatim("beaconStateNodeImplementation")]
BeaconStateCount ==
  [slot |-> ParseInt("beaconStateSlot"), epoch |-> ParseInt("beaconStateEpoch"),
   state_root |-> Verbatim("beaconStateStateRoot"), node |-> Verbatim("beaconStateNode"),
   node_version |-> Verbatim("beaconStateNodeVersion"),
   beacon_implementation |-> Verbatim("beaconStateNodeImplementation")]
BeaconStateSortKeys ==
  {"fetched_at", "node", "beacon_implementation", "node_version", "epoch", "slot", "state_root"}
BeaconStateCells ==
  [node |-> "beaconStateNode", beacon_implementation |-> "beaconStateNodeImplementation",
   node_version |-> "beaconStateNodeVersion", epoch |-> "beaconStateEpoch",
   slot |-> "beaconStateSlot", state_root |-> "beaconStateStateRoot"]
BeaconStateLines ==
  [node |-> "beaconStateNode", beacon_implementation |-> "beaconStateNodeImplementation",
   node_version |-> "beaconStateNodeVersion", epoch |-> "beaconStateEpoch",
   slot |-> "beaconStateSlot", state_root |-> "beaconStateStateRoot"]

\* beacon_block: the inputs of the filter form, text inputs and combo boxes.
BeaconBlockInputs ==
  [slot |-> "beaconBlockSlot", epoch |-> "beaconBlockEpoch",
   block_root |-> "beaconBlockBlockRoot"]
BeaconBlockCombos ==
  [node |-> "beaconBlockNode", beacon_implementation |-> "beaconBlockNodeImplementation",
   node_version |-> "beaconBlockNodeVersion"]
BeaconBlockList ==
  [slot |-> ParseInt("beaconBlockSlot"), epoch |-> ParseInt("beaconBlockEpoch"),
   block_root |-> Verbatim("beaconBlockBlockRoot"), node |-> Verbatim("beaconBlockNode"),
   node_version |-> Verbatim("beaconBlockNodeVersion"),
   beacon_implementation |-> Verbatim("beaconBlockNodeImplementation")]
BeaconBlockCount ==
  [slot |-> ParseInt("beaconBlockSlot"), epoch |-> ParseInt("beaconBlockEpoch"),
   block_root |-> Verbatim("beaconBlockBlockRoot"), node |-> Verbatim("beaconBlockNode"),
   node_version |-> Verbatim("beaconBlockNodeVersion"),
   beacon_implementation |-> Verbatim("beaconBlockNodeImplementation")]
BeaconBlockSortKeys ==
  {"fetched_at", "node", "beacon_implementation", "node_version", "epoch", "slot", "block_root"}
\* Mutant: two cells are swapped.
BeaconBlockCellsSwapped ==
  [node |-> "beaconBlockNode", beacon_implementation |-> "beaconBlockNodeVersion",
   node_version |-> "beaconBlockNodeImplementation", epoch |-> "beaconBlockEpoch",
   slot |-> "beaconBlockSlot", block_root |-> "beaconBlockBlockRoot"]
BeaconBlockCells ==
  [node |-> "beaconBlockNode", beacon_implementation |-> "beaconBlockNodeImplementation",
   node_version |-> "beaconBlockNodeVersion", epoch |-> "beaconBlockEpoch",
   slot |-> "beaconBlockSlot", block_root |-> "beaconBlockBlockRoot"]
BeaconBlockLines ==
  [node |-> "beaconBlockNode", beacon_implementation |-> "beaconBlockNodeImplementation",
   node_version |-> "beaconBlockNodeVersion", epoch |-> "beaconBlockEpoch",
   slot |-> "beaconBlockSlot", block_root |-> "beaconBlockBlockRoot"]

\* beacon_bad_block: the inputs of the filter form, text inputs and combo boxes.
BeaconBadBlockInputs ==
  [slot |-> "beaconBadBlockSlot", epoch |-> "beaconBadBlockEpoch",
   block_root |-> "beaconBadBlockBlockRoot"]
BeaconBadBlockCombos ==
  [node |-> "beaconBadBlockNode", beacon_implementation |-> "beaconBadBlockNodeImplementation",
   node_version |-> "beaconBadBlockNodeVersion"]
\* Mutant: the version is read off the node's field.
BeaconBadBlockListMixed ==
  [slot |-> ParseInt("beaconBadBlockSlot"), epoch |-> ParseInt("beaconBadBlockEpoch"),
   block_root |-> Verbatim("beaconBadBlockBlockRoot"), node |-> Verbatim("beaconBadBlockNode"),
   node_version |-> Verbatim("beaconBadBlockNode"),
   beacon_implementation |-> Verbatim("beaconBadBlockNodeImplementation")]
BeaconBadBlockList ==
  [slot |-> ParseInt("beaconBadBlockSlot"), epoch |-> ParseInt("beaconBadBlockEpoch"),
   block_root |-> Verbatim("beaconBadBlockBlockRoot"), node |-> Verbatim("beaconBadBlockNode"),
   node_version |-> Verbatim("beaconBadBlockNodeVersion"),
   beacon_implementation |-> Verbatim("beaconBadBlockNodeImplementation")]
BeaconBadBlockCount ==
  [slot |-> ParseInt("beaconBadBlockSlot"), epoch |-> ParseInt("beaconBadBlockEpoch"),
   block_root |-> Verbatim("beaconBadBlockBlockRoot"), node |-> Verbatim("beaconBadBlockNode"),
   node_version |-> Verbatim("beaconBadBlockNodeVersion"),
   beacon_implementation |-> Verbatim("beaconBadBlockNodeImplementation")]
BeaconBadBlockSortKeys ==
  {"fetched_at", "node", "beacon_implementation", "node_version", "epoch", "slot", "block_root"}
BeaconBadBlockCells ==
  [node |-> "beaconBadBlockNode", beacon_implementation |-> "beaconBadBlockNodeImplementation",
   node_version |-> "beaconBadBlockNodeVersion", epoch |-> "beaconBadBlockEpoch",
   slot |-> "beaconBadBlockSlot", block_root |-> "beaconBadBlockBlockRoot"]
BeaconBadBlockLines ==
  [node |-> "beaconBadBlockNode", beacon_implementation |-> "beaconBadBlockNodeImplementation",
   node_version |-> "beaconBadBlockNodeVersion", epoch |-> "beaconBadBlockEpoch",
   slot |-> "beaconBadBlockSlot", block_root |-> "beaconBadBlockBlockRoot"]

\* beacon_bad_blob: the inputs of the filter form, text inputs and combo boxes.
BeaconBadBlobInputs ==
  [slot |-> "beaconBadBlobSlot", epoch |-> "beaconBadBlobEpoch",
   index |-> "beaconBadBlobIndex", block_root |-> "beaconBadBlobBlockRoot"]
BeaconBadBlobCombos ==
  [node |-> "beaconBadBlobNode", beacon_implementation |-> "beaconBadBlobNodeImplementation",
   node_version |-> "beaconBadBlobNodeVersion"]
BeaconBadBlobList ==
  [slot |-> ParseInt("beaconBadBlobSlot"), epoch |-> ParseInt("beaconBadBlobEpoch"),
   index |-> Verbatim("beaconBadBlobIndex"), block_root |-> Verbatim("beaconBadBlobBlockRoot"),
   node |-> Verbatim("beaconBadBlobNode"),
   node_version |-> Verbatim("beaconBadBlobNodeVersion"),
   beacon_implementation |-> Verbatim("beaconBadBlobNodeImplementation")]
\* Mutant: copied from the count of bad blocks, without the index.
BeaconBadBlobCountOfBlocks ==
  [slot |-> ParseInt("beaconBadBlobSlot"), epoch |-> ParseInt("beaconBadBlobEpoch"),
   block_root |-> Verbatim("beaconBadBlobBlockRoot"), node |-> Verbatim("beaconBadBlobNode"),
   node_version |-> Verbatim("beaconBadBlobNodeVersion"),
   beacon_implementation |-> Verbatim("beaconBadBlobNodeImplementation")]
BeaconBadBlobCount ==
  [slot |-> ParseInt("beaconBadBlobSlot"), epoch |-> ParseInt("beaconBadBlobEpoch"),
   index |-> ParseInt("beaconBadBlobIndex"), block_root |-> Verbatim("beaconBadBlobBlockRoot"),
   node |-> Verbatim("beaconBadBlobNode"),
   node_version |-> Verbatim("beaconBadBlobNodeVersion"),
   beacon_implementation |-> Verbatim("beaconBadBlobNodeImplementation")]
BeaconBadBlobSortKeys ==
  {"fetched_at", "node", "beacon_implementation", "node_version", "epoch", "slot", "index",
   "block_root"}
BeaconBadBlobCells ==
  [node |-> "beaconBadBlobNode", beacon_implementation |-> "beaconBadBlobNodeImplementation",
   node_version |-> "beaconBadBlobNodeVersion", epoch |-> "beaconBadBlobEpoch",
   slot |-> "beaconBadBlobSlot", index |-> "beaconBadBlobIndex",
   block_root |-> "beaconBadBlobBlockRoot"]
BeaconBadBlobLines ==
  [node |-> "beaconBadBlobNode", beacon_implementation |-> "beaconBadBlobNodeImplementation",
   node_version |-> "beaconBadBlobNodeVersion", epoch |-> "beaconBadBlobEpoch",
   slot |-> "beaconBadBlobSlot", block_root |-> "beaconBadBlobBlockRoot",
   index |-> "beaconBadBlobIndex"]

\* execution_block_trace: the inputs of the filter form, text inputs and combo boxes.
ExecutionBlockTraceInputs ==
  [block_hash |-> "executionBlockTraceBlockHash",
   block_number |-> "executionBlockTraceBlockNumber"]
ExecutionBlockTraceCombos ==
  [node |-> "executionBlockTraceNode",
   execution_implementation |-> "executionBlockTraceNodeImplementation",
   node_version |-> "executionBlockTraceNodeVersion"]
ExecutionBlockTraceList ==
  [block_hash |-> Verbatim("executionBlockTraceBlockHash"),
   block_number |-> ParseInt("executionBlockTraceBlockNumber"),
   node |-> Verbatim("executionBlockTraceNode"),
   node_version |-> Verbatim("executionBlockTraceNodeVersion"),
   execution_implementation |-> Verbatim("executionBlockTraceNodeImplementation")]
ExecutionBlockTraceCount ==
  [block_hash |-> Verbatim("executionBlockTraceBlockHash"),
   block_number |-> ParseInt("executionBlockTraceBlockNumber"),
   node |-> Verbatim("executionBlockTraceNode"),
   node_version |-> Verbatim("executionBlockTraceNodeVersion"),
   execution_implementation |-> Verbatim("executionBlockTraceNodeImplementation")]
ExecutionBlockTraceSortKeys ==
  {"fetched_at", "node", "execution_implementation", "node_version", "block_number",
   "block_hash"}
ExecutionBlockTraceCells ==
  [node |-> "executionBlockTraceNode",
   execution_implementation |-> "executionBlockTraceNodeImplementation",
   node_version |-> "executionBlockTraceNodeVersion",
   block_number |-> "executionBlockTraceBlockNumber",
   block_hash |-> "executionBlockTraceBlockHash"]
ExecutionBlockTraceLines ==
  [node |-> "executionBlockTraceNode",
   execution_implementation |-> "executionBlockTraceNodeImplementation",
   node_version |-> "executionBlockTraceNodeVersion",
   block_number |-> "executionBlockTraceBlockNumber",
   block_hash |-> "executionBlockTraceBlockHash"]

\* execution_bad_block: the inputs of the filter form, text inputs and combo boxes.
ExecutionBadBlockInputs ==
  [block_hash |-> "executionBadBlockBlockHash", block_number |-> "executionBadBlockBlockNumber"]
ExecutionBadBlockCombos ==
  [node |-> "executionBadBlockNode",
   execution_implementation |-> "executionBadBlockNodeImplementation",
   node_version |-> "executionBadBlockNodeVersion"]
ExecutionBadBlockList ==
  [block_hash |-> Verbatim("executionBadBlockBlockHash"),
   block_number |-> ParseInt("executionBadBlockBlockNumber"),
   node |-> Verbatim("executionBadBlockNode"),
   node_version |-> Verbatim("executionBadBlockNodeVersion"),
   execution_implementation |-> Verbatim("executionBadBlockNodeImplementation")]
ExecutionBadBlockCount ==
  [block_hash |-> Verbatim("executionBadBlockBlockHash"),
   block_number |-> ParseInt("executionBadBlockBlockNumber"),
   node |-> Verbatim("executionBadBlockNode"),
   node_version |-> Verbatim("executionBadBlockNodeVersion"),
   execution_implementation |-> Verbatim("executionBadBlockNodeImplementation")]
ExecutionBadBlockSortKeys ==
  {"fetched_at", "node", "execution_implementation", "node_version", "block_number",
   "block_hash", "block_extra_data"}
ExecutionBadBlockCells ==
  [node |-> "executionBadBlockNode",
   execution_implementation |-> "executionBadBlockNodeImplementation",
   node_version |-> "executionBadBlockNodeVersion",
   block_number |-> "executionBadBlockBlockNumber", block_hash |-> "executionBadBlockBlockHash"]
ExecutionBadBlockLines ==
  [node |-> "executionBadBlockNode",
   execution_implementation |-> "executionBadBlockNodeImplementation",
   node_version |-> "executionBadBlockNodeVersion",
   block_number |-> "executionBadBlockBlockNumber", block_hash |-> "executionBadBlockBlockHash"]

-----------------------------------------------------------------------------
Kinds ==
  {"beacon_state", "beacon_block", "beacon_bad_block", "beacon_bad_blob",
   "execution_block_trace", "execution_bad_block"}

\* The text inputs of each kind's filter form: column to field.
Inputs ==
  [beacon_state |-> BeaconStateInputs,
   beacon_block |-> BeaconBlockInputs,
   beacon_bad_block |-> BeaconBadBlockInputs,
   beacon_bad_blob |-> BeaconBadBlobInputs,
   execution_block_trace |-> ExecutionBlockTraceInputs,
   execution_bad_block |-> ExecutionBadBlockInputs]

\* Its combo boxes: column to field.
Combos ==
  [beacon_state |-> BeaconStateCombos,
   beacon_block |-> BeaconBlockCombos,
   beacon_bad_block |-> BeaconBadBlockCombos,
   beacon_bad_blob |-> BeaconBadBlobCombos,
   execution_block_trace |-> ExecutionBlockTraceCombos,
   execution_bad_block |-> ExecutionBadBlockCombos]

\* What each table's list request sends.
ListAsks ==
  [beacon_state |-> BeaconStateList,
   beacon_block |-> BeaconBlockList,
   beacon_bad_block |-> BeaconBadBlockList,
   beacon_bad_blob |-> BeaconBadBlobList,
   execution_block_trace |-> ExecutionBlockTraceList,
   execution_bad_block |-> ExecutionBadBlockList]

\* What its count request sends.
CountAsks ==
  [beacon_state |-> BeaconStateCount,
   beacon_block |-> BeaconBlockCount,
   beacon_bad_block |-> BeaconBadBlockCount,
   beacon_bad_blob |-> BeaconBadBlobCount,
   execution_block_trace |-> ExecutionBlockTraceCount,
   execution_bad_block |-> ExecutionBadBlockCount]

\* The columns whose header sorts.
SortKeys ==
  [beacon_state |-> BeaconStateSortKeys,
   beacon_block |-> BeaconBlockSortKeys,
   beacon_bad_block |-> BeaconBadBlockSortKeys,
   beacon_bad_blob |-> BeaconBadBlobSortKeys,
   execution_block_trace |-> ExecutionBlockTraceSortKeys,
   execution_bad_block |-> ExecutionBadBlockSortKeys]

\* The field a click on a cell of the table sets.
Cells ==
  [beacon_state |-> BeaconStateCells,
   beacon_block |-> BeaconBlockCells,
   beacon_bad_block |-> BeaconBadBlockCells,
   beacon_bad_blob |-> BeaconBadBlobCells,
   execution_block_trace |-> ExecutionBlockTraceCells,
   execution_bad_block |-> ExecutionBadBlockCells]

\* The field a click on a line of the detail page sets.
Lines ==
  [beacon_state |-> BeaconStateLines,
   beacon_block |-> BeaconBlockLines,
   beacon_bad_block |-> BeaconBadBlockLines,
   beacon_bad_blob |-> BeaconBadBlobLines,
   execution_block_trace |-> ExecutionBlockTraceLines,
   execution_bad_block |-> ExecutionBadBlockLines]

\* The filters the API accepts for a list request and does not hand on to the
\* indexer.  The count requests, and the lists of beacon data, keep all of theirs.
DroppedByList ==
  [kind \in Kinds |->
     IF kind \in {"execution_block_trace", "execution_bad_block"}
     THEN {"execution_implementation", "node_version"} ELSE {}]

Columns(kind) == DOMAIN Inputs[kind] \cup DOMAIN Combos[kind]
FieldOf(kind, c) == IF c \in DOMAIN Inputs[kind] THEN Inputs[kind][c] ELSE Combos[kind][c]
Texts(kind) == {Inputs[kind][c] : c \in DOMAIN Inputs[kind]}
=============================================================================
