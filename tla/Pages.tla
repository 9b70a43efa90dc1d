------------------------------- MODULE Pages -------------------------------
(***************************************************************************)
(* The ten pages of the web frontend as data: the form fields each page    *)
(* keeps in its address, the fields a loaded address fills, and what the   *)
(* links of the detail pages to the tools set and carry.                   *)
(*                                                                         *)
(* A form is a function from field to text, "" when it holds nothing; an   *)
(* address's query is a function on the fields that are in it.  The form   *)
(* does not tell null and undefined from the empty text.                   *)
(***************************************************************************)
EXTENDS FiniteSets, Sequences

Listings == {"beacon_state", "beacon_block", "beacon_bad_block", "beacon_bad_blob",
             "execution_block_trace", "execution_bad_block"}
Tools == {"go_evm_lab_diff", "ncli_state_transition", "lcli_state_transition",
          "zcli_state_diff"}
Selections == Listings \cup Tools

\* The fields of each listing's filters: those its address keeps, its button
\* clears, and that make the button appear.
FilterFields ==
  [beacon_state |->
     {"beaconStateSlot", "beaconStateEpoch", "beaconStateStateRoot", "beaconStateNode",
      "beaconStateNodeImplementation", "beaconStateNodeVersion"},
   beacon_block |->
     {"beaconBlockSlot", "beaconBlockEpoch", "beaconBlockBlockRoot", "beaconBlockNode",
      "beaconBlockNodeImplementation", "beaconBlockNodeVersion"},
   beacon_bad_block |->
     {"beaconBadBlockSlot", "beaconBadBlockEpoch", "beaconBadBlockBlockRoot",
      "beaconBadBlockNode", "beaconBadBlockNodeImplementation", "beaconBadBlockNodeVersion"},
   beacon_bad_blob |->
     {"beaconBadBlobSlot", "beaconBadBlobEpoch", "beaconBadBlobBlockRoot",
      "beaconBadBlobIndex", "beaconBadBlobNode", "beaconBadBlobNodeImplementation",
      "beaconBadBlobNodeVersion"},
   execution_block_trace |->
     {"executionBlockTraceBlockHash", "executionBlockTraceBlockNumber",
      "executionBlockTraceNode", "executionBlockTraceNodeImplementation",
      "executionBlockTraceNodeVersion"},
   execution_bad_block |->
     {"executionBadBlockBlockHash", "executionBadBlockBlockNumber", "executionBadBlockNode",
      "executionBadBlockNodeImplementation", "executionBadBlockNodeVersion"}]

\* A selector chooses one item: by its id, or from a search by a number (slot
\* or block number) and a root (or hash).  Its kinds are those it looks in.
StateSelector ==
  [id |-> "beaconStateSelectorId", number |-> "beaconStateSelectorSlot",
   root |-> "beaconStateSelectorStateRoot", kinds |-> {"beacon_state"}]
BlockSelector ==
  [id |-> "beaconBlockSelectorId", number |-> "beaconBlockSelectorSlot",
   root |-> "beaconBlockSelectorBlockRoot", kinds |-> {"beacon_block", "beacon_bad_block"}]
TraceSelector1 ==
  [id |-> "executionBlockTraceSelectorId1",
   number |-> "executionBlockTraceSelectorBlockNumber1",
   root |-> "executionBlockTraceSelectorBlockHash1", kinds |-> {"execution_block_trace"}]
TraceSelector2 ==
  [id |-> "executionBlockTraceSelectorId2",
   number |-> "executionBlockTraceSelectorBlockNumber2",
   root |-> "executionBlockTraceSelectorBlockHash2", kinds |-> {"execution_block_trace"}]

\* The selectors of each tool, and the text it takes besides.
SelectorsOf ==
  [go_evm_lab_diff |-> {TraceSelector1, TraceSelector2},
   ncli_state_transition |-> {StateSelector, BlockSelector},
   lcli_state_transition |-> {StateSelector, BlockSelector},
   zcli_state_diff |-> {StateSelector}]
TextsOf ==
  [go_evm_lab_diff |-> {"goEvmLabDiffTx"}, ncli_state_transition |-> {},
   lcli_state_transition |-> {}, zcli_state_diff |-> {"zcliFileName"}]

\* The fields each tool keeps in its address.
ToolFields ==
  [zcli_state_diff |->
     {"zcliFileName", "beaconStateSelectorId", "beaconStateSelectorSlot",
      "beaconStateSelectorStateRoot"},
   ncli_state_transition |->
     {"beaconBlockSelectorId", "beaconBlockSelectorSlot", "beaconBlockSelectorBlockRoot",
      "beaconStateSelectorId", "beaconStateSelectorSlot", "beaconStateSelectorStateRoot"},
   lcli_state_transition |->
     {"beaconBlockSelectorId", "beaconBlockSelectorSlot", "beaconBlockSelectorBlockRoot",
      "beaconStateSelectorId", "beaconStateSelectorSlot", "beaconStateSelectorStateRoot"},
   go_evm_lab_diff |->
     {"goEvmLabDiffTx", "executionBlockTraceSelectorId1",
      "executionBlockTraceSelectorBlockHash1", "executionBlockTraceSelectorBlockNumber1",
      "executionBlockTraceSelectorId2", "executionBlockTraceSelectorBlockHash2",
      "executionBlockTraceSelectorBlockNumber2"}]

WatchedFilters == UNION {FilterFields[k] : k \in Listings}
WatchedTools == UNION {ToolFields[t] : t \in Tools}
Fields == WatchedFilters \cup WatchedTools

\* The fields that loading an address fills (the beaconBlock* filters are not
\* among them, and the fields no page uses are left out).
\* Mutant: the file name of the state diff is forgotten.
ProvidedWithoutFile ==
  (UNION {FilterFields[k] : k \in Listings \ {"beacon_block"}})
  \cup (WatchedTools \ {"zcliFileName"})
ProvidedFields ==
  (UNION {FilterFields[k] : k \in Listings \ {"beacon_block"}}) \cup WatchedTools

-----------------------------------------------------------------------------
NoQuery == [f \in {} |-> ""]

\* What the effect of the filters writes for a page: the listing's fields that
\* hold something, nothing on other pages.
FilterQuery(selection, form) ==
  IF selection \in Listings
  THEN [f \in {g \in FilterFields[selection] : form[g] # ""} |-> form[f]]
  ELSE NoQuery

\* What the effect of the tools writes: the transaction index is always there.
ToolQuery(selection, form) ==
  IF selection \in Tools
  THEN [f \in {g \in ToolFields[selection] : form[g] # "" \/ g = "goEvmLabDiffTx"} |-> form[f]]
  ELSE NoQuery

\* The form of a page that is loaded from an address.
FormOf(query) ==
  [f \in Fields |-> IF f \in ProvidedFields \cap DOMAIN query THEN query[f] ELSE ""]

\* Fields of a form take new values.
With(form, values) ==
  [f \in DOMAIN form |-> IF f \in DOMAIN values THEN values[f] ELSE form[f]]

-----------------------------------------------------------------------------
\* Links from a detail page to the tools.  An item is [kind, id, number, root];
\* "on" is what the click sets in the form, "href" the query of the address.

\* The tools a detail page links to.
LinkedTools ==
  [beacon_state |-> Tools \ {"go_evm_lab_diff"},
   beacon_block |-> Tools \ {"go_evm_lab_diff"},
   beacon_bad_block |-> Tools \ {"go_evm_lab_diff"},
   beacon_bad_blob |-> Tools \ {"go_evm_lab_diff"},
   execution_block_trace |-> {"go_evm_lab_diff"},
   execution_bad_block |-> {}]

BeaconStateLink(tool, item) ==
  IF tool = "zcli_state_diff"
  THEN [on |-> [beaconStateSelectorId |-> item.id],
        href |-> [beaconStateSelectorId |-> item.id]]
  ELSE [on |-> [beaconStateSelectorId |-> item.id, beaconBlockSelectorSlot |-> ""],
        href |-> [beaconStateSelectorId |-> item.id, beaconBlockSelectorSlot |-> item.number]]
BeaconBlockLink(tool, item) ==
  IF tool = "zcli_state_diff"
  THEN [on |-> [beaconStateSelectorId |-> item.id],
        href |-> [beaconStateSelectorId |-> item.id]]
  ELSE [on |-> [beaconBlockSelectorId |-> item.id, beaconStateSelectorSlot |-> ""],
        href |-> [beaconBlockSelectorId |-> item.id, beaconStateSelectorSlot |-> item.number]]
BeaconBadBlockLink(tool, item) ==
  IF tool = "zcli_state_diff"
  THEN [on |-> [beaconStateSelectorId |-> item.id],
        href |-> [beaconStateSelectorId |-> item.id]]
  ELSE [on |-> [beaconBlockSelectorId |-> item.id, beaconStateSelectorSlot |-> item.number],
        href |-> [beaconBlockSelectorId |-> item.id, beaconStateSelectorSlot |-> item.number]]
BeaconBadBlobLink(tool, item) ==
  IF tool = "zcli_state_diff"
  THEN [on |-> [beaconStateSelectorId |-> item.id],
        href |-> [beaconStateSelectorId |-> item.id]]
  ELSE [on |-> [beaconBlockSelectorId |-> item.id, beaconStateSelectorSlot |-> item.number],
        href |-> [beaconBlockSelectorId |-> item.id, beaconStateSelectorSlot |-> item.number]]
ExecutionBlockTraceLink(tool, item) ==
  [on |-> [executionBlockTraceSelectorId1 |-> item.id,
           executionBlockTraceSelectorBlockHash2 |-> item.root],
   href |-> [executionBlockTraceSelectorId1 |-> item.id,
             executionBlockTraceSelectorBlockHash2 |-> item.root]]

Link(tool, item) ==
  CASE item.kind = "beacon_state" -> BeaconStateLink(tool, item)
    [] item.kind = "beacon_block" -> BeaconBlockLink(tool, item)
    [] item.kind = "beacon_bad_block" -> BeaconBadBlockLink(tool, item)
    [] item.kind = "beacon_bad_blob" -> BeaconBadBlobLink(tool, item)
    [] item.kind = "execution_block_trace" -> ExecutionBlockTraceLink(tool, item)

\* The link of a detail page whose item has not arrived: the click sets
\* undefined, the address spells it out.
EmptyLink(tool, kind) ==
  LET link == Link(tool, [kind |-> kind, id |-> "undefined", number |-> "undefined",
                          root |-> "undefined"])
  IN  [on |-> [f \in DOMAIN link.on |-> ""], href |-> link.href]

\* Where the tables' View link and their dialog lead, kind by kind.
TablePaths ==
  [beacon_state |-> "beacon_state", beacon_block |-> "beacon_block",
   beacon_bad_block |-> "beacon_bad_block", beacon_bad_blob |-> "beacon_bad_blob",
   execution_block_trace |-> "execution_block_trace",
   execution_bad_block |-> "execution_bad_block"]
=============================================================================
