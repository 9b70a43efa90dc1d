---------------------------- MODULE MCWorkbench ----------------------------
(* Instances of Workbench: one item of each kind a link can carry, two      *)
(* traces of one block.                                                     *)
EXTENDS Workbench

AnItem(kind, id, number, root) == [kind |-> kind, id |-> id, number |-> number, root |-> root]
OneOfEach ==
  {AnItem("beacon_state", "s", "1", "r"), AnItem("beacon_block", "b", "1", "q"),
   AnItem("beacon_bad_block", "d", "1", "q"), AnItem("beacon_bad_blob", "e", "1", "q"),
   AnItem("execution_block_trace", "t", "1", "h"), AnItem("execution_block_trace", "u", "1", "h")}

AStart(page, query) == [page |-> page, id |-> None, query |-> query]
AllStarts ==
  {AStart(None, NoQuery),
   AStart("beacon_block", [beaconBlockSlot |-> "1"]),
   AStart("execution_block_trace", [executionBlockTraceNode |-> "1"]),
   [page |-> "beacon_bad_blob", id |-> "e", query |-> NoQuery],
   [page |-> "beacon_state", id |-> "s", query |-> NoQuery],
   AStart("lcli_state_transition",
          [beaconStateSelectorId |-> "s", beaconBlockSelectorSlot |-> "1"]),
   AStart("zcli_state_diff", [zcliFileName |-> "f", beaconStateSelectorSlot |-> "1"]),
   AStart("go_evm_lab_diff",
          [goEvmLabDiffTx |-> "0", executionBlockTraceSelectorId1 |-> "t",
           executionBlockTraceSelectorBlockHash2 |-> "h"])}

SomeEdits ==
  {<<"beaconStateSlot", "1">>, <<"beaconBlockSlot", "1">>, <<"executionBlockTraceNode", "1">>,
   <<"beaconStateSelectorSlot", "1">>, <<"beaconBlockSelectorBlockRoot", "q">>,
   <<"executionBlockTraceSelectorBlockHash1", "h">>,
   <<"executionBlockTraceSelectorBlockNumber2", "1">>,
   <<"goEvmLabDiffTx", "0">>, <<"zcliFileName", "f">>}
============================================================================
