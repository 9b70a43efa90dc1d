--------------------------- MODULE CaptureProofs ---------------------------
(***************************************************************************)
(* What is proved of the capture of states, blocks and traces for every    *)
(* length of the chain and number of reorgs, every configuration, every    *)
(* size of the queues and every mixture of the faults.                     *)
(***************************************************************************)
EXTENDS Capture, SequenceTheorems, TLAPS

\* The type, in the parts that different steps touch.
NodesOK ==
  /\ features \in FeatureSets
  /\ clock \in Slots /\ head \in Slots /\ head <= clock
  /\ forks \in Forks
  /\ chain \in [Slots -> Forks]
  /\ blocks \subseteq 0 .. head

HandlersOK ==
  /\ blockEvents \subseteq BlockHandlers
  /\ traceEvents \subseteq TraceHandlers
  /\ reorgEvents \subseteq ReorgHandlers
  /\ \A e \in reorgEvents : e.step \in {"block", "send"} => e.next <= e.last

QueueOK ==
  /\ queue \in [Kinds -> Seq(Requests)]
  /\ \A k \in Kinds : Len(queue[k]) <= QueueCap

ProcessorsOK ==
  /\ pc \in [Kinds -> {"idle", "root", "list", "fetch", "save", "check", "insert"}]
  /\ req \in [Kinds -> Requests]
  /\ root \in [Kinds -> Forks]
  /\ content \in [Kinds -> Forks \cup {None}]

ServerOK ==
  /\ objects \in [Items -> Forks \cup {None}]
  /\ records \in [Items -> 0 .. 2]
  /\ crashes \in 0 .. MaxCrashes

LEMMA TypeParts ==
  /\ CTypeOK <=> NodesOK /\ HandlersOK /\ QueueOK /\ ProcessorsOK /\ ServerOK
  /\ CTypeOK' <=> NodesOK' /\ HandlersOK' /\ QueueOK' /\ ProcessorsOK' /\ ServerOK'
  BY DEF CTypeOK, NodesOK, HandlersOK, QueueOK, ProcessorsOK, ServerOK

LEMMA InitTypeOK == Init => CTypeOK
<1> SUFFICES ASSUME Init PROVE CTypeOK
  OBVIOUS
<1>1. <<>> \in Seq(Requests) /\ Len(<<>>) = 0
  OBVIOUS
<1>2. 0 \in Slots /\ 0 \in Forks /\ StartSlot \in Slots
  BY CaptureAssumption DEF Slots, Forks
<1> QED
  BY <1>1, <1>2, CaptureAssumption DEF Init, CTypeOK, Requests, NoRequest, Items, Slots, Forks

-----------------------------------------------------------------------------
(* Type correctness, action by action *)

LEMMA SendsTyped ==
  ASSUME QueueOK, NEW k \in Kinds, NEW r \in Requests, Sends(k, r)
  PROVE  QueueOK'
<1>1. CASE k \notin features
  BY <1>1 DEF Sends, QueueOK
<1>2. CASE k \in features
  <2>1. Append(queue[k], r) \in Seq(Requests) /\ Len(Append(queue[k], r)) = Len(queue[k]) + 1
        /\ Len(queue[k]) \in Nat
    BY AppendProperties, LenProperties DEF QueueOK
  <2>2. /\ queue' = [queue EXCEPT ![k] = Append(queue[k], r)]
        /\ Len(queue[k]) < QueueCap
    BY <1>2 DEF Sends
  <2>3. queue' \in [Kinds -> Seq(Requests)]
    BY <2>1, <2>2 DEF QueueOK
  <2>4. Len(Append(queue[k], r)) <= QueueCap
    BY <2>1, <2>2, CaptureAssumption
  <2>5. \A j \in Kinds : queue'[j] = IF j = k THEN Append(queue[k], r) ELSE queue[j]
    BY <2>2 DEF QueueOK
  <2>6. \A j \in Kinds : Len(queue'[j]) <= QueueCap
    BY <2>4, <2>5 DEF QueueOK
  <2> QED
    BY <2>3, <2>6 DEF QueueOK
<1> QED
  BY <1>1, <1>2

LEMMA AnnounceTyped ==
  ASSUME HandlersOK, NEW s \in Slots, NEW f \in Forks, Announce(s, f)
  PROVE  blockEvents' \subseteq BlockHandlers /\ traceEvents' \subseteq TraceHandlers
  BY DEF HandlersOK, Announce, BlockHandlers, TraceHandlers

LEMMA ChainTypeOK ==
  ASSUME CTypeOK, Chain
  PROVE  CTypeOK'
<1> USE DEF handlers, processors, server
<1>0. NodesOK /\ HandlersOK
  BY TypeParts
<1>1. CASE Tick
  <2>1. NodesOK'
    BY <1>0, <1>1, CaptureAssumption DEF Tick, NodesOK, Slots
  <2> QED
    BY <1>1, <2>1, TypeParts DEF Tick, HandlersOK, QueueOK, ProcessorsOK, ServerOK
<1>2. CASE NewBlock
  <2>1. NodesOK'
    BY <1>0, <1>2, CaptureAssumption DEF NewBlock, NodesOK, Slots
  <2>2. HandlersOK'
    BY <1>0, <1>2, AnnounceTyped DEF NewBlock, NodesOK, HandlersOK
  <2> QED
    BY <1>2, <2>1, <2>2, TypeParts DEF NewBlock, QueueOK, ProcessorsOK, ServerOK
<1>3. ASSUME NEW from \in Slots, NEW h \in Slots, NEW bs \in SUBSET Slots, Reorg(from, h, bs)
      PROVE  CTypeOK'
  <2>1. forks + 1 \in Forks
    BY <1>0, <1>3, CaptureAssumption DEF Reorg, NodesOK, Forks
  <2>2. head' = h /\ clock' = clock /\ h <= clock /\ from <= h /\ features' = features
    BY <1>3, CaptureAssumption DEF Reorg, Slots
  <2>5. chain' \in [Slots -> Forks]
    BY <1>0, <1>3, <2>1 DEF Reorg, NodesOK
  <2>6. blocks' \subseteq 0 .. h
    <3>1. blocks' = {s \in blocks : s < from} \cup bs \cup {h}
      BY <1>3 DEF Reorg
    <3>2. {s \in blocks : s < from} \subseteq 0 .. h
      <4>1. blocks \subseteq 0 .. head /\ head \in Int /\ from \in Int /\ h \in Int
        BY <1>0, CaptureAssumption DEF NodesOK, Slots
      <4>2. ASSUME NEW s \in blocks, s < from PROVE s \in 0 .. h
        <5>1. s \in 0 .. head
          BY <4>1, <4>2
        <5> QED
          BY <4>1, <4>2, <5>1, <2>2
      <4> QED
        BY <4>2
    <3>3. bs \subseteq 0 .. h
      BY <1>3, CaptureAssumption DEF Reorg, Slots
    <3>4. h \in 0 .. h
      BY CaptureAssumption DEF Slots
    <3> QED
      BY <3>1, <3>2, <3>3, <3>4
  <2>7. NodesOK'
    BY <1>0, <1>3, <2>1, <2>2, <2>5, <2>6 DEF Reorg, NodesOK
  <2>3. [from |-> from, next |-> from, last |-> -1, fork |-> 0, step |-> "start"]
          \in ReorgHandlers
    BY CaptureAssumption DEF ReorgHandlers, Slots, Forks
  <2>4. HandlersOK'
    BY <1>0, <1>3, <2>1, <2>3, AnnounceTyped DEF Reorg, HandlersOK
  <2> QED
    BY <1>3, <2>4, <2>7, TypeParts DEF Reorg, QueueOK, ProcessorsOK, ServerOK
<1> QED
  BY <1>1, <1>2, <1>3 DEF Chain

LEMMA OnBlockTypeOK ==
  ASSUME CTypeOK, OnBlock
  PROVE  CTypeOK'
<1> USE DEF nodes, handlers, processors, server
<1>0. HandlersOK /\ QueueOK
  BY TypeParts
<1>1. ASSUME NEW e \in blockEvents, OnBlockCheck(e) \/ OnBlockState(e) \/ OnBlockBlock(e)
      PROVE  CTypeOK'
  <2>1. e \in BlockHandlers /\ [slot |-> e.slot, fork |-> 0] \in Requests
    BY <1>0, CaptureAssumption DEF HandlersOK, BlockHandlers, Requests, Forks
  <2>2. HandlersOK'
    BY <1>0, <1>1, <2>1 DEF OnBlockCheck, OnBlockState, OnBlockBlock, HandlersOK, Becomes,
                            BlockHandlers
  <2>3. QueueOK'
    BY <1>0, <1>1, <2>1, SendsTyped DEF OnBlockCheck, OnBlockState, OnBlockBlock, QueueOK, Kinds
  <2> QED
    BY <1>1, <2>2, <2>3, TypeParts
    DEF OnBlockCheck, OnBlockState, OnBlockBlock, NodesOK, ProcessorsOK, ServerOK
<1>2. ASSUME NEW e \in traceEvents, OnBlockTraceCheck(e) \/ OnBlockTraceSend(e)
      PROVE  CTypeOK'
  <2>1. e \in TraceHandlers /\ [slot |-> e.slot, fork |-> e.fork] \in Requests
    BY <1>0 DEF HandlersOK, TraceHandlers, Requests
  <2>2. HandlersOK'
    BY <1>0, <1>2, <2>1 DEF OnBlockTraceCheck, OnBlockTraceSend, HandlersOK, Becomes,
                            TraceHandlers
  <2>3. QueueOK'
    BY <1>0, <1>2, <2>1, SendsTyped DEF OnBlockTraceCheck, OnBlockTraceSend, QueueOK, Kinds
  <2> QED
    BY <1>2, <2>2, <2>3, TypeParts
    DEF OnBlockTraceCheck, OnBlockTraceSend, NodesOK, ProcessorsOK, ServerOK
<1> QED
  BY <1>1, <1>2 DEF OnBlock

LEMMA NowTyped ==
  ASSUME NodesOK
  PROVE  Now \in Slots /\ Now - 1 \in -1 .. MaxSlot
  BY CaptureAssumption DEF NodesOK, Now, Slots

LEMMA OnChainReOrgTypeOK ==
  ASSUME CTypeOK, OnChainReOrg
  PROVE  CTypeOK'
<1> USE DEF nodes, processors, server
<1>0. NodesOK /\ HandlersOK /\ QueueOK
  BY TypeParts
<1>1. PICK e \in reorgEvents :
        ReorgStart(e) \/ ReorgState(e) \/ ReorgBlock(e) \/ ReorgFetch(e) \/ ReorgSend(e)
  BY DEF OnChainReOrg
<1>2. /\ e \in ReorgHandlers
      /\ e.step \in {"block", "send"} => e.next <= e.last
  BY <1>0 DEF HandlersOK
<1>3. /\ UNCHANGED <<features, nodes, blockEvents, traceEvents, processors, server, crashes>>
      /\ \/ reorgEvents' = reorgEvents \ {e}
         \/ \E d \in ReorgHandlers :
              /\ reorgEvents' = (reorgEvents \ {e}) \cup {d}
              /\ d.step \in {"block", "send"} => d.next <= d.last
  <2>1. CASE ReorgStart(e)
    BY <1>0, <1>2, <2>1, NowTyped DEF ReorgStart, ReorgHandlers
  <2>2. CASE ReorgState(e)
    <3>1. e.from \in 0 .. MaxSlot + 1
      BY <1>2, CaptureAssumption DEF ReorgHandlers, Slots
    <3>2. /\ [e EXCEPT !.next = e.next, !.step = "block"] \in ReorgHandlers
          /\ [e EXCEPT !.next = e.from, !.step = "fetch"] \in ReorgHandlers
      BY <1>2, <3>1 DEF ReorgHandlers
    <3>3. /\ e.next <= e.last =>
               [e EXCEPT !.next = e.next, !.step = "block"].next
                 <= [e EXCEPT !.next = e.next, !.step = "block"].last
          /\ [e EXCEPT !.next = e.from, !.step = "fetch"].step = "fetch"
      BY <1>2 DEF ReorgHandlers
    <3> QED
      BY <2>2, <3>2, <3>3 DEF ReorgState, ReorgGoes
  <2>3. CASE ReorgBlock(e)
    <3>1. e.next + 1 \in 0 .. MaxSlot + 1
      BY <1>2, <2>3, CaptureAssumption DEF ReorgBlock, ReorgHandlers, Slots
    <3> QED
      BY <1>2, <2>3, <3>1 DEF ReorgBlock, ReorgGoes, ReorgHandlers
  <2>4. CASE ReorgFetch(e)
    <3>1. 0 .. head \subseteq Slots
      BY <1>0, CaptureAssumption DEF NodesOK, Slots
    <3>2. e.next \in blocks => chain[e.next] \in Forks
      BY <1>0, <3>1 DEF NodesOK
    <3>3. CASE reorgEvents' = reorgEvents \ {e}
      BY <2>4, <3>3 DEF ReorgFetch
    <3>4. CASE /\ e.next <= e.last /\ e.next \in blocks
               /\ reorgEvents' = (reorgEvents \ {e})
                    \cup {[e EXCEPT !.fork = chain[e.next], !.step = "send"]}
      <4> DEFINE d == [e EXCEPT !.fork = chain[e.next], !.step = "send"]
      <4>1. d \in ReorgHandlers /\ d.next <= d.last
        BY <1>2, <3>2, <3>4 DEF ReorgHandlers
      <4> QED
        BY <2>4, <3>4, <4>1 DEF ReorgFetch
    <3> QED
      BY <2>4, <3>3, <3>4 DEF ReorgFetch
  <2>5. CASE ReorgSend(e)
    <3>1. e.next + 1 \in 0 .. MaxSlot + 1
      BY <1>2, <2>5, CaptureAssumption DEF ReorgSend, ReorgHandlers, Slots
    <3> QED
      BY <1>2, <2>5, <3>1 DEF ReorgSend, ReorgGoes, ReorgHandlers
  <2> QED
    BY <1>1, <2>1, <2>2, <2>3, <2>4, <2>5
<1>4. HandlersOK'
  BY <1>0, <1>3 DEF HandlersOK
<1>5. QueueOK'
  <2>1. e.next <= e.last => e.next \in Slots
    BY <1>2, CaptureAssumption DEF ReorgHandlers, Slots
  <2>2. e.next \in Slots =>
          [slot |-> e.next, fork |-> 0] \in Requests /\ [slot |-> e.next, fork |-> e.fork] \in Requests
    BY <1>2, CaptureAssumption DEF ReorgHandlers, Requests, Forks
  <2> QED
    BY <1>0, <1>1, <1>2, <2>1, <2>2, SendsTyped
    DEF ReorgStart, ReorgState, ReorgBlock, ReorgFetch, ReorgSend, QueueOK, Kinds
<1> QED
  BY <1>3, <1>4, <1>5, TypeParts DEF NodesOK, ProcessorsOK, ServerOK

LEMMA ReturnTyped ==
  ASSUME ProcessorsOK, NEW k \in Kinds, Return(k)
  PROVE  /\ ProcessorsOK'
         /\ pc'[k] = "idle"
         /\ \A j \in Kinds \ {k} :
              pc'[j] = pc[j] /\ req'[j] = req[j] /\ root'[j] = root[j] /\ content'[j] = content[j]
<1>1. 0 \in Slots /\ 0 \in Forks
  BY CaptureAssumption DEF Slots, Forks
<1> QED
  BY <1>1 DEF ProcessorsOK, Return, Goto, Requests, NoRequest

LEMMA ItemTyped ==
  ASSUME ProcessorsOK, NEW k \in Kinds
  PROVE  Item(k) \in Items /\ Item(k).kind = k /\ Item(k).fork = root[k]
  BY DEF ProcessorsOK, Item, Items, Requests

LEMMA TakeTypeOK ==
  ASSUME CTypeOK, NEW k \in Kinds, Take(k)
  PROVE  CTypeOK'
<1> USE DEF nodes, handlers, server
<1>0. QueueOK /\ ProcessorsOK
  BY TypeParts
<1>1. /\ Head(queue[k]) \in Requests
      /\ Tail(queue[k]) \in Seq(Requests)
      /\ Len(Tail(queue[k])) <= QueueCap
  <2>1. queue[k] \in Seq(Requests) /\ queue[k] # << >>
    BY <1>0 DEF Take, QueueOK
  <2>2. /\ Head(queue[k]) \in Requests
        /\ Tail(queue[k]) \in Seq(Requests)
        /\ Len(Tail(queue[k])) = Len(queue[k]) - 1
    BY <2>1, HeadTailProperties
  <2>3. Len(queue[k]) \in Nat /\ Len(queue[k]) <= QueueCap
    BY <1>0, <2>1, LenProperties DEF QueueOK
  <2> QED
    BY <2>2, <2>3, CaptureAssumption
<1>2. QueueOK'
  <2>1. queue' = [queue EXCEPT ![k] = Tail(queue[k])]
    BY DEF Take
  <2>2. queue' \in [Kinds -> Seq(Requests)]
    BY <1>0, <1>1, <2>1 DEF QueueOK
  <2>3. \A j \in Kinds : queue'[j] = IF j = k THEN Tail(queue[k]) ELSE queue[j]
    BY <1>0, <2>1 DEF QueueOK
  <2> QED
    BY <1>0, <1>1, <2>2, <2>3 DEF QueueOK
<1>3. ProcessorsOK'
  <2>1. Head(queue[k]).fork \in Forks
    BY <1>1 DEF Requests
  <2> QED
    BY <1>0, <1>1, <2>1 DEF Take, ProcessorsOK, processors, Goto
<1> QED
  BY <1>2, <1>3, TypeParts DEF Take, NodesOK, HandlersOK, ServerOK

LEMMA ChainTyped ==
  ASSUME NodesOK, NEW s \in Slots
  PROVE  chain[s] \in Forks
  BY DEF NodesOK

LEMMA ProcessTypeOK ==
  ASSUME CTypeOK, NEW k \in Kinds, Process(k)
  PROVE  CTypeOK'
<1> USE DEF nodes, handlers, server
<1>0. NodesOK /\ QueueOK /\ ProcessorsOK /\ ServerOK
  BY TypeParts
<1>1. Item(k) \in Items /\ req[k].slot \in Slots /\ root[k] \in Forks
  BY <1>0, ItemTyped DEF ProcessorsOK, Requests
<1>2. CASE Take(k)
  BY <1>2, TakeTypeOK
<1>3. CASE FetchRoot(k)
  <2>1. ProcessorsOK'
    <3>1. chain[req[k].slot] \in Forks
      BY <1>0, <1>1, ChainTyped
    <3> QED
      BY <1>0, <1>3, <3>1, ReturnTyped DEF FetchRoot, ProcessorsOK, Goto
  <2> QED
    BY <1>3, <2>1, TypeParts DEF FetchRoot, NodesOK, HandlersOK, QueueOK, ServerOK
<1>4. CASE List(k)
  <2>1. ProcessorsOK'
    BY <1>0, <1>4, ReturnTyped DEF List, ProcessorsOK, Goto
  <2> QED
    BY <1>4, <2>1, TypeParts DEF List, NodesOK, HandlersOK, QueueOK, ServerOK
<1>5. CASE Fetch(k)
  <2>1. ProcessorsOK'
    <3>1. chain[req[k].slot] \in Forks
      BY <1>0, <1>1, ChainTyped
    <3> QED
      BY <1>0, <1>1, <1>5, <3>1, ReturnTyped DEF Fetch, ProcessorsOK, Goto
  <2> QED
    BY <1>5, <2>1, TypeParts DEF Fetch, NodesOK, HandlersOK, QueueOK, ServerOK
<1>6. CASE Save(k)
  <2>1. ProcessorsOK'
    BY <1>0, <1>6, ReturnTyped DEF Save, ProcessorsOK, Goto
  <2>2. ServerOK'
    BY <1>0, <1>1, <1>6 DEF Save, ServerOK, ProcessorsOK
  <2> QED
    BY <1>6, <2>1, <2>2, TypeParts DEF Save, NodesOK, HandlersOK, QueueOK
<1>7. CASE CheckIndexed(k)
  <2>1. ProcessorsOK'
    BY <1>0, <1>7, ReturnTyped DEF CheckIndexed, ProcessorsOK, Goto
  <2> QED
    BY <1>7, <2>1, TypeParts DEF CheckIndexed, NodesOK, HandlersOK, QueueOK, ServerOK
<1>8. CASE Insert(k)
  <2>1. ProcessorsOK'
    BY <1>0, <1>8, ReturnTyped DEF Insert
  <2>2. ServerOK'
    BY <1>0, <1>1, <1>8 DEF Insert, ServerOK
  <2> QED
    BY <1>8, <2>1, <2>2, TypeParts DEF Insert, NodesOK, HandlersOK, QueueOK
<1>9. CASE Timeout(k)
  <2>1. ProcessorsOK'
    BY <1>0, <1>9, ReturnTyped DEF Timeout
  <2> QED
    BY <1>9, <2>1, TypeParts DEF Timeout, NodesOK, HandlersOK, QueueOK, ServerOK
<1> QED
  BY <1>2, <1>3, <1>4, <1>5, <1>6, <1>7, <1>8, <1>9 DEF Process

LEMMA CrashTypeOK ==
  ASSUME CTypeOK, Crash
  PROVE  CTypeOK'
<1> USE DEF nodes, server
<1>1. <<>> \in Seq(Requests) /\ Len(<<>>) = 0
  OBVIOUS
<1>2. 0 \in Slots /\ 0 \in Forks
  BY CaptureAssumption DEF Slots, Forks
<1>3. QueueOK'
  BY <1>1, CaptureAssumption DEF Crash, QueueOK
<1>4. ProcessorsOK'
  BY <1>2 DEF Crash, ProcessorsOK, Requests, NoRequest
<1>5. ServerOK'
  BY TypeParts, CaptureAssumption DEF Crash, ServerOK
<1> QED
  BY <1>3, <1>4, <1>5, TypeParts DEF Crash, NodesOK, HandlersOK

LEMMA StutterTypeOK == CTypeOK /\ UNCHANGED vars => CTypeOK'
  BY DEF CTypeOK, vars, nodes, handlers, processors, server

LEMMA NextTypeOK == CTypeOK /\ [Next]_vars => CTypeOK'
  BY ChainTypeOK, OnBlockTypeOK, OnChainReOrgTypeOK, ProcessTypeOK, CrashTypeOK, StutterTypeOK
  DEF Next

\* Every variable of the agent, its nodes and the server keeps its type: queues
\* stay within their capacity, the reorg handler's cursor within its loop, and no
\* request names a slot or a fork that does not exist.
THEOREM CaptureTypeCorrect == Spec => []CTypeOK
<1>1. Init => CTypeOK
  BY InitTypeOK
<1>2. CTypeOK /\ [Next]_vars => CTypeOK'
  BY NextTypeOK
<1> QED
  BY <1>1, <1>2, PTL DEF Spec

-----------------------------------------------------------------------------
(* What a processor knows at each of its steps *)

\* It has uploaded what it is about to index; before the insertion of a state or
\* block it has seen that there is no record; what it holds is what it asked for.
KnowsAt(k) ==
  /\ pc[k] \in {"check", "insert"} => objects[Item(k)] # None
  /\ pc[k] = "insert" /\ k # "trace" => records[Item(k)] = 0
  /\ pc[k] = "save" => content[k] # None /\ (~FetchedBySlot(k) => content[k] = root[k])

Processing == \A k \in Kinds : KnowsAt(k)

CaptureInv == CTypeOK /\ Processing /\ RecordHasObject /\ OneBeaconRecord

LEMMA NoneIsNoFork == None \notin Forks
  BY CaptureAssumption DEF Forks

\* Nothing but its own processor touches what a kind's processor relies on.
LEMMA OthersKeep ==
  ASSUME CTypeOK, NEW k \in Kinds, Process(k), NEW j \in Kinds \ {k}
  PROVE  /\ pc'[j] = pc[j] /\ req'[j] = req[j] /\ root'[j] = root[j] /\ content'[j] = content[j]
         /\ objects'[Item(j)] = objects[Item(j)]
         /\ records'[Item(j)] = records[Item(j)]
<1> USE DEF server
<1>0. ProcessorsOK /\ ServerOK
  BY TypeParts
<1>1. Item(k) \in Items /\ Item(j) \in Items /\ Item(k) # Item(j)
  BY <1>0, ItemTyped
<1>2. /\ pc'[j] = pc[j] /\ req'[j] = req[j] /\ root'[j] = root[j] /\ content'[j] = content[j]
  <2>1. CASE Return(k)
    BY <1>0, <2>1, ReturnTyped
  <2>2. CASE /\ \E l \in {"root", "list", "fetch", "save", "check", "insert"} : Goto(k, l)
             /\ UNCHANGED req \/ req' = [req EXCEPT ![k] = Head(queue[k])]
             /\ \/ UNCHANGED root
                \/ root' = [root EXCEPT ![k] = Head(queue[k]).fork]
                \/ root' = [root EXCEPT ![k] = chain[req[k].slot]]
             /\ \/ UNCHANGED content
                \/ \E c \in Forks \cup {None} : content' = [content EXCEPT ![k] = c]
    BY <1>0, <2>2 DEF ProcessorsOK, Goto
  <2>3. CASE Take(k)
    BY <1>0, <2>3 DEF Take, ProcessorsOK, processors, Goto
  <2>4. CASE Fetch(k)
    BY <1>0, <2>1, <2>4 DEF Fetch, ProcessorsOK, Goto
  <2> QED
    BY <2>1, <2>2, <2>3, <2>4 DEF Process, FetchRoot, List, Save, CheckIndexed, Insert, Timeout
<1>3. /\ UNCHANGED objects \/ objects' = [objects EXCEPT ![Item(k)] = content[k]]
      /\ \/ UNCHANGED records
         \/ records' = [records EXCEPT ![Item(k)] = IF @ < 2 THEN @ + 1 ELSE @]
  BY DEF Process, Take, FetchRoot, List, Fetch, Save, CheckIndexed, Insert, Timeout
<1> QED
  BY <1>0, <1>1, <1>2, <1>3 DEF ServerOK

LEMMA OwnStep ==
  ASSUME CaptureInv, NEW k \in Kinds, Process(k)
  PROVE  KnowsAt(k)'
<1> USE DEF server
<1>0. ProcessorsOK /\ ServerOK /\ NodesOK /\ QueueOK
  BY TypeParts DEF CaptureInv
<1>1. Item(k) \in Items /\ req[k].slot \in Slots /\ root[k] \in Forks /\ KnowsAt(k)
  BY <1>0, ItemTyped DEF ProcessorsOK, Requests, CaptureInv, Processing
<1>2. CASE Return(k)
  BY <1>0, <1>2, ReturnTyped DEF KnowsAt
<1>3. CASE Take(k)
  BY <1>0, <1>3 DEF Take, KnowsAt, At, Goto, ProcessorsOK, processors
<1>4. CASE FetchRoot(k) /\ Goto(k, "list")
  BY <1>0, <1>4 DEF KnowsAt, Goto, ProcessorsOK
<1>5. CASE List(k) /\ Goto(k, "fetch")
  BY <1>0, <1>5 DEF KnowsAt, Goto, ProcessorsOK
<1>6. CASE Fetch(k) /\ Goto(k, "save")
  <2>1. chain[req[k].slot] \in Forks
    BY <1>0, <1>1, ChainTyped
  <2>2. /\ pc'[k] = "save" /\ root'[k] = root[k]
        /\ content'[k] = IF FetchedBySlot(k) THEN chain[req[k].slot] ELSE root[k]
    BY <1>0, <1>6, ReturnTyped DEF Fetch, Goto, ProcessorsOK
  <2> QED
    BY <1>1, <2>1, <2>2, NoneIsNoFork DEF KnowsAt, FetchedBySlot
<1>7. CASE Save(k) /\ At(k, "save") /\ Goto(k, IF k = "trace" THEN "insert" ELSE "check")
  <2>1. content[k] # None /\ Item(k)' = Item(k)
    <3>1. pc'[k] # "idle"
      BY <1>0, <1>7 DEF Goto, ProcessorsOK
    <3>2. UNCHANGED <<req, root, content>>
      BY <1>0, <1>7, <3>1, ReturnTyped DEF Save
    <3> QED
      BY <1>1, <1>7, <3>2 DEF KnowsAt, At, Item
  <2>2. objects'[Item(k)] = content[k]
    BY <1>0, <1>1, <1>7 DEF Save, Return, Goto, ProcessorsOK, ServerOK
  <2> QED
    BY <1>0, <1>7, <2>1, <2>2 DEF KnowsAt, Goto, ProcessorsOK
<1>8. CASE CheckIndexed(k) /\ Goto(k, "insert")
  <2>1. objects[Item(k)] # None /\ Item(k)' = Item(k) /\ UNCHANGED <<objects, records>>
        /\ pc'[k] = "insert" /\ records[Item(k)] = 0
    BY <1>0, <1>1, <1>8 DEF KnowsAt, At, CheckIndexed, Return, Goto, ProcessorsOK, Item
  <2> QED
    BY <2>1 DEF KnowsAt
<1> QED
  BY <1>2, <1>3, <1>4, <1>5, <1>6, <1>7, <1>8
  DEF Process, FetchRoot, List, Fetch, Save, CheckIndexed, Insert, Timeout

LEMMA ProcessKeepsRecords ==
  ASSUME CaptureInv, NEW k \in Kinds, Process(k)
  PROVE  RecordHasObject' /\ OneBeaconRecord'
<1> USE DEF server
<1>0. ProcessorsOK /\ ServerOK /\ RecordHasObject /\ OneBeaconRecord
  BY TypeParts DEF CaptureInv
<1>1. Item(k) \in Items /\ Item(k).kind = k /\ KnowsAt(k)
  BY <1>0, ItemTyped DEF CaptureInv, Processing
<1>2. CASE UNCHANGED <<objects, records>>
  BY <1>0, <1>2 DEF RecordHasObject, OneBeaconRecord
<1>3. CASE At(k, "save") /\ objects' = [objects EXCEPT ![Item(k)] = content[k]] /\ UNCHANGED records
  <2>1. content[k] # None
    BY <1>1, <1>3 DEF At, KnowsAt
  <2> QED
    BY <1>0, <1>3, <2>1 DEF ServerOK, RecordHasObject, OneBeaconRecord
<1>4. CASE /\ At(k, "insert") /\ UNCHANGED objects
           /\ records' = [records EXCEPT ![Item(k)] = IF @ < 2 THEN @ + 1 ELSE @]
  <2>1. objects[Item(k)] # None /\ (k # "trace" => records[Item(k)] = 0)
    BY <1>1, <1>4 DEF At, KnowsAt
  <2>2. \A i \in Items : i # Item(k) => records'[i] = records[i]
    BY <1>0, <1>4 DEF ServerOK
  <2>3. k # "trace" => records'[Item(k)] = 1
    BY <1>0, <1>1, <1>4, <2>1 DEF ServerOK
  <2> QED
    BY <1>0, <1>1, <1>4, <2>1, <2>2, <2>3 DEF RecordHasObject, OneBeaconRecord
<1> QED
  BY <1>2, <1>3, <1>4
  DEF Process, Take, FetchRoot, List, Fetch, Save, CheckIndexed, Insert, Timeout

LEMMA CaptureInvNext == CaptureInv /\ [Next]_vars => CaptureInv'
<1> SUFFICES ASSUME CaptureInv, [Next]_vars PROVE CaptureInv'
  OBVIOUS
<1>1. CTypeOK'
  BY NextTypeOK DEF CaptureInv
<1>2. CASE Chain \/ OnBlock \/ OnChainReOrg \/ UNCHANGED vars
  <2>1. UNCHANGED <<processors, server>>
    BY <1>2 DEF Chain, Tick, NewBlock, Reorg, OnBlock, OnBlockCheck, OnBlockState, OnBlockBlock,
                OnBlockTraceCheck, OnBlockTraceSend, OnChainReOrg, ReorgStart, ReorgState,
                ReorgBlock, ReorgFetch, ReorgSend, vars
  <2> QED
    BY <1>1, <2>1 DEF CaptureInv, Processing, KnowsAt, RecordHasObject, OneBeaconRecord, Item,
                      FetchedBySlot, processors, server
<1>3. ASSUME NEW k \in Kinds, Process(k)
      PROVE  CaptureInv'
  <2>1. ASSUME NEW j \in Kinds \ {k} PROVE KnowsAt(j)'
    <3>1. Item(j)' = Item(j)
      BY <1>3, <2>1, OthersKeep DEF CaptureInv, Item
    <3> QED
      BY <1>3, <2>1, <3>1, OthersKeep DEF CaptureInv, Processing, KnowsAt, FetchedBySlot
  <2> QED
    BY <1>1, <1>3, <2>1, OwnStep, ProcessKeepsRecords DEF CaptureInv, Processing
<1>4. CASE Crash
  BY <1>1, <1>4 DEF Crash, CaptureInv, Processing, KnowsAt, RecordHasObject, OneBeaconRecord, server
<1> QED
  BY <1>2, <1>3, <1>4 DEF Next

LEMMA CaptureInvHolds == Spec => []CaptureInv
<1>1. Init => CaptureInv
  BY InitTypeOK DEF Init, CaptureInv, Processing, KnowsAt, RecordHasObject, OneBeaconRecord
<1> QED
  BY <1>1, CaptureInvNext, PTL DEF Spec

\* Whatever fails, times out or dies, and however often the chain reorganises:
\* what the database lists of an agent's captures has been uploaded.
THEOREM RecordsAreStored == Spec => []RecordHasObject
<1>1. CaptureInv => RecordHasObject
  BY DEF CaptureInv
<1> QED
  BY <1>1, CaptureInvHolds, PTL

\* A state or a block of an agent is recorded once, under the same conditions.
THEOREM BeaconRecordsOnce == Spec => []OneBeaconRecord
<1>1. CaptureInv => OneBeaconRecord
  BY DEF CaptureInv
<1> QED
  BY <1>1, CaptureInvHolds, PTL

LEMMA StoredInv ==
  ASSUME ByRoot
  PROVE  CaptureInv /\ StoredUnderItsRoot /\ [Next]_vars => StoredUnderItsRoot'
<1> SUFFICES ASSUME CaptureInv, StoredUnderItsRoot, [Next]_vars PROVE StoredUnderItsRoot'
  OBVIOUS
<1>1. CASE UNCHANGED objects
  BY <1>1 DEF StoredUnderItsRoot
<1>2. ASSUME NEW k \in Kinds, At(k, "save"), objects' = [objects EXCEPT ![Item(k)] = content[k]]
      PROVE  StoredUnderItsRoot'
  <2>1. Item(k) \in Items /\ Item(k).kind = k /\ Item(k).fork = root[k] /\ ServerOK
    BY TypeParts, ItemTyped DEF CaptureInv
  <2>2. k # "block" => content[k] = root[k]
    BY <1>2 DEF CaptureInv, Processing, KnowsAt, At, FetchedBySlot
  <2> QED
    BY <1>2, <2>1, <2>2 DEF StoredUnderItsRoot, ServerOK
<1> QED
  BY <1>1, <1>2
  DEF Next, Chain, Tick, NewBlock, Reorg, OnBlock, OnBlockCheck, OnBlockState, OnBlockBlock,
      OnBlockTraceCheck, OnBlockTraceSend, OnChainReOrg, ReorgStart, ReorgState, ReorgBlock,
      ReorgFetch, ReorgSend, Process, Take, FetchRoot, List, Fetch, Save, CheckIndexed, Insert,
      Timeout, Crash, vars, server

\* Where states are fetched by their root, the data under the root of a state
\* or the hash of a trace is that state's or trace's, through every reorg.
THEOREM DataLiesUnderItsRoot == ASSUME ByRoot PROVE Spec => []StoredUnderItsRoot
<1>1. Init => StoredUnderItsRoot
  BY DEF Init, StoredUnderItsRoot
<1>2. CaptureInv /\ StoredUnderItsRoot /\ [Next]_vars => StoredUnderItsRoot'
  BY StoredInv
<1> QED
  BY <1>1, <1>2, CaptureInvHolds, PTL DEF Spec

-----------------------------------------------------------------------------
(* Traces, which the server inserts without looking *)

\* While its processor is past the List request, a trace has no record; it
\* goes from the upload to the insertion.
TraceUnlisted ==
  /\ pc["trace"] # "check"
  /\ pc["trace"] \in {"fetch", "save", "insert"} => records[Item("trace")] = 0

OneTraceRecord == \A i \in Items : i.kind = "trace" => records[i] <= 1

TraceInv == CTypeOK /\ TraceUnlisted /\ OneTraceRecord

LEMMA TraceStep ==
  ASSUME "list" \notin Faults, TraceInv, Process("trace")
  PROVE  TraceUnlisted' /\ OneTraceRecord'
<1> DEFINE k == "trace"
<1> USE DEF server, TraceInv
<1>0. k \in Kinds /\ ProcessorsOK /\ ServerOK
  BY TypeParts DEF Kinds
<1>1. Item(k) \in Items /\ Item(k).kind = k
  BY <1>0, ItemTyped
<1>2. CASE Insert(k)
  <2>1. records[Item(k)] = 0 /\ Return(k)
    BY <1>2 DEF Insert, At, TraceUnlisted
  <2>2. records' = [records EXCEPT ![Item(k)] = 1] \/ UNCHANGED records
    BY <1>0, <1>1, <1>2, <2>1 DEF Insert, ServerOK
  <2>3. pc'[k] = "idle"
    BY <1>0, <2>1, ReturnTyped
  <2> QED
    BY <1>0, <2>2, <2>3 DEF TraceUnlisted, OneTraceRecord, ServerOK
<1>3. CASE ~Insert(k)
  <2>1. UNCHANGED records
    BY <1>3 DEF Process, Take, FetchRoot, List, Fetch, Save, CheckIndexed, Timeout
  <2>2. TraceUnlisted'
    <3>1. CASE Return(k) \/ Take(k) \/ FetchRoot(k)
      BY <1>0, <3>1, ReturnTyped
      DEF TraceUnlisted, Take, FetchRoot, Goto, At, ProcessorsOK, processors
    <3>2. CASE List(k) /\ records[Item(k)] = 0 /\ UNCHANGED <<req, root>>
      BY <1>0, <2>1, <3>2, ReturnTyped DEF TraceUnlisted, List, Goto, Item, ProcessorsOK
    <3>3. CASE (Fetch(k) \/ Save(k)) /\ UNCHANGED <<req, root>>
      BY <1>0, <2>1, <3>3 DEF TraceUnlisted, Fetch, Save, Return, Goto, At, Item, ProcessorsOK
    <3> QED
      BY <1>3, <3>1, <3>2, <3>3
      DEF Process, List, Fetch, Save, CheckIndexed, Timeout, TraceUnlisted, At
  <2> QED
    BY <2>1, <2>2 DEF OneTraceRecord
<1> QED
  BY <1>2, <1>3

LEMMA TraceInvNext ==
  ASSUME "list" \notin Faults, TraceInv, [Next]_vars
  PROVE  TraceInv'
<1> USE DEF TraceInv
<1>1. CTypeOK'
  BY NextTypeOK
<1>2. CASE Chain \/ OnBlock \/ OnChainReOrg \/ UNCHANGED vars
  <2>1. UNCHANGED <<processors, server>>
    BY <1>2 DEF Chain, Tick, NewBlock, Reorg, OnBlock, OnBlockCheck, OnBlockState, OnBlockBlock,
                OnBlockTraceCheck, OnBlockTraceSend, OnChainReOrg, ReorgStart, ReorgState,
                ReorgBlock, ReorgFetch, ReorgSend, vars
  <2> QED
    BY <1>1, <2>1 DEF TraceUnlisted, OneTraceRecord, Item, processors, server
<1>3. CASE Process("trace")
  BY <1>1, <1>3, TraceStep
<1>4. ASSUME NEW k \in Kinds \ {"trace"}, Process(k)
      PROVE  TraceInv'
  <2>1. /\ pc'["trace"] = pc["trace"] /\ Item("trace")' = Item("trace")
        /\ records'[Item("trace")] = records[Item("trace")]
    BY <1>4, OthersKeep DEF Item, Kinds
  <2>2. \A i \in Items : i.kind = "trace" => records'[i] = records[i]
    <3>1. Item(k) \in Items /\ Item(k).kind = k /\ ServerOK
      BY TypeParts, ItemTyped
    <3>2. \/ UNCHANGED records
          \/ records' = [records EXCEPT ![Item(k)] = IF @ < 2 THEN @ + 1 ELSE @]
      BY <1>4 DEF Process, Take, FetchRoot, List, Fetch, Save, CheckIndexed, Insert, Timeout, server
    <3> QED
      BY <3>1, <3>2 DEF ServerOK
  <2> QED
    BY <1>1, <2>1, <2>2 DEF TraceUnlisted, OneTraceRecord
<1>5. CASE Crash
  BY <1>1, <1>5 DEF Crash, TraceUnlisted, OneTraceRecord, Kinds, server
<1> QED
  BY <1>2, <1>3, <1>4, <1>5 DEF Next

\* A trace is recorded once as well, although CreateExecutionBlockTrace does not
\* look, as long as no List request of the agent fails: one goroutine asks,
\* captures and indexes, so that nothing comes between the answer and the row,
\* whatever else fails, times out or dies (fetchAndIndexExecutionBlockTrace).
THEOREM TracesRecordedOnce ==
  ASSUME "list" \notin Faults
  PROVE  Spec => []OneTraceRecord
<1>1. Init => TraceInv
  BY InitTypeOK DEF Init, TraceInv, TraceUnlisted, OneTraceRecord, Kinds
<1>2. TraceInv /\ [Next]_vars => TraceInv'
  BY TraceInvNext
<1>3. TraceInv => OneTraceRecord
  BY DEF TraceInv
<1> QED
  BY <1>1, <1>2, <1>3, PTL DEF Spec

-----------------------------------------------------------------------------
(* The archive *)

\* The steps of an archive, spelt out for objects and records.
LEMMA ArchiveSteps ==
  ASSUME NEW i \in Items
  PROVE  /\ \A d \in (IF FetchedBySlot(i.kind) THEN Forks ELSE {i.fork}) :
              objects' = [objects EXCEPT ![i] = d] /\ UNCHANGED records => Archive!Next
         /\ /\ objects[i] # None /\ (i.kind # "trace" => records[i] = 0)
            /\ records' = [records EXCEPT ![i] = IF @ < 2 THEN @ + 1 ELSE @]
            /\ UNCHANGED objects
            => Archive!Next
<1>1. Archive!Upload(i) \/ Archive!Record(i) => Archive!Next
  BY DEF Archive!Next
<1> QED
  BY <1>1 DEF Archive!Upload, Archive!Record

\* The store and the database change only by a processor that uploads its item
\* or adds a row for it.
LEMMA NextArchives == CaptureInv /\ [Next]_vars => [Archive!Next]_<<objects, records>>
<1> USE DEF server
<1> SUFFICES ASSUME CaptureInv, [Next]_vars PROVE Archive!Next \/ UNCHANGED server
  OBVIOUS
<1>1. ASSUME NEW k \in Kinds, At(k, "save"), objects' = [objects EXCEPT ![Item(k)] = content[k]],
             UNCHANGED records
      PROVE  Archive!Next
  <2>1. Item(k) \in Items /\ Item(k).kind = k /\ Item(k).fork = root[k] /\ ProcessorsOK
    BY TypeParts, ItemTyped DEF CaptureInv
  <2>2. content[k] \in IF FetchedBySlot(k) THEN Forks ELSE {root[k]}
    BY <1>1, <2>1 DEF CaptureInv, Processing, KnowsAt, At, ProcessorsOK
  <2> QED
    BY <1>1, <2>1, <2>2, ArchiveSteps
<1>2. ASSUME NEW k \in Kinds, At(k, "insert"), UNCHANGED objects,
             records' = [records EXCEPT ![Item(k)] = IF @ < 2 THEN @ + 1 ELSE @]
      PROVE  Archive!Next
  <2>1. Item(k) \in Items /\ Item(k).kind = k
    BY TypeParts, ItemTyped DEF CaptureInv
  <2>2. objects[Item(k)] # None /\ (k # "trace" => records[Item(k)] = 0)
    BY <1>2 DEF CaptureInv, Processing, KnowsAt, At
  <2> QED
    BY <1>2, <2>1, <2>2, ArchiveSteps
<1> QED
  BY <1>1, <1>2
  DEF Next, Chain, Tick, NewBlock, Reorg, OnBlock, OnBlockCheck, OnBlockState, OnBlockBlock,
      OnBlockTraceCheck, OnBlockTraceSend, OnChainReOrg, ReorgStart, ReorgState, ReorgBlock,
      ReorgFetch, ReorgSend, Process, Take, FetchRoot, List, Fetch, Save, CheckIndexed, Insert,
      Timeout, Crash, vars

\* What an agent captures is an archive, for every configuration, history of
\* the chain and pattern of failures: with ArchiveProofs, whatever is listed
\* can be downloaded, is its own item's data where it is fetched by root, and
\* is listed once if it is a state or a block.
THEOREM CaptureRefinesArchive == Spec => ImplementsArchive
<1>1. Init => Archive!Init
  BY DEF Init, Archive!Init
<1>2. CaptureInv /\ [Next]_vars => [Archive!Next]_<<objects, records>>
  BY NextArchives
<1> QED
  BY <1>1, <1>2, CaptureInvHolds, PTL DEF Spec, ImplementsArchive, Archive!Spec
=============================================================================
