-------------------------- MODULE WorkbenchProofs --------------------------
(***************************************************************************)
(* Proofs about Workbench, for every set of items, starting addresses and  *)
(* edits and any number of steps: page, form and address agree once the    *)
(* effects have run, and the command is that of what the selectors hold.   *)
(***************************************************************************)
EXTENDS Workbench, SequenceTheorems, TLAPS

-----------------------------------------------------------------------------
\* The pages' names and fields.

LEMMA PagesApart == Listings \cap Tools = {} /\ Selections = Listings \cup Tools
BY DEF Listings, Tools, Selections

LEMMA FiltersAreFields ==
  \A k \in Listings : FilterFields[k] \subseteq WatchedFilters /\ FilterFields[k] \subseteq Fields
BY DEF WatchedFilters, Fields

LEMMA ToolsAreFields ==
  \A t \in Tools : ToolFields[t] \subseteq WatchedTools /\ ToolFields[t] \subseteq Fields
BY DEF WatchedTools, Fields

LEMMA FieldsApart == WatchedFilters \cap WatchedTools = {}
<1> SUFFICES ASSUME NEW k \in Listings, NEW t \in Tools  PROVE FilterFields[k] \cap ToolFields[t] = {}
  BY DEF WatchedFilters, WatchedTools
<1> QED  BY DEF Listings, Tools, FilterFields, ToolFields

AllSelectors == {StateSelector, BlockSelector, TraceSelector1, TraceSelector2}

LEMMA SelectorFields ==
  \A s \in AllSelectors :
    {s.id, s.number, s.root} \subseteq WatchedTools
<1>1. {"beaconStateSelectorId", "beaconStateSelectorSlot", "beaconStateSelectorStateRoot",
       "beaconBlockSelectorId", "beaconBlockSelectorSlot", "beaconBlockSelectorBlockRoot"}
      \subseteq ToolFields["lcli_state_transition"]
  BY DEF ToolFields
<1>2. {"executionBlockTraceSelectorId1", "executionBlockTraceSelectorBlockNumber1",
       "executionBlockTraceSelectorBlockHash1", "executionBlockTraceSelectorId2",
       "executionBlockTraceSelectorBlockNumber2", "executionBlockTraceSelectorBlockHash2"}
      \subseteq ToolFields["go_evm_lab_diff"]
  BY DEF ToolFields
<1>3. {"lcli_state_transition", "go_evm_lab_diff"} \subseteq Tools
  BY DEF Tools
<1>4. {s.id : s \in AllSelectors} \cup {s.number : s \in AllSelectors}
        \cup {s.root : s \in AllSelectors}
      \subseteq {"beaconStateSelectorId", "beaconStateSelectorSlot", "beaconStateSelectorStateRoot",
       "beaconBlockSelectorId", "beaconBlockSelectorSlot", "beaconBlockSelectorBlockRoot"}
       \cup {"executionBlockTraceSelectorId1", "executionBlockTraceSelectorBlockNumber1",
       "executionBlockTraceSelectorBlockHash1", "executionBlockTraceSelectorId2",
       "executionBlockTraceSelectorBlockNumber2", "executionBlockTraceSelectorBlockHash2"}
  BY DEF AllSelectors, StateSelector, BlockSelector, TraceSelector1, TraceSelector2
<1> QED  BY <1>1, <1>2, <1>3, <1>4, ToolsAreFields

LEMMA TextFields == \A t \in Tools : TextsOf[t] \subseteq ToolFields[t]
BY DEF Tools, TextsOf, ToolFields

LEMMA ToolSelectors == \A t \in Tools : SelectorsOf[t] \subseteq AllSelectors
BY DEF Tools, SelectorsOf, AllSelectors

\* What a link carries are fields of the tools.
LEMMA LinkFields ==
  ASSUME NEW kind \in Listings, NEW tool \in LinkedTools[kind], NEW item, item.kind = kind
  PROVE  /\ tool \in Tools
         /\ DOMAIN Link(tool, item).href \subseteq Fields
         /\ DOMAIN Link(tool, item).on \subseteq WatchedTools
<1>1. tool \in Tools /\ kind # "execution_bad_block"
  BY DEF LinkedTools, Listings, Tools
<1>2. {"beaconStateSelectorId", "beaconStateSelectorSlot", "beaconBlockSelectorId",
       "beaconBlockSelectorSlot", "executionBlockTraceSelectorId1",
       "executionBlockTraceSelectorBlockHash2"} \subseteq WatchedTools
  BY SelectorFields DEF AllSelectors, StateSelector, BlockSelector, TraceSelector1, TraceSelector2
<1>3. /\ DOMAIN Link(tool, item).href \subseteq
           {"beaconStateSelectorId", "beaconStateSelectorSlot", "beaconBlockSelectorId",
            "beaconBlockSelectorSlot", "executionBlockTraceSelectorId1",
            "executionBlockTraceSelectorBlockHash2"}
      /\ DOMAIN Link(tool, item).on \subseteq
           {"beaconStateSelectorId", "beaconStateSelectorSlot", "beaconBlockSelectorId",
            "beaconBlockSelectorSlot", "executionBlockTraceSelectorId1",
            "executionBlockTraceSelectorBlockHash2"}
  BY <1>1 DEF Listings, Link, BeaconStateLink, BeaconBlockLink, BeaconBadBlockLink,
              BeaconBadBlobLink, ExecutionBlockTraceLink
<1>4. WatchedTools \subseteq Fields
  BY DEF Fields
<1> QED  BY <1>1, <1>2, <1>3, <1>4

-----------------------------------------------------------------------------
\* The history.

EntryOK(e) ==
  /\ DOMAIN e = {"page", "id", "query"}
  /\ e.page \in Selections \cup {None} /\ DOMAIN e.query \subseteq Fields
  /\ e.id # None => \E i \in Items : i.id = e.id /\ i.kind = e.page

EntriesOK ==
  /\ \E S : entries \in Seq(S)
  /\ Len(entries) \in 1..MaxEntries
  /\ \A i \in 1..Len(entries) : EntryOK(entries[i])

LEMMA HereOK ==
  ASSUME EntriesOK
  PROVE  EntryOK(Here)
BY DEF EntriesOK, Here

LEMMA PushEntries ==
  ASSUME EntriesOK, NEW page, NEW id, NEW query, NEW values, Push(page, id, query, values),
         page \in Selections \cup {None}, DOMAIN query \subseteq Fields,
         id # None => \E i \in Items : i.id = id /\ i.kind = page
  PROVE  EntriesOK' /\ Here' = [page |-> page, id |-> id, query |-> query]
<1> DEFINE e == [page |-> page, id |-> id, query |-> query]
<1>1. EntryOK(e)
  BY DEF EntryOK
<1>2. PICK S : entries \in Seq(S)
  BY DEF EntriesOK
<1>3. entries' = Append(entries, e) /\ Len(entries) < MaxEntries
  BY DEF Push
<1> HIDE DEF e
<1>4. entries \in Seq(S \cup {e})
  BY <1>2
<1>5. /\ entries' \in Seq(S \cup {e}) /\ Len(entries') = Len(entries) + 1
      /\ \A i \in 1..Len(entries) : entries'[i] = entries[i]
      /\ entries'[Len(entries')] = e
  BY <1>3, <1>4
<1>6. Len(entries') \in 1..MaxEntries
  BY <1>3, <1>5, BoundsAssumption DEF EntriesOK
<1>7. \A i \in 1..Len(entries') : EntryOK(entries'[i])
  <2> SUFFICES ASSUME NEW i \in 1..Len(entries')  PROVE EntryOK(entries'[i])
    OBVIOUS
  <2>1. i \in 1..Len(entries) \/ i = Len(entries) + 1
    BY <1>2, <1>5
  <2> QED  BY <1>1, <1>5, <2>1 DEF EntriesOK
<1>8. Here' = e
  BY <1>5 DEF Here
<1> QED  BY <1>5, <1>6, <1>7, <1>8 DEF EntriesOK, EntryOK, e

LEMMA WriteEntries ==
  ASSUME EntriesOK, NEW query, NEW who, Write(query, who), DOMAIN query \subseteq Fields
  PROVE  /\ EntriesOK'
         /\ Here'.page = Here.page /\ Here'.id = Here.id /\ Here'.query = query
<1> DEFINE n == Len(entries)
           e == [Here EXCEPT !.query = query]
<1>1. PICK S : entries \in Seq(S)
  BY DEF EntriesOK
<1>2. n \in 1..MaxEntries /\ n \in Nat /\ EntryOK(Here) /\ Here = entries[n]
  BY <1>1, HereOK DEF EntriesOK, Here
<1>3. /\ DOMAIN e = {"page", "id", "query"}
      /\ e.page = Here.page /\ e.id = Here.id /\ e.query = query
  BY <1>2 DEF EntryOK
<1>4. entries' = [entries EXCEPT ![n] = e]
  BY <1>2 DEF Write
<1>5. EntryOK(e)
  <2> HIDE DEF e
  <2> QED  BY <1>2, <1>3 DEF EntryOK
<1> HIDE DEF e
<1>6. entries \in Seq(S \cup {e})
  BY <1>1
<1>7. /\ entries' \in Seq(S \cup {e}) /\ Len(entries') = n
      /\ \A i \in 1..n : entries'[i] = IF i = n THEN e ELSE entries[i]
  BY <1>2, <1>4, <1>6
<1>8. Here' = e
  BY <1>2, <1>7 DEF Here
<1>9. \A i \in 1..Len(entries') : EntryOK(entries'[i])
  BY <1>5, <1>7 DEF EntriesOK
<1> QED  BY <1>2, <1>3, <1>7, <1>8, <1>9 DEF EntriesOK, EntryOK

LEMMA BackEntries ==
  ASSUME EntriesOK, Len(entries) > 1, entries' = SubSeq(entries, 1, Len(entries) - 1)
  PROVE  EntriesOK'
<1>1. PICK S : entries \in Seq(S)
  BY DEF EntriesOK
<1>2. /\ entries' \in Seq(S) /\ Len(entries') = Len(entries) - 1
      /\ \A i \in 1..(Len(entries) - 1) : entries'[i] = entries[i]
  BY <1>1
<1>3. Len(entries') \in 1..MaxEntries
  BY <1>1, <1>2, BoundsAssumption DEF EntriesOK
<1>4. \A i \in 1..Len(entries') : EntryOK(entries'[i])
  BY <1>1, <1>2 DEF EntriesOK
<1> QED  BY <1>2, <1>3, <1>4 DEF EntriesOK, EntryOK

LEMMA SingleEntry ==
  ASSUME NEW e, EntryOK(e)
  PROVE  /\ \E S : <<e>> \in Seq(S)
         /\ Len(<<e>>) \in 1..MaxEntries
         /\ \A i \in 1..Len(<<e>>) : EntryOK(<<e>>[i])
         /\ <<e>>[Len(<<e>>)] = e
<1>1. <<e>> \in Seq({e}) /\ Len(<<e>>) = 1 /\ <<e>>[1] = e
  OBVIOUS
<1>2. Len(<<e>>) \in 1..MaxEntries
  BY <1>1, BoundsAssumption
<1>3. \A i \in 1..Len(<<e>>) : EntryOK(<<e>>[i])
  <2> SUFFICES ASSUME NEW i \in 1..Len(<<e>>)  PROVE EntryOK(<<e>>[i])
    OBVIOUS
  <2>1. i = 1
    BY <1>1
  <2> QED  BY <1>1, <2>1
<1> QED  BY <1>1, <1>2, <1>3

-----------------------------------------------------------------------------
\* The command.

\* What a command is made of is among what its memo depends on.
LEMMA DepsDetermineCommand ==
  ASSUME NEW p \in Tools, NEW v, NEW r, NEW q \in Tools, NEW w, NEW t,
         Deps(p, v, r) = Deps(q, w, t)
  PROVE  Command(p, v, r) = Command(q, w, t)
<1>1. /\ p = q
      /\ \A sel \in SelectorsOf[p] : Replied(sel, v, r) = Replied(sel, w, t)
      /\ \A f \in TextsOf[p] : v[f] = w[f]
  <2> DEFINE a == [sel \in SelectorsOf[p] |-> Replied(sel, v, r)]
             b == [sel \in SelectorsOf[q] |-> Replied(sel, w, t)]
             c == [f \in TextsOf[p] |-> v[f]]
             d == [f \in TextsOf[q] |-> w[f]]
  <2>1. p = q /\ a = b /\ c = d
    BY DEF Deps
  <2>2. \A sel \in SelectorsOf[p] : a[sel] = Replied(sel, v, r) /\ b[sel] = Replied(sel, w, t)
    BY <2>1
  <2>3. \A f \in TextsOf[p] : c[f] = v[f] /\ d[f] = w[f]
    BY <2>1
  <2> HIDE DEF a, b, c, d
  <2> QED  BY <2>1, <2>2, <2>3
<1>2. \A sel \in SelectorsOf[p] : \A kind \in sel.kinds :
        Found(kind, v[sel.id], r) = Found(kind, w[sel.id], t)
  <2> SUFFICES ASSUME NEW sel \in SelectorsOf[p], NEW kind \in sel.kinds
               PROVE  Found(kind, v[sel.id], r) = Found(kind, w[sel.id], t)
    OBVIOUS
  <2>1. Replied(sel, v, r) = Replied(sel, w, t)
    BY <1>1
  <2>2. Found(kind, v[sel.id], r) =
          {i \in Items : i.kind = kind /\ <<kind, i.id>> \in Replied(sel, v, r)}
    BY DEF Found, Replied
  <2>3. Found(kind, w[sel.id], t) =
          {i \in Items : i.kind = kind /\ <<kind, i.id>> \in Replied(sel, w, t)}
    BY DEF Found, Replied
  <2> QED  BY <2>1, <2>2, <2>3
<1>3. CASE p = "go_evm_lab_diff"
  <2>1. /\ TraceSelector1 \in SelectorsOf[p] /\ TraceSelector2 \in SelectorsOf[p]
        /\ "execution_block_trace" \in TraceSelector1.kinds
        /\ "execution_block_trace" \in TraceSelector2.kinds
        /\ "goEvmLabDiffTx" \in TextsOf[p]
    BY <1>3 DEF SelectorsOf, TraceSelector1, TraceSelector2, TextsOf
  <2>2. TraceCommand(v, r) = TraceCommand(w, t)
    BY <1>1, <1>2, <2>1 DEF TraceCommand
  <2> QED  BY <1>1, <1>3, <2>2 DEF Command
<1>4. CASE p = "zcli_state_diff"
  <2>1. /\ StateSelector \in SelectorsOf[p] /\ "beacon_state" \in StateSelector.kinds
        /\ "zcliFileName" \in TextsOf[p]
    BY <1>4 DEF SelectorsOf, StateSelector, TextsOf
  <2>2. DiffCommand(v, r) = DiffCommand(w, t)
    BY <1>1, <1>2, <2>1 DEF DiffCommand
  <2> QED  BY <1>1, <1>4, <2>2 DEF Command
<1>5. CASE p \notin {"go_evm_lab_diff", "zcli_state_diff"}
  <2>1. /\ StateSelector \in SelectorsOf[p] /\ "beacon_state" \in StateSelector.kinds
        /\ BlockSelector \in SelectorsOf[p]
        /\ "beacon_block" \in BlockSelector.kinds /\ "beacon_bad_block" \in BlockSelector.kinds
    BY <1>5 DEF Tools, SelectorsOf, StateSelector, BlockSelector
  <2>2. TransitionCommand(v, r) = TransitionCommand(w, t)
    BY <1>1, <1>2, <2>1 DEF TransitionCommand
  <2> QED  BY <1>1, <1>5, <2>2 DEF Command
<1> QED  BY <1>3, <1>4, <1>5

\* A memo is that of some page, form and answers, or empty; renewed, it is
\* that of the page, form and answers it is renewed for.
TrueMemo(page, values, replies) ==
  IF page \in Listings THEN NoMemo
  ELSE [deps |-> Deps(page, values, replies), text |-> Command(page, values, replies)]

LEMMA MemoIsTrue ==
  ASSUME NEW p \in Selections, NEW v, NEW r, NEW q \in Selections, NEW w, NEW t
  PROVE  /\ Memo(p, v, r, TrueMemo(q, w, t)) = TrueMemo(p, v, r)
         /\ Memo(p, v, r, NoMemo) = TrueMemo(p, v, r)
<1>1. p \in Listings \/ p \in Tools
  BY PagesApart
<1>2. Deps(p, v, r) # <<>>
  BY DEF Deps
<1>3. Memo(p, v, r, NoMemo) = TrueMemo(p, v, r)
  <2>1. NoMemo.deps = <<>>
    BY DEF NoMemo
  <2> QED  BY <1>2, <2>1 DEF Memo, TrueMemo
<1>4. CASE q \in Listings
  BY <1>3, <1>4 DEF TrueMemo
<1>5. CASE q \in Tools
  <2> DEFINE old == [deps |-> Deps(q, w, t), text |-> Command(q, w, t)]
  <2>1. TrueMemo(q, w, t) = old
    BY <1>5, PagesApart DEF TrueMemo
  <2>2. old.deps = Deps(q, w, t)
    OBVIOUS
  <2>3. CASE p \in Listings
    BY <1>3, <2>3 DEF Memo, TrueMemo
  <2>4. CASE p \in Tools /\ Deps(q, w, t) = Deps(p, v, r)
    <3>1. Command(q, w, t) = Command(p, v, r)
      BY <1>5, <2>4, DepsDetermineCommand
    <3>2. old = [deps |-> Deps(p, v, r), text |-> Command(p, v, r)]
      BY <2>4, <3>1
    <3>3. TrueMemo(p, v, r) = old
      BY <2>4, <3>2, PagesApart DEF TrueMemo
    <3> HIDE DEF old
    <3>4. Memo(p, v, r, old) = old
      BY <2>2, <2>4, PagesApart DEF Memo
    <3> QED  BY <1>3, <2>1, <3>3, <3>4
  <2>5. CASE p \in Tools /\ Deps(q, w, t) # Deps(p, v, r)
    <3>1. Memo(p, v, r, old) = [deps |-> Deps(p, v, r), text |-> Command(p, v, r)]
      <4> HIDE DEF old
      <4> QED  BY <2>2, <2>5, PagesApart DEF Memo
    <3>2. TrueMemo(p, v, r) = [deps |-> Deps(p, v, r), text |-> Command(p, v, r)]
      BY <2>5, PagesApart DEF TrueMemo
    <3> QED  BY <1>3, <2>1, <3>1, <3>2
  <2> QED  BY <1>1, <1>3, <2>3, <2>4, <2>5
<1> QED  BY <1>3, <1>4, <1>5, PagesApart

-----------------------------------------------------------------------------
\* The inductive invariant.

TypesOK ==
  /\ writer \in {"user", "filters", "tools", "back"}
  /\ selection \in Selections /\ asked \in Selections
  /\ form = [f \in Fields |-> form[f]]
  /\ due \subseteq {"selector", "filters", "tools"}
  /\ steps \in 0..MaxSteps

\* The selector has read the address.
PathOK == "selector" \notin due => asked = PageOfPath(Here.page)

\* What an effect wrote describes the page, unless one of them runs again; when
\* the filters alone do, the tools have nothing to write.
Described ==
  IF selection \in Tools THEN Here.query = ToolQuery(selection, form)
  ELSE Here.query \in {NoQuery, FilterQuery(selection, form)}
WrittenOK ==
  writer \in {"filters", "tools"} /\ "filters" \notin due /\ "tools" \notin due => Described
FiltersOK == "filters" \in due /\ "tools" \notin due => selection \in Listings

MemoOK == command = TrueMemo(selection, form, answered)

WorkbenchInv ==
  EntriesOK /\ TypesOK /\ PathOK /\ WrittenOK /\ FiltersOK /\ MemoOK

LEMMA RerenderKeepsInv ==
  ASSUME TypesOK, MemoOK, EntriesOK', Rerender, NEW values, form' = With(form, values),
         selection' \in Selections, asked' \in Selections,
         writer' \in {"user", "filters", "tools", "back"}, steps' \in 0..MaxSteps,
         Here'.page = Here.page /\ Here'.id = Here.id => asked' = PageOfPath(Here'.page),
         DOMAIN values \cap WatchedFilters # {} => selection \in Listings,
         writer' \in {"filters", "tools"} => Described /\ Here'.query = Here.query
  PROVE  WorkbenchInv'
<1>1. /\ due' = DueAfter(Here'.page # Here.page \/ Here'.id # Here.id)
      /\ command' = Memo(selection', form', answered', command)
  BY DEF Rerender
<1>2. DOMAIN form = Fields
  BY DEF TypesOK
<1>3. /\ form' = [f \in Fields |-> form'[f]]
      /\ \A f \in Fields : f \notin DOMAIN values => form'[f] = form[f]
  BY <1>2 DEF With
<1>4. TypesOK'
  BY <1>1, <1>3 DEF TypesOK, DueAfter
<1>5. PathOK'
  BY <1>1 DEF PathOK, DueAfter
<1>6. WrittenOK'
  <2> SUFFICES ASSUME writer' \in {"filters", "tools"}, "filters" \notin due', "tools" \notin due'
               PROVE  Described'
    BY DEF WrittenOK
  <2>1. selection' = selection /\ \A f \in WatchedFilters \cup WatchedTools : form'[f] = form[f]
    BY <1>1 DEF DueAfter, Changed
  <2>2. form' = form
    <3>1. \A f \in Fields : form'[f] = form[f]
      BY <2>1 DEF Fields
    <3>2. form = [f \in Fields |-> form[f]]
      BY DEF TypesOK
    <3> QED  BY <1>3, <3>1, <3>2
  <2> QED  BY <2>1, <2>2 DEF Described
<1>7. FiltersOK'
  <2> SUFFICES ASSUME "filters" \in due', "tools" \notin due'  PROVE selection' \in Listings
    BY DEF FiltersOK
  <2>1. selection' = selection /\ \E f \in WatchedFilters : form'[f] # form[f]
    BY <1>1 DEF DueAfter, Changed
  <2>2. \E f \in WatchedFilters : f \in DOMAIN values
    BY <1>3, <2>1 DEF Fields
  <2> QED  BY <2>1, <2>2
<1>8. MemoOK'
  <2>1. selection \in Selections
    BY DEF TypesOK
  <2> QED  BY <1>1, <2>1, MemoIsTrue DEF MemoOK
<1> QED  BY <1>4, <1>5, <1>6, <1>7, <1>8 DEF WorkbenchInv

LEMMA IdleAgrees ==
  ASSUME WorkbenchInv, Idle
  PROVE  /\ selection = PageOfPath(Here.page)
         /\ writer \in {"filters", "tools"} => Described
         /\ Here.id # None => \E i \in Items : i.id = Here.id /\ i.kind = selection
<1>1. selection = PageOfPath(Here.page)
  BY DEF Idle, WorkbenchInv, PathOK
<1>2. ASSUME Here.id # None  PROVE \E i \in Items : i.id = Here.id /\ i.kind = selection
  <2>1. PICK i \in Items : i.id = Here.id /\ i.kind = Here.page
    BY <1>2, HereOK DEF WorkbenchInv, EntryOK
  <2>2. Here.page # None
    BY <2>1, ItemsAssumption, NoneAssumption, PagesApart
  <2> QED  BY <1>1, <2>1, <2>2 DEF PageOfPath
<1> QED  BY <1>1, <1>2 DEF Idle, WorkbenchInv, WrittenOK

LEMMA AtRest ==
  ASSUME WorkbenchInv, Act
  PROVE  /\ due = {} /\ asked = selection /\ selection = PageOfPath(Here.page)
         /\ writer \in {"filters", "tools"} => Described
         /\ steps' \in 0..MaxSteps
         /\ Here.id # None => \E i \in Items : i.id = Here.id /\ i.kind = selection
<1>1. Idle /\ due = {} /\ asked = selection /\ steps < MaxSteps /\ steps' = steps + 1
  BY DEF Act, Idle
<1>2. steps' \in 0..MaxSteps
  BY <1>1, BoundsAssumption DEF WorkbenchInv, TypesOK
<1> QED  BY <1>1, <1>2, IdleAgrees

LEMMA StayKeepsInv ==
  ASSUME WorkbenchInv, Act, NEW values, Stay(values), SamePage, Rerender,
         DOMAIN values \cap WatchedFilters # {} => selection \in Listings
  PROVE  WorkbenchInv'
<1>1. /\ entries' = entries /\ writer' = writer /\ form' = With(form, values)
      /\ selection' = selection /\ asked' = asked
  BY DEF Stay, SamePage
<1>2. EntriesOK' /\ Here' = Here
  BY <1>1 DEF WorkbenchInv, EntriesOK, EntryOK, Here
<1>3. asked' = PageOfPath(Here'.page) /\ (writer' \in {"filters", "tools"} => Described)
      /\ steps' \in 0..MaxSteps
  BY <1>1, <1>2, AtRest
<1> QED
  BY <1>1, <1>2, <1>3, RerenderKeepsInv DEF WorkbenchInv, TypesOK

LEMMA PushKeepsInv ==
  ASSUME WorkbenchInv, Act, NEW page, NEW id, NEW query, NEW values,
         Push(page, id, query, values), Rerender,
         page \in Selections \cup {None}, DOMAIN query \subseteq Fields,
         id # None => \E i \in Items : i.id = id /\ i.kind = page,
         SamePage \/ (page \in Selections /\ selection' = page /\ asked' = page),
         DOMAIN values \cap WatchedFilters # {} => selection \in Listings
  PROVE  WorkbenchInv'
<1>1. EntriesOK' /\ Here'.page = page
  <2>1. EntriesOK' /\ Here' = [page |-> page, id |-> id, query |-> query]
    BY PushEntries DEF WorkbenchInv
  <2> QED  BY <2>1
<1>2. writer' = "user" /\ form' = With(form, values)
  BY DEF Push
<1>3. selection' \in Selections /\ asked' \in Selections
  BY DEF SamePage, WorkbenchInv, TypesOK
<1>4. Here'.page = Here.page => asked' = PageOfPath(Here'.page)
  <2>1. CASE SamePage
    BY <2>1, AtRest DEF SamePage
  <2>2. CASE page \in Selections /\ asked' = page
    BY <1>1, <2>2, NoneAssumption DEF PageOfPath
  <2> QED  BY <2>1, <2>2
<1>5. steps' \in 0..MaxSteps
  BY AtRest
<1> QED
  BY <1>1, <1>2, <1>3, <1>4, <1>5, RerenderKeepsInv DEF WorkbenchInv

LEMMA LoadKeepsInv ==
  ASSUME EntriesOK', Load, writer' = "user", steps' \in 0..MaxSteps
  PROVE  WorkbenchInv'
<1>1. /\ selection' = PageOfPath(Here'.page) /\ asked' = selection'
      /\ form' = FormOf(Here'.query) /\ due' = {"selector", "filters", "tools"}
      /\ command' = Memo(selection', form', answered', NoMemo)
  BY DEF Load
<1>2. selection' \in Selections
  <2>1. EntryOK(Here)'
    BY HereOK, PTL
  <2> QED  BY <1>1, <2>1, PagesApart DEF EntryOK, PageOfPath, Listings
<1>3. form' = [f \in Fields |-> form'[f]]
  BY <1>1 DEF FormOf
<1>4. MemoOK'
  BY <1>1, <1>2, MemoIsTrue DEF MemoOK
<1>5. TypesOK'
  BY <1>1, <1>2, <1>3 DEF TypesOK
<1> QED
  BY <1>1, <1>4, <1>5 DEF WorkbenchInv, PathOK, WrittenOK, FiltersOK

LEMMA EffectsKeepInv ==
  ASSUME WorkbenchInv, Effects
  PROVE  WorkbenchInv'
<1> USE DEF WorkbenchInv
<1>1. DOMAIN FilterQuery(selection, form) \subseteq Fields
      /\ DOMAIN ToolQuery(selection, form) \subseteq Fields
  <2>1. DOMAIN NoQuery = {}
    BY DEF NoQuery
  <2>2. selection \in Listings => DOMAIN FilterQuery(selection, form) \subseteq Fields
    BY FiltersAreFields DEF FilterQuery
  <2>3. selection \in Tools => DOMAIN ToolQuery(selection, form) \subseteq Fields
    BY ToolsAreFields DEF ToolQuery
  <2>4. selection \notin Listings => DOMAIN FilterQuery(selection, form) \subseteq Fields
    BY <2>1 DEF FilterQuery
  <2>5. selection \notin Tools => DOMAIN ToolQuery(selection, form) \subseteq Fields
    BY <2>1 DEF ToolQuery
  <2> QED  BY <2>2, <2>3, <2>4, <2>5
<1>2. CASE SelectorEffect
  <2>1. /\ due' = due \ {"selector"} /\ asked' = PageOfPath(Here.page)
        /\ entries' = entries /\ writer' = writer /\ selection' = selection /\ form' = form
        /\ answered' = answered /\ command' = command /\ steps' = steps
    BY <1>2 DEF SelectorEffect
  <2>2. EntriesOK' /\ Here' = Here
    BY <2>1 DEF EntriesOK, EntryOK, Here
  <2>3. asked' \in Selections
    BY <2>1, HereOK, PagesApart DEF EntryOK, PageOfPath, Listings
  <2>4. TypesOK'
    BY <2>1, <2>3 DEF TypesOK
  <2>5. PathOK' /\ WrittenOK' /\ FiltersOK' /\ MemoOK'
    BY <2>1, <2>2 DEF PathOK, WrittenOK, FiltersOK, MemoOK, Described
  <2> QED  BY <2>2, <2>4, <2>5
<1>3. CASE FilterEffect
  <2>1. /\ due' = due \ {"filters"} /\ "selector" \notin due /\ "filters" \in due
        /\ Write(FilterQuery(selection, form), "filters")
        /\ selection' = selection /\ asked' = asked /\ form' = form
        /\ answered' = answered /\ command' = command /\ steps' = steps
    BY <1>3 DEF FilterEffect
  <2>2. /\ EntriesOK' /\ Here'.page = Here.page /\ Here'.query = FilterQuery(selection, form)
        /\ writer' = "filters"
    BY <1>1, <2>1, WriteEntries DEF Write
  <2>3. TypesOK'
    BY <2>1, <2>2 DEF TypesOK
  <2>4. PathOK'
    BY <2>1, <2>2 DEF PathOK
  <2>5. WrittenOK'
    <3> SUFFICES ASSUME "tools" \notin due  PROVE Described'
      BY <2>1 DEF WrittenOK
    <3>1. selection \in Listings
      BY <2>1 DEF FiltersOK
    <3> QED  BY <2>1, <2>2, <3>1, PagesApart DEF Described
  <2>6. FiltersOK' /\ MemoOK'
    BY <2>1 DEF FiltersOK, MemoOK
  <2> QED  BY <2>2, <2>3, <2>4, <2>5, <2>6
<1>4. CASE ToolEffect
  <2>1. /\ due = {"tools"} /\ due' = {}
        /\ Write(ToolQuery(selection, form), "tools")
        /\ selection' = selection /\ asked' = asked /\ form' = form
        /\ answered' = answered /\ command' = command /\ steps' = steps
    BY <1>4 DEF ToolEffect
  <2>2. /\ EntriesOK' /\ Here'.page = Here.page /\ Here'.query = ToolQuery(selection, form)
        /\ writer' = "tools"
    BY <1>1, <2>1, WriteEntries DEF Write
  <2>3. TypesOK'
    BY <2>1, <2>2 DEF TypesOK
  <2>4. PathOK'
    BY <2>1, <2>2 DEF PathOK
  <2>5. Described'
    BY <2>1, <2>2 DEF Described, ToolQuery
  <2>6. WrittenOK' /\ FiltersOK' /\ MemoOK'
    BY <2>1, <2>5 DEF WrittenOK, FiltersOK, MemoOK
  <2> QED  BY <2>2, <2>3, <2>4, <2>6
<1>5. CASE Commit
  <2>1. /\ due = {} /\ selection' = asked
        /\ entries' = entries /\ writer' = writer /\ asked' = asked /\ form' = form
        /\ answered' = answered /\ steps' = steps /\ Rerender
    BY <1>5 DEF Commit
  <2>2. EntriesOK' /\ Here' = Here
    BY <2>1 DEF EntriesOK, EntryOK, Here
  <2>3. form' = With(form, NoValues) /\ DOMAIN NoValues = {}
    <3>1. DOMAIN form = Fields /\ form = [f \in Fields |-> form[f]]
      BY DEF TypesOK
    <3>2. DOMAIN NoValues = {}
      BY DEF NoValues
    <3>3. With(form, NoValues) = [f \in Fields |-> form[f]]
      BY <3>1, <3>2 DEF With
    <3> QED  BY <2>1, <3>1, <3>2, <3>3
  <2>4. writer' \in {"filters", "tools"} => Described
    BY <2>1 DEF WrittenOK
  <2>5. asked' = PageOfPath(Here'.page)
    BY <2>1, <2>2 DEF PathOK
  <2> QED
    BY <2>1, <2>2, <2>3, <2>4, <2>5, RerenderKeepsInv DEF TypesOK
<1> QED  BY <1>2, <1>3, <1>4, <1>5 DEF Effects

LEMMA ReplyKeepsInv ==
  ASSUME WorkbenchInv, NEW query, Reply(query)
  PROVE  WorkbenchInv'
<1>1. /\ entries' = entries /\ writer' = writer /\ selection' = selection /\ asked' = asked
      /\ form' = form /\ due' = due /\ steps' = steps
      /\ command' = Memo(selection, form, answered', command)
  BY DEF Reply
<1>2. EntriesOK' /\ Here' = Here
  BY <1>1 DEF WorkbenchInv, EntriesOK, EntryOK, Here
<1>3. MemoOK'
  BY <1>1, MemoIsTrue DEF WorkbenchInv, MemoOK, TypesOK
<1>4. TypesOK' /\ PathOK' /\ WrittenOK' /\ FiltersOK'
  BY <1>1, <1>2 DEF WorkbenchInv, TypesOK, PathOK, WrittenOK, FiltersOK, Described
<1> QED  BY <1>2, <1>3, <1>4 DEF WorkbenchInv

LEMMA WorkbenchInvInit == Init => WorkbenchInv
<1> SUFFICES ASSUME Init  PROVE WorkbenchInv
  OBVIOUS
<1>1. PICK s \in Starts :
        /\ entries = <<[page |-> s.page, id |-> s.id, query |-> s.query]>>
        /\ selection = PageOfPath(s.page)
        /\ form = FormOf(s.query)
  BY DEF Init
<1>2. EntryOK([page |-> s.page, id |-> s.id, query |-> s.query])
  BY StartsAssumption DEF EntryOK
<1>3. EntriesOK
  BY <1>1, <1>2, SingleEntry DEF EntriesOK
<1>4. selection \in Selections
  BY <1>1, StartsAssumption, PagesApart DEF PageOfPath, Listings
<1>5. form = [f \in Fields |-> form[f]]
  BY <1>1 DEF FormOf
<1>6. steps \in 0..MaxSteps
  BY BoundsAssumption DEF Init
<1>7. TypesOK /\ PathOK /\ WrittenOK /\ FiltersOK
  BY <1>4, <1>5, <1>6 DEF Init, TypesOK, PathOK, WrittenOK, FiltersOK
<1>8. MemoOK
  BY <1>4, MemoIsTrue DEF Init, MemoOK
<1> QED  BY <1>3, <1>7, <1>8 DEF WorkbenchInv

\* The item a link is about is of the listing's kind.
LEMMA LinkCarriesToolFields ==
  ASSUME WorkbenchInv, Act, selection \in Listings, Here.id # None,
         NEW tool \in LinkedTools[selection]
  PROVE  /\ tool \in Tools
         /\ DOMAIN TheLink(tool).href \subseteq Fields
<1>1. CASE <<selection, Here.id>> \in answered
  <2>1. \E i \in Items : i.id = Here.id /\ i.kind = selection
    BY AtRest
  <2>2. Item(Here.id) \in Items /\ Item(Here.id).id = Here.id
    BY <2>1 DEF Item
  <2>3. Item(Here.id).kind = selection
    BY <2>1, <2>2, ItemsAssumption
  <2> QED  BY <1>1, <2>3, LinkFields DEF TheLink
<1>2. CASE <<selection, Here.id>> \notin answered
  <2> DEFINE item == [kind |-> selection, id |-> "undefined", number |-> "undefined",
                      root |-> "undefined"]
  <2>1. item.kind = selection
    OBVIOUS
  <2>2. TheLink(tool) = EmptyLink(tool, selection)
    BY <1>2 DEF TheLink
  <2>3. EmptyLink(tool, selection).href = Link(tool, item).href
    BY DEF EmptyLink
  <2> HIDE DEF item
  <2>4. tool \in Tools /\ DOMAIN Link(tool, item).href \subseteq Fields
    BY <2>1, LinkFields
  <2> QED  BY <2>2, <2>3, <2>4
<1> QED  BY <1>1, <1>2

LEMMA UserKeepsInv ==
  ASSUME WorkbenchInv, User
  PROVE  WorkbenchInv'
<1>1. /\ DOMAIN NoQuery = {} /\ DOMAIN NoValues = {}
      /\ \A field, text : DOMAIN Only(field, text) = {field}
  BY DEF NoQuery, NoValues, Only
<1>2. \A s, id : DOMAIN Selected(s, id) = {s.id, s.number, s.root}
  BY DEF Selected
<1>3. \A s \in AllSelectors : \A id : DOMAIN Selected(s, id) \cap WatchedFilters = {}
  BY <1>2, SelectorFields, FieldsApart
<1>4. ASSUME NEW page \in Selections \cup {None}, OpenTab(page)  PROVE WorkbenchInv'
  BY <1>1, <1>4, PushKeepsInv DEF OpenTab
<1>5. ASSUME NEW page \in Selections, HandleTabClick(page)  PROVE WorkbenchInv'
  BY <1>1, <1>5, PushKeepsInv DEF HandleTabClick
<1>6. \A k \in Listings : TablePaths[k] = k
  BY DEF Listings, TablePaths
<1>7. ASSUME NEW item \in Items, View(item)  PROVE WorkbenchInv'
  <2>1. /\ Act /\ selection \in Listings /\ item.kind = selection
        /\ Push(selection, item.id, NoQuery, NoValues) /\ SamePage /\ Rerender
    BY <1>6, <1>7 DEF View, OnListing
  <2> QED  BY <1>1, <2>1, PagesApart, PushKeepsInv
<1>8. CASE Close
  <2>1. /\ Act /\ selection \in Listings
        /\ Push(selection, None, NoQuery, NoValues) /\ SamePage /\ Rerender
    BY <1>6, <1>8 DEF Close
  <2> QED  BY <1>1, <2>1, PagesApart, PushKeepsInv
<1>9. ASSUME NEW field, NEW text, HandleSearch(field, text)  PROVE WorkbenchInv'
  <2>1. /\ Act /\ selection \in Listings
        /\ Push(selection, None, NoQuery, Only(field, text)) /\ SamePage /\ Rerender
    BY <1>9 DEF HandleSearch
  <2> QED  BY <1>1, <2>1, PagesApart, PushKeepsInv
<1>10. ASSUME NEW field, NEW text, EditFilter(field, text)  PROVE WorkbenchInv'
  BY <1>10, StayKeepsInv DEF EditFilter, OnListing
<1>11. ASSUME NEW field, NEW text, EditText(field, text)  PROVE WorkbenchInv'
  <2>1. /\ Act /\ selection \in Tools /\ field \in TextsOf[selection]
        /\ Stay(Only(field, text)) /\ SamePage /\ Rerender
    BY <1>11 DEF EditText
  <2>2. field \notin WatchedFilters
    BY <2>1, TextFields, ToolsAreFields, FieldsApart
  <2>3. DOMAIN Only(field, text) \cap WatchedFilters = {}
    BY <2>2 DEF Only
  <2> QED  BY <2>1, <2>3, StayKeepsInv
<1>12. CASE ClearFilters
  BY <1>12, StayKeepsInv DEF ClearFilters, OnListing
<1>13. ASSUME NEW tool \in Tools, ToolLink(tool)  PROVE WorkbenchInv'
  <2>1. /\ Act /\ selection \in Listings /\ Here.id # None /\ tool \in LinkedTools[selection]
        /\ Push(tool, None, TheLink(tool).href, TheLink(tool).on) /\ SamePage /\ Rerender
    BY <1>13 DEF ToolLink
  <2>2. DOMAIN TheLink(tool).href \subseteq Fields
    BY <2>1, LinkCarriesToolFields
  <2> QED  BY <2>1, <2>2, PagesApart, PushKeepsInv
<1>14. ASSUME NEW tool \in Tools, OpenToolInTab(tool)  PROVE WorkbenchInv'
  <2> DEFINE e == [page |-> tool, id |-> None, query |-> TheLink(tool).href]
  <2>1. /\ Act /\ selection \in Listings /\ Here.id # None /\ tool \in LinkedTools[selection]
        /\ entries' = <<e>> /\ writer' = "user" /\ Load
    BY <1>14 DEF OpenToolInTab
  <2>2. DOMAIN TheLink(tool).href \subseteq Fields
    BY <2>1, LinkCarriesToolFields
  <2>3. EntryOK(e)
    BY <2>2, PagesApart DEF EntryOK
  <2> HIDE DEF e
  <2>4. EntriesOK'
    BY <2>1, <2>3, SingleEntry DEF EntriesOK, EntryOK
  <2>5. steps' \in 0..MaxSteps
    BY <2>1, AtRest
  <2> QED  BY <2>1, <2>4, <2>5, LoadKeepsInv
<1>15. ASSUME NEW s \in AllSelectors, NEW field, NEW text, EditSelector(s, field, text)
       PROVE  WorkbenchInv'
  <2>1. /\ Act /\ field \in {s.number, s.root}
        /\ Stay(Only(field, text)) /\ SamePage /\ Rerender
    BY <1>15 DEF EditSelector
  <2>2. field \notin WatchedFilters
    BY <2>1, SelectorFields, FieldsApart
  <2>3. DOMAIN Only(field, text) \cap WatchedFilters = {}
    BY <2>2 DEF Only
  <2> QED  BY <2>1, <2>3, StayKeepsInv
<1>16. ASSUME NEW s \in AllSelectors, NEW row, Select(s, row)  PROVE WorkbenchInv'
  BY <1>3, <1>16, StayKeepsInv DEF Select
<1>17. ASSUME NEW s \in AllSelectors, ClearSelector(s)  PROVE WorkbenchInv'
  BY <1>3, <1>17, StayKeepsInv DEF ClearSelector
<1>18. ASSUME NEW row \in Items, BadBlockLink(row)  PROVE WorkbenchInv'
  <2>1. /\ Act /\ row.kind = "beacon_bad_block"
        /\ Push("beacon_bad_block", row.id, NoQuery, Selected(BlockSelector, row.id))
        /\ SamePage /\ Rerender
    BY <1>18 DEF BadBlockLink
  <2>2. "beacon_bad_block" \in Selections /\ BlockSelector \in AllSelectors
    BY DEF Selections, Listings, AllSelectors
  <2> QED  BY <1>1, <1>3, <2>1, <2>2, PushKeepsInv
<1>19. CASE LetsGo
  <2> DEFINE block == Found("beacon_block", form[BlockSelector.id], answered)
             slot == IF block = {} THEN "" ELSE Item(form[BlockSelector.id]).number
             query == [zcliFileName |-> "post",
                       beaconStateSelectorSlot |-> IF slot = "" THEN "undefined" ELSE slot]
             values == [zcliFileName |-> "post", beaconStateSelectorId |-> "",
                        beaconStateSelectorSlot |-> slot]
  <2>1. Act /\ Push("zcli_state_diff", None, query, values) /\ SamePage /\ Rerender
    BY <1>19 DEF LetsGo
  <2>2. DOMAIN query \cup DOMAIN values =
          {"zcliFileName", "beaconStateSelectorId", "beaconStateSelectorSlot"}
    OBVIOUS
  <2> HIDE DEF query, values
  <2>3. {"zcliFileName", "beaconStateSelectorId", "beaconStateSelectorSlot"}
          \subseteq ToolFields["zcli_state_diff"] /\ "zcli_state_diff" \in Tools
    BY DEF ToolFields, Tools
  <2>4. DOMAIN query \subseteq Fields /\ DOMAIN values \cap WatchedFilters = {}
    BY <2>2, <2>3, ToolsAreFields, FieldsApart
  <2> QED  BY <2>1, <2>3, <2>4, PagesApart, PushKeepsInv
<1>20. CASE Reload
  <2>1. entries' = entries /\ writer' = "user" /\ Load /\ steps' \in 0..MaxSteps
    BY <1>20, AtRest DEF Reload
  <2>2. EntriesOK'
    BY <2>1 DEF WorkbenchInv, EntriesOK, EntryOK
  <2> QED  BY <2>1, <2>2, LoadKeepsInv
<1>21. CASE Back
  <2>1. /\ Act /\ Len(entries) > 1 /\ entries' = SubSeq(entries, 1, Len(entries) - 1)
        /\ writer' = "back" /\ form' = form /\ SamePage /\ Rerender
    BY <1>21 DEF Back
  <2>2. EntriesOK'
    BY <2>1, BackEntries DEF WorkbenchInv
  <2>3. form' = With(form, NoValues)
    <3>1. DOMAIN form = Fields /\ form = [f \in Fields |-> form[f]]
      BY DEF WorkbenchInv, TypesOK
    <3>2. With(form, NoValues) = [f \in Fields |-> form[f]]
      BY <1>1, <3>1 DEF With
    <3> QED  BY <2>1, <3>1, <3>2
  <2>4. Here'.page = Here.page => asked' = PageOfPath(Here'.page)
    BY <2>1, AtRest DEF SamePage
  <2>5. steps' \in 0..MaxSteps /\ selection' \in Selections /\ asked' \in Selections
    BY <2>1, AtRest DEF SamePage, WorkbenchInv, TypesOK
  <2> QED
    BY <1>1, <2>1, <2>2, <2>3, <2>4, <2>5, RerenderKeepsInv DEF WorkbenchInv
<1> QED
  BY <1>4, <1>5, <1>7, <1>8, <1>9, <1>10, <1>11, <1>12, <1>13, <1>14, <1>15, <1>16, <1>17,
     <1>18, <1>19, <1>20, <1>21 DEF User, AllSelectors

LEMMA WorkbenchInvStep == WorkbenchInv /\ [Next]_vars => WorkbenchInv'
<1> SUFFICES ASSUME WorkbenchInv, [Next]_vars  PROVE WorkbenchInv'
  OBVIOUS
<1>1. CASE UNCHANGED vars
  <2>1. EntriesOK' /\ Here' = Here
    BY <1>1 DEF vars, WorkbenchInv, EntriesOK, EntryOK, Here
  <2> QED
    BY <1>1, <2>1
    DEF vars, WorkbenchInv, TypesOK, PathOK, WrittenOK, Described, FiltersOK, MemoOK
<1> QED  BY <1>1, UserKeepsInv, EffectsKeepInv, ReplyKeepsInv DEF Next

LEMMA WorkbenchInvHolds == Spec => []WorkbenchInv
BY WorkbenchInvInit, WorkbenchInvStep, PTL DEF Spec

-----------------------------------------------------------------------------
\* The theorems.

\* Every variable has its type, in every reachable state.
THEOREM WorkbenchTypeCorrect == Spec => []WTypeOK
<1>1. WorkbenchInv => WTypeOK
  <2> SUFFICES ASSUME WorkbenchInv  PROVE WTypeOK
    OBVIOUS
  <2>1. /\ Len(entries) \in 1..MaxEntries
        /\ \A i \in DOMAIN entries : /\ entries[i].page \in Selections \cup {None}
                                     /\ DOMAIN entries[i].query \subseteq Fields
    <3>1. DOMAIN entries = 1..Len(entries)
      BY DEF WorkbenchInv, EntriesOK
    <3> QED  BY <3>1 DEF WorkbenchInv, EntriesOK, EntryOK
  <2>2. /\ writer \in {"user", "filters", "tools", "back"}
        /\ selection \in Selections /\ asked \in Selections
        /\ DOMAIN form = Fields
        /\ due \subseteq {"selector", "filters", "tools"}
        /\ steps \in 0..MaxSteps
    BY DEF WorkbenchInv, TypesOK
  <2>3. command = NoMemo <=> selection \in Listings
    <3>1. NoMemo.deps = <<>>
      BY DEF NoMemo
    <3>2. Deps(selection, form, answered) # <<>>
      BY DEF Deps
    <3> QED  BY <3>1, <3>2 DEF WorkbenchInv, MemoOK, TrueMemo
  <2> QED  BY <2>1, <2>2, <2>3 DEF WTypeOK
<1> QED  BY <1>1, WorkbenchInvHolds, PTL

\* The page that is shown is the one the address names, whenever the effects
\* have run, and a detail page is that of an item of its listing.
THEOREM PageIsOfPath == Spec => []PageFollowsPath
<1>1. WorkbenchInv => PageFollowsPath
  BY IdleAgrees DEF PageFollowsPath
<1> QED  BY <1>1, WorkbenchInvHolds, PTL

\* An address an effect has written describes the page that is shown.
THEOREM AddressIsOfPage == Spec => []AddressDescribesPage
<1>1. WorkbenchInv => AddressDescribesPage
  BY IdleAgrees DEF AddressDescribesPage, Described
<1> QED  BY <1>1, WorkbenchInvHolds, PTL

\* What a load takes from a page's own address is what the page's form held.
LEMMA QueryRestoresForm ==
  ASSUME TypesOK, Described, Here.query # NoQuery, selection # "beacon_block",
         NEW f \in PageFields(selection)
  PROVE  FormOf(Here.query)[f] = form[f]
<1>1. f \in Fields /\ f \in ProvidedFields
  BY FiltersAreFields, ToolsAreFields, PagesApart
  DEF PageFields, ProvidedFields, TypesOK
<1>2. FormOf(Here.query)[f] = IF f \in DOMAIN Here.query THEN Here.query[f] ELSE ""
  BY <1>1 DEF FormOf
<1>3. CASE selection \in Tools
  <2>1. Here.query = ToolQuery(selection, form) /\ f \in ToolFields[selection]
    BY <1>3, PagesApart DEF Described, PageFields
  <2> QED  BY <1>2, <1>3, <2>1 DEF ToolQuery
<1>4. CASE selection \in Listings
  <2>1. Here.query = FilterQuery(selection, form) /\ f \in FilterFields[selection]
    BY <1>4, PagesApart DEF Described, PageFields
  <2> QED  BY <1>2, <1>4, <2>1 DEF FilterQuery
<1> QED  BY <1>3, <1>4, PagesApart DEF TypesOK

\* Loading an address an effect has written restores the page and what its form
\* held, wherever the address says anything (beacon blocks excepted).
THEOREM ReloadKeepsPage == Spec => ReloadRestoresPage
<1> DEFINE Restored ==
      Reload /\ writer \in {"filters", "tools"} /\ Here.query # NoQuery
      /\ selection # "beacon_block" =>
        /\ selection' = selection
        /\ \A f \in PageFields(selection) : form'[f] = form[f]
<1>1. WorkbenchInv => Restored
  <2> SUFFICES ASSUME WorkbenchInv, Reload, writer \in {"filters", "tools"},
                      Here.query # NoQuery, selection # "beacon_block"
               PROVE  /\ selection' = selection
                      /\ \A f \in PageFields(selection) : form'[f] = form[f]
    OBVIOUS
  <2>1. Here' = Here /\ selection' = PageOfPath(Here'.page) /\ form' = FormOf(Here'.query)
    BY DEF Reload, Load, Here
  <2>2. selection = PageOfPath(Here.page) /\ Described
    BY AtRest DEF Reload
  <2> QED  BY <2>1, <2>2, QueryRestoresForm DEF WorkbenchInv
<1>2. WorkbenchInv => [Restored]_vars
  BY <1>1
<1> QED  BY <1>2, WorkbenchInvHolds, PTL DEF ReloadRestoresPage

\* What the selectors of a page hold.
Held(page, values) ==
  {j \in Items : \E s \in SelectorsOf[page] : j.id = values[s.id] /\ j.kind \in s.kinds}

LEMMA CommandOfAnswers ==
  ASSUME NEW page \in Tools, NEW values, NEW replies,
         Observed(page, values, None) \subseteq replies,
         Command(page, values, replies) # NoCommand
  PROVE  Command(page, values, replies) = {<<i.kind, i.id>> : i \in Held(page, values)}
<1>1. \A s \in SelectorsOf[page] : \A kind \in s.kinds :
        Found(kind, values[s.id], replies) = {i \in Items : i.kind = kind /\ i.id = values[s.id]}
  <2> SUFFICES ASSUME NEW s \in SelectorsOf[page], NEW kind \in s.kinds
               PROVE  Found(kind, values[s.id], replies)
                        = {i \in Items : i.kind = kind /\ i.id = values[s.id]}
    OBVIOUS
  <2>1. CASE values[s.id] = ""
    BY <2>1, ItemsAssumption DEF Found
  <2>2. CASE values[s.id] # ""
    <3>1. <<kind, values[s.id]>> \in Observed(page, values, None)
      <4> DEFINE asks(t) == {<<k, values[t.id]>> : k \in t.kinds}
                 choosing == {t \in SelectorsOf[page] : values[t.id] # ""}
      <4>1. Observed(page, values, None) = UNION {asks(t) : t \in choosing}
        BY PagesApart DEF Observed
      <4>2. s \in choosing /\ <<kind, values[s.id]>> \in asks(s)
        BY <2>2
      <4> HIDE DEF asks, choosing
      <4> QED  BY <4>1, <4>2
    <3> QED  BY <3>1 DEF Found
  <2> QED  BY <2>1, <2>2
<1>2. CASE page = "go_evm_lab_diff"
  <2>1. /\ SelectorsOf[page] = {TraceSelector1, TraceSelector2}
        /\ TraceSelector1.kinds = {"execution_block_trace"}
        /\ TraceSelector2.kinds = {"execution_block_trace"}
    BY <1>2 DEF SelectorsOf, TraceSelector1, TraceSelector2
  <2>2. Command(page, values, replies) = TraceCommand(values, replies)
    BY <1>2 DEF Command
  <2> DEFINE first == Found("execution_block_trace", values[TraceSelector1.id], replies)
             second == Found("execution_block_trace", values[TraceSelector2.id], replies)
  <2>3. first \cup second = Held(page, values)
    BY <1>1, <2>1 DEF Held
  <2>4. \A i \in first \cup second : i.kind = "execution_block_trace"
    BY DEF Found
  <2>5. TraceCommand(values, replies) =
          {<<"execution_block_trace", i.id>> : i \in first \cup second}
    BY <2>2 DEF TraceCommand
  <2> HIDE DEF first, second
  <2> QED  BY <2>2, <2>3, <2>4, <2>5
<1>3. CASE page = "zcli_state_diff"
  <2>1. /\ SelectorsOf[page] = {StateSelector} /\ StateSelector.kinds = {"beacon_state"}
    BY <1>3 DEF SelectorsOf, StateSelector
  <2>2. Command(page, values, replies) = DiffCommand(values, replies)
    BY <1>3 DEF Command
  <2> DEFINE state == Found("beacon_state", values[StateSelector.id], replies)
  <2>3. state = Held(page, values)
    BY <1>1, <2>1 DEF Held
  <2>4. \A i \in state : i.kind = "beacon_state"
    BY DEF Found
  <2>5. DiffCommand(values, replies) = {<<"beacon_state", i.id>> : i \in state}
    BY <2>2 DEF DiffCommand
  <2> HIDE DEF state
  <2> QED  BY <2>2, <2>3, <2>4, <2>5
<1>4. CASE page \notin {"go_evm_lab_diff", "zcli_state_diff"}
  <2>1. /\ SelectorsOf[page] = {StateSelector, BlockSelector}
        /\ StateSelector.kinds = {"beacon_state"}
        /\ BlockSelector.kinds = {"beacon_block", "beacon_bad_block"}
    BY <1>4 DEF Tools, SelectorsOf, StateSelector, BlockSelector
  <2>2. Command(page, values, replies) = TransitionCommand(values, replies)
    BY <1>4 DEF Command
  <2> DEFINE state == Found("beacon_state", values[StateSelector.id], replies)
             block == Found("beacon_block", values[BlockSelector.id], replies)
             badBlock == Found("beacon_bad_block", values[BlockSelector.id], replies)
             blockType == IF badBlock # {} THEN "beacon_bad_block" ELSE "beacon_block"
             chosen == IF block # {} THEN block ELSE badBlock
  <2>3. state \cup block \cup badBlock = Held(page, values)
    BY <1>1, <2>1 DEF Held
  <2>4. /\ \A i \in state : i.kind = "beacon_state"
        /\ \A i \in block : i.kind = "beacon_block"
        /\ \A i \in badBlock : i.kind = "beacon_bad_block"
    BY DEF Found
  <2>5. block = {} \/ badBlock = {}
    <3> SUFFICES ASSUME NEW i \in block, NEW j \in badBlock  PROVE FALSE
      OBVIOUS
    <3>1. i \in Items /\ j \in Items /\ i.id = j.id
      BY DEF Found
    <3>2. i = j
      BY <3>1, ItemsAssumption
    <3> QED  BY <2>4, <3>2
  <2>6. /\ state # {} /\ block \cup badBlock # {}
        /\ TransitionCommand(values, replies) =
             {<<"beacon_state", i.id>> : i \in state} \cup {<<blockType, i.id>> : i \in chosen}
    BY <2>2 DEF TransitionCommand
  <2>7. chosen = block \cup badBlock /\ \A i \in chosen : i.kind = blockType
    BY <2>4, <2>5, <2>6
  <2> HIDE DEF state, block, badBlock, blockType, chosen
  <2>8. {<<"beacon_state", i.id>> : i \in state} = {<<i.kind, i.id>> : i \in state}
    BY <2>4
  <2>9. {<<blockType, i.id>> : i \in chosen} = {<<i.kind, i.id>> : i \in chosen}
    BY <2>7
  <2> QED  BY <2>2, <2>3, <2>6, <2>7, <2>8, <2>9
<1> QED  BY <1>2, <1>3, <1>4

\* The command on the screen downloads just what the selectors hold.
THEOREM CommandIsOfChoice == Spec => []CommandIsOfSelection
<1>1. WorkbenchInv => CommandIsOfSelection
  <2> SUFFICES ASSUME WorkbenchInv, ShownCommand # NoCommand
               PROVE  ShownCommand = {<<i.kind, i.id>> : i \in Held(selection, form)}
    BY DEF CommandIsOfSelection, Held
  <2>1. Observed(selection, form, None) \subseteq answered /\ ShownCommand = command.text
    BY DEF ShownCommand
  <2>2. selection \in Tools /\ command.text = Command(selection, form, answered)
    BY <2>1, PagesApart
    DEF WorkbenchInv, TypesOK, MemoOK, TrueMemo, NoMemo
  <2> QED  BY <2>1, <2>2, CommandOfAnswers
<1> QED  BY <1>1, WorkbenchInvHolds, PTL
=============================================================================
