----------------------------- MODULE Workbench -----------------------------
(***************************************************************************)
(* The web frontend around its listings: the address bar and its history,  *)
(* the page that is shown, the form all pages share, the tools with their  *)
(* selectors and the command each tool composes (App.tsx, parts/*.tsx,     *)
(* providers/filters.tsx, components/*Selector.tsx, *StateTransition.tsx,  *)
(* ZCLIDiff.tsx, GoEVMLabDiff.tsx, and the links of *Table.tsx, *Id.tsx).  *)
(*                                                                         *)
(* Page, form and address are kept in step by three effects that run after *)
(* a rendering: the selector reads the address, the filters and the tools  *)
(* each write it, and each knows only the fields it is concerned with.     *)
(*                                                                         *)
(* Abstractions.  Effects run in the order of App.tsx before the user acts *)
(* again.  Requests are answered, in any order, and do not fail; a search  *)
(* is answered at once.  There is one network.  The browser's forward      *)
(* button and a text that is still being debounced are left out.           *)
(***************************************************************************)
EXTENDS Pages, Integers

CONSTANTS Items,       \* what the server has: [kind, id, number, root]
          Starts,      \* the addresses a session may start from
          Edits,       \* the ⟨field, text⟩ pairs the user may enter
          MaxSteps,    \* bound on the user's steps
          MaxEntries,  \* bound on the history
          None

ASSUME BoundsAssumption == MaxSteps \in Nat /\ MaxEntries \in Nat \ {0}
ASSUME NoneAssumption == None \notin Selections
ASSUME ItemsAssumption ==
  /\ \A i \in Items : i.kind \in Listings /\ i.id \notin {"", None}
  /\ \A i, j \in Items : i.id = j.id => i = j
ASSUME StartsAssumption ==
  \A s \in Starts :
    /\ s.page \in Selections \cup {None} /\ DOMAIN s.query \subseteq Fields
    /\ s.id # None => \E i \in Items : i.id = s.id /\ i.kind = s.page
ASSUME EditsAssumption == \A e \in Edits : e[1] \in Fields

VARIABLES entries,    \* the history, sequence of [page, id, query], the current one last
          writer,     \* who wrote its address: "user", "filters", "tools" or "back"
          selection,  \* the page that is shown
          asked,      \* the page that is to be shown next
          form,
          due,        \* the effects that are still to run
          answered,   \* the queries that have an answer, ⟨kind, id⟩
          command,    \* the memoised command of the tool: [deps, text]
          steps

vars == <<entries, writer, selection, asked, form, due, answered, command, steps>>

Here == entries[Len(entries)]
Idle == due = {} /\ asked = selection
PageOfPath(page) == IF page = None THEN "beacon_state" ELSE page

-----------------------------------------------------------------------------
\* The tools.

\* The item of a kind with the id a selector holds, once the query is answered.
Found(kind, id, replies) ==
  IF <<kind, id>> \in replies THEN {i \in Items : i.kind = kind /\ i.id = id} ELSE {}

\* The rows of a selector's search; the two trace selectors leave out what the
\* other one has chosen.
Excluded(s, values) ==
  CASE s = TraceSelector1 -> values[TraceSelector2.id]
    [] s = TraceSelector2 -> values[TraceSelector1.id]
    [] OTHER -> ""
Search(s, values) ==
  {i \in Items :
     /\ values[s.id] = "" /\ (values[s.number] # "" \/ values[s.root] # "")
     /\ i.kind \in s.kinds
     /\ values[s.number] \in {"", i.number} /\ values[s.root] \in {"", i.root}
     /\ i.id # Excluded(s, values)}
Selected(s, id) == [f \in {s.id, s.number, s.root} |-> IF f = s.id THEN id ELSE ""]

\* The queries a page observes.
Observed(page, values, id) ==
  IF page \in Listings THEN {<<page, i>> : i \in {id} \ {None}}
  ELSE UNION {{<<k, values[s.id]>> : k \in s.kinds} :
                s \in {t \in SelectorsOf[page] : values[t.id] # ""}}

\* A command stands for the items it downloads, none for the empty text.  What
\* it takes from the server's configuration is left out.
NoCommand == {}
\* Mutant: a bad block is downloaded as a block.
TransitionOfBlocks(values, replies) ==
  LET state == Found("beacon_state", values[StateSelector.id], replies)
      block == Found("beacon_block", values[BlockSelector.id], replies)
      badBlock == Found("beacon_bad_block", values[BlockSelector.id], replies)
  IN  IF state = {} \/ block \cup badBlock = {} THEN NoCommand
      ELSE {<<"beacon_state", i.id>> : i \in state} \cup
           {<<"beacon_block", i.id>> : i \in block \cup badBlock}
TransitionCommand(values, replies) ==
  LET state == Found("beacon_state", values[StateSelector.id], replies)
      block == Found("beacon_block", values[BlockSelector.id], replies)
      badBlock == Found("beacon_bad_block", values[BlockSelector.id], replies)
      blockType == IF badBlock # {} THEN "beacon_bad_block" ELSE "beacon_block"
  IN  IF state = {} \/ block \cup badBlock = {} THEN NoCommand
      ELSE {<<"beacon_state", i.id>> : i \in state} \cup
           {<<blockType, i.id>> : i \in IF block # {} THEN block ELSE badBlock}
DiffCommand(values, replies) ==
  LET state == Found("beacon_state", values[StateSelector.id], replies)
  IN  IF state = {} \/ values["zcliFileName"] = "" THEN NoCommand
      ELSE {<<"beacon_state", i.id>> : i \in state}
TraceCommand(values, replies) ==
  LET trace1 == Found("execution_block_trace", values[TraceSelector1.id], replies)
      trace2 == Found("execution_block_trace", values[TraceSelector2.id], replies)
  IN  IF trace1 = {} \/ trace2 = {} \/ values["goEvmLabDiffTx"] = "" THEN NoCommand
      ELSE {<<"execution_block_trace", i.id>> : i \in trace1 \cup trace2}
Command(page, values, replies) ==
  CASE page = "go_evm_lab_diff" -> TraceCommand(values, replies)
    [] page = "zcli_state_diff" -> DiffCommand(values, replies)
    [] OTHER -> TransitionCommand(values, replies)

\* A command is computed when its page appears, and again when the answer to
\* one of its queries or its text changes.
Replied(sel, values, replies) ==
  {<<k, values[sel.id]>> : k \in {j \in sel.kinds : <<j, values[sel.id]>> \in replies}}
Deps(page, values, replies) ==
  <<page, [sel \in SelectorsOf[page] |-> Replied(sel, values, replies)],
    [f \in TextsOf[page] |-> values[f]]>>
NoMemo == [deps |-> <<>>, text |-> NoCommand]
\* Mutant: the command outlives its page.
MemoOutlivesPage(page, values, replies, old) ==
  IF page \in Listings THEN old
  ELSE [deps |-> Deps(page, values, replies), text |-> Command(page, values, replies)]
Memo(page, values, replies, old) ==
  IF page \in Listings THEN NoMemo
  ELSE IF old.deps = Deps(page, values, replies) THEN old
  ELSE [deps |-> Deps(page, values, replies), text |-> Command(page, values, replies)]

\* The command shows when all its queries are answered.
ShownCommand ==
  IF Observed(selection, form, None) \subseteq answered THEN command.text ELSE NoCommand

-----------------------------------------------------------------------------
\* Renderings.

\* The effects a rendering makes due: the selector's when the path changed, the
\* others' when the page or a field they watch did.
Changed(watched) == \E f \in watched : form'[f] # form[f]
\* Mutant: the page is not among what the effects depend on.
DueUnlessPageChanged(pathChanged) ==
  {e \in {"selector", "filters", "tools"} :
     \/ e = "selector" /\ pathChanged
     \/ e = "filters" /\ Changed(WatchedFilters)
     \/ e = "tools" /\ Changed(WatchedTools)}
DueAfter(pathChanged) ==
  {e \in {"selector", "filters", "tools"} :
     \/ e = "selector" /\ pathChanged
     \/ e = "filters" /\ (selection' # selection \/ Changed(WatchedFilters))
     \/ e = "tools" /\ (selection' # selection \/ Changed(WatchedTools))}

Rerender ==
  /\ due' = DueAfter(Here'.page # Here.page \/ Here'.id # Here.id)
  /\ command' = Memo(selection', form', answered', command)

\* The user pushes an address and sets some fields, in one event.
Push(page, id, query, values) ==
  /\ Len(entries) < MaxEntries
  /\ entries' = Append(entries, [page |-> page, id |-> id, query |-> query])
  /\ writer' = "user"
  /\ form' = With(form, values)
Stay(values) ==
  /\ form' = With(form, values)
  /\ UNCHANGED <<entries, writer>>
NoValues == [f \in {} |-> ""]
Only(field, text) == [f \in {field} |-> text]

\* A document is loaded from the current address.
Load ==
  /\ selection' = PageOfPath(Here'.page)
  /\ asked' = selection'
  /\ form' = FormOf(Here'.query)
  /\ due' = {"selector", "filters", "tools"}
  /\ answered' = {}
  /\ command' = Memo(selection', form', answered', NoMemo)

Write(query, who) ==
  /\ entries' = [entries EXCEPT ![Len(entries)].query = query]
  /\ writer' = who

-----------------------------------------------------------------------------
\* The effects, in the order of their components in App.tsx.

SelectorEffect ==
  /\ "selector" \in due
  /\ due' = due \ {"selector"}
  /\ asked' = PageOfPath(Here.page)
  /\ UNCHANGED <<entries, writer, selection, form, answered, command, steps>>
FilterEffect ==
  /\ "filters" \in due /\ "selector" \notin due
  /\ due' = due \ {"filters"}
  /\ Write(FilterQuery(selection, form), "filters")
  /\ UNCHANGED <<selection, asked, form, answered, command, steps>>
\* Mutant: the address it writes is among what the effects depend on.
ToolEffectRerunsAll ==
  /\ due = {"tools"}
  /\ due' = {"selector", "filters", "tools"}
  /\ Write(ToolQuery(selection, form), "tools")
  /\ UNCHANGED <<selection, asked, form, answered, command, steps>>
ToolEffect ==
  /\ due = {"tools"}
  /\ due' = {}
  /\ Write(ToolQuery(selection, form), "tools")
  /\ UNCHANGED <<selection, asked, form, answered, command, steps>>
\* The page the selector asked for is rendered once all effects have run.
Commit ==
  /\ due = {} /\ asked # selection
  /\ selection' = asked
  /\ UNCHANGED <<entries, writer, asked, form, answered, steps>>
  /\ Rerender

-----------------------------------------------------------------------------
\* The user.

Act == Idle /\ steps < MaxSteps /\ steps' = steps + 1
SamePage == UNCHANGED <<selection, asked, answered>>
OnListing == selection \in Listings /\ Here.id = None
Item(id) == CHOOSE i \in Items : i.id = id

\* A tab, or the logo (None).
OpenTab(page) ==
  /\ Act
  /\ Push(page, None, NoQuery, NoValues) /\ SamePage /\ Rerender
\* The select box of narrow screens changes address and page together.
\* Mutant: only the page.
TabClickKeepsAddress(page) ==
  /\ Act
  /\ page # selection
  /\ Stay(NoValues)
  /\ selection' = page /\ asked' = page /\ UNCHANGED answered
  /\ Rerender
HandleTabClick(page) ==
  /\ Act
  /\ page # selection
  /\ Push(page, None, NoQuery, NoValues)
  /\ selection' = page /\ asked' = page /\ UNCHANGED answered
  /\ Rerender

View(item) ==
  /\ Act
  /\ OnListing /\ item.kind = selection
  /\ Push(TablePaths[selection], item.id, NoQuery, NoValues) /\ SamePage /\ Rerender
Close ==
  /\ Act
  /\ selection \in Listings /\ Here.id # None
  /\ Push(TablePaths[selection], None, NoQuery, NoValues) /\ SamePage /\ Rerender
\* A line of the detail page filters its listing.
HandleSearch(field, text) ==
  /\ Act
  /\ selection \in Listings /\ Here.id # None
  /\ field \in FilterFields[selection]
  /\ Push(selection, None, NoQuery, Only(field, text)) /\ SamePage /\ Rerender

EditFilter(field, text) ==
  /\ Act
  /\ OnListing /\ field \in FilterFields[selection] /\ form[field] # text
  /\ Stay(Only(field, text)) /\ SamePage /\ Rerender
ClearFilters ==
  /\ Act
  /\ OnListing /\ \E f \in FilterFields[selection] : form[f] # ""
  /\ Stay([f \in FilterFields[selection] |-> ""]) /\ SamePage /\ Rerender

\* The links of a detail page to the tools: clicked, they set fields; opened in
\* a new tab, they load their address.  They are there before the item is.
TheLink(tool) ==
  IF <<selection, Here.id>> \in answered THEN Link(tool, Item(Here.id))
  ELSE EmptyLink(tool, selection)
ToolLink(tool) ==
  /\ Act
  /\ selection \in Listings /\ Here.id # None /\ tool \in LinkedTools[selection]
  /\ Push(tool, None, TheLink(tool).href, TheLink(tool).on) /\ SamePage /\ Rerender
OpenToolInTab(tool) ==
  /\ Act
  /\ selection \in Listings /\ Here.id # None /\ tool \in LinkedTools[selection]
  /\ entries' = <<[page |-> tool, id |-> None, query |-> TheLink(tool).href]>>
  /\ writer' = "user"
  /\ Load

EditSelector(s, field, text) ==
  /\ Act
  /\ selection \in Tools /\ s \in SelectorsOf[selection]
  /\ form[s.id] = "" /\ field \in {s.number, s.root} /\ form[field] # text
  /\ Stay(Only(field, text)) /\ SamePage /\ Rerender
Select(s, row) ==
  /\ Act
  /\ selection \in Tools /\ s \in SelectorsOf[selection] /\ row \in Search(s, form)
  /\ Stay(Selected(s, row.id)) /\ SamePage /\ Rerender
ClearSelector(s) ==
  /\ Act
  /\ selection \in Tools /\ s \in SelectorsOf[selection]
  /\ \E f \in {s.id, s.number, s.root} : form[f] # ""
  /\ Stay(Selected(s, "")) /\ SamePage /\ Rerender
EditText(field, text) ==
  /\ Act
  /\ selection \in Tools /\ field \in TextsOf[selection] /\ form[field] # text
  /\ Stay(Only(field, text)) /\ SamePage /\ Rerender
\* The badge of a bad block links to its page; the click also selects the row.
BadBlockLink(row) ==
  /\ Act
  /\ selection \in Tools /\ BlockSelector \in SelectorsOf[selection]
  /\ row \in Search(BlockSelector, form) /\ row.kind = "beacon_bad_block"
  /\ Push("beacon_bad_block", row.id, NoQuery, Selected(BlockSelector, row.id))
  /\ SamePage /\ Rerender

\* From a state transition on to the diff of its result; a bad block's slot is
\* not at hand there.
LetsGo ==
  LET block == Found("beacon_block", form[BlockSelector.id], answered)
      slot == IF block = {} THEN "" ELSE Item(form[BlockSelector.id]).number
  IN  /\ Act
      /\ selection \in {"lcli_state_transition", "ncli_state_transition"}
      /\ ShownCommand # NoCommand
      /\ Push("zcli_state_diff", None,
              [zcliFileName |-> "post",
               beaconStateSelectorSlot |-> IF slot = "" THEN "undefined" ELSE slot],
              [zcliFileName |-> "post", beaconStateSelectorId |-> "",
               beaconStateSelectorSlot |-> slot])
      /\ SamePage /\ Rerender

Reload ==
  /\ Act
  /\ UNCHANGED entries
  /\ writer' = "user"
  /\ Load
Back ==
  /\ Act
  /\ Len(entries) > 1
  /\ entries' = SubSeq(entries, 1, Len(entries) - 1)
  /\ writer' = "back"
  /\ UNCHANGED form /\ SamePage /\ Rerender

-----------------------------------------------------------------------------
\* An answer of the server.
Reply(query) ==
  /\ Idle
  /\ query \in Observed(selection, form, Here.id) \ answered
  /\ answered' = answered \cup {query}
  /\ UNCHANGED <<entries, writer, selection, asked, form, due, steps>>
  /\ command' = Memo(selection, form, answered', command)

Init ==
  /\ \E s \in Starts :
       /\ entries = <<[page |-> s.page, id |-> s.id, query |-> s.query]>>
       /\ selection = PageOfPath(s.page)
       /\ form = FormOf(s.query)
  /\ writer = "user"
  /\ asked = selection
  /\ due = {"selector", "filters", "tools"}
  /\ answered = {}
  /\ command = Memo(selection, form, answered, NoMemo)
  /\ steps = 0

User ==
  \/ \E page \in Selections \cup {None} : OpenTab(page)
  \/ \E page \in Selections : HandleTabClick(page)
  \/ \E item \in Items : View(item)
  \/ Close
  \/ \E e \in Edits : HandleSearch(e[1], e[2]) \/ EditFilter(e[1], e[2]) \/ EditText(e[1], e[2])
  \/ ClearFilters
  \/ \E tool \in Tools : ToolLink(tool) \/ OpenToolInTab(tool)
  \/ \E s \in {StateSelector, BlockSelector, TraceSelector1, TraceSelector2} :
       \/ \E e \in Edits : EditSelector(s, e[1], e[2])
       \/ \E row \in Items : Select(s, row)
       \/ ClearSelector(s)
  \/ \E row \in Items : BadBlockLink(row)
  \/ LetsGo
  \/ Reload
  \/ Back

Effects == SelectorEffect \/ FilterEffect \/ ToolEffect \/ Commit
Next ==
  \/ User
  \/ Effects
  \/ \E query \in Observed(selection, form, Here.id) : Reply(query)

\* Effects run; the user and the server owe nothing.
Spec == Init /\ [][Next]_vars /\ WF_vars(Effects)

-----------------------------------------------------------------------------
\* Properties.

\* Every variable has its type (the one type invariant of the module).
WTypeOK ==
  /\ Len(entries) \in 1..MaxEntries
  /\ \A i \in DOMAIN entries : /\ entries[i].page \in Selections \cup {None}
                               /\ DOMAIN entries[i].query \subseteq Fields
  /\ writer \in {"user", "filters", "tools", "back"}
  /\ selection \in Selections /\ asked \in Selections
  /\ DOMAIN form = Fields
  /\ due \subseteq {"selector", "filters", "tools"}
  /\ command = NoMemo <=> selection \in Listings
  /\ steps \in 0..MaxSteps

\* Once the effects have run, the page that is shown is the one the address
\* names, however the two came to differ: a tab, a link, the back button, the
\* select box, a load; and a detail page is that of an item of its listing
\* (Selector.tsx keeps a copy of what the address says).
PageFollowsPath ==
  Idle =>
    /\ selection = PageOfPath(Here.page)
    /\ Here.id # None => \E i \in Items : i.id = Here.id /\ i.kind = selection

\* Once an effect has written the address, it describes the page that is shown
\* and nothing else: on a tool exactly the tool's fields, on a listing its
\* filters or nothing.  Two effects write the same address, after one another
\* and sometimes for a page that is about to change.
AddressDescribesPage ==
  Idle /\ writer \in {"filters", "tools"} =>
    IF selection \in Tools THEN Here.query = ToolQuery(selection, form)
    ELSE Here.query \in {NoQuery, FilterQuery(selection, form)}

PageFields(page) == IF page \in Listings THEN FilterFields[page] ELSE ToolFields[page]

\* Loading an address an effect has written restores what the page needs (the
\* filters of beacon blocks, which a load does not read, and a listing's
\* address without its filters excepted).
ReloadRestoresPage ==
  [][Reload /\ writer \in {"filters", "tools"} /\ Here.query # NoQuery
     /\ selection # "beacon_block" =>
       /\ selection' = selection
       /\ \A f \in PageFields(selection) : form'[f] = form[f]]_vars

\* The command on the screen downloads just what the selectors hold, each under
\* the kind the server has it as: it is never that of an earlier choice, though
\* it is memoised and the answers it waits for come in any order.
CommandIsOfSelection ==
  ShownCommand # NoCommand =>
    ShownCommand =
      {<<i.kind, i.id>> : i \in {j \in Items : \E s \in SelectorsOf[selection] :
                                  j.id = form[s.id] /\ j.kind \in s.kinds}}

\* The effects come to rest: they write the address they read and ask for the
\* rendering that runs them again.
EffectsSettle == (~Idle) ~> Idle
=============================================================================
