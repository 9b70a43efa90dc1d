------------------------------- MODULE Listing -------------------------------
(***************************************************************************)
(* One listing of the web frontend: the filter form, the table with its    *)
(* sorting and pages, the detail dialog, and the query cache between them  *)
(* and the server (components/*Table.tsx, *Filter.tsx, *Id.tsx,            *)
(* DebouncedInput.tsx, Combobox.tsx, Pagination.tsx, hooks/useQuery.ts).   *)
(*                                                                         *)
(* The user types, picks, clicks and turns pages while requests are on     *)
(* their way; every edit changes the key of the queries the table          *)
(* observes, answers to older keys still arrive, and the rows on the       *)
(* server come and go.                                                     *)
(*                                                                         *)
(* Abstractions.  A row is named by the one column in which it differs     *)
(* from the row "base", so that every filter tells some rows apart.  A     *)
(* text is "" (or null), one of the two values a column takes, a zero or   *)
(* one that no number can be read from; a field may also be undefined.     *)
(* The retries of a failed request are part of its failure.  A session is  *)
(* shorter than the five minutes after which an unobserved answer is       *)
(* dropped.                                                                *)
(***************************************************************************)
EXTENDS ListingKinds, Pagination, FiniteSets, Sequences

CONSTANTS Sessions,      \* records [kind, columns, network, steps, changes, failures]:
                         \* a listing, the columns the user touches, the network at
                         \* the start, and bounds on the user's steps, the changes
                         \* of the server's table and the failed requests
          ItemsPerPage,
          None

ASSUME SessionsAssumption ==
  \A s \in Sessions :
    /\ s.kind \in Kinds /\ s.columns \subseteq Columns(s.kind) /\ s.network \in {"", "a"}
    /\ s.steps \in Nat /\ s.changes \in Nat /\ s.failures \in Nat
ASSUME ItemsPerPageAssumption == ItemsPerPage \in Nat \ {0}

VARIABLES session,   \* the listing that is open, and its bounds
          form,      \* field in play -> value, the state of react-hook-form
          typed,     \* text field -> the text its input shows (innerValue)
          pending,   \* text fields whose debounce is running
          network,   \* the chosen network, "" before the first is known
          sort,      \* [key, direction]
          page,      \* currentPage
          open,      \* the row whose detail dialog is open, or None
          tables,    \* the server's rows, one set per change, the last one current
          cache,     \* query key -> [answer, version, failed]
          fresh,     \* keys whose answer is younger than staleTime
          inflight,  \* query key -> the version of the table when it was sent
          steps, failures

vars == <<session, form, typed, pending, network, sort, page, open, tables,
          cache, fresh, inflight, steps, failures>>

Kind == session.kind
\* The fields that may hold something; the others stay empty.
InPlay == {FieldOf(Kind, c) : c \in session.columns}
Directions == {"ASC", "DESC"}

-----------------------------------------------------------------------------
\* The server.

Nothing == {"", "undefined"}
Text(c) == {"", "a", "b", "x"} \cup {z \in {"0"} : c \in NumericColumns}
RowOrder == <<"base", "network", "node", "beacon_implementation", "execution_implementation",
              "node_version", "epoch", "slot", "index", "state_root", "block_root",
              "block_number", "block_hash">>
Rows == {"base", "network"} \cup session.columns
Value(row, c) == IF row = c THEN "b" ELSE "a"
Version == Len(tables)

\* parseInt gives NaN for a text that is no number, which JSON turns into null.
Sent(ask, text) == IF ask.as = "int" /\ text = "x" THEN "null" ELSE text

\* A request: the value of each column, "" if absent.
Request(asks, values, net) ==
  [c \in DOMAIN asks \cup {"network"} |->
     IF c = "network" THEN net
     ELSE IF asks[c].field \in DOMAIN values /\ values[asks[c].field] \notin Nothing
     THEN Sent(asks[c], values[asks[c].field]) ELSE ""]

\* A text where the server wants a number: the request is refused.
Refused(request) == \E c \in NumericColumns \cap DOMAIN request : request[c] = "x"

\* Which values filter at all: a missing one does not, nor does a bare zero.
Constrains(c, v) == v \notin {"", "null"} /\ ~(c \in BareNumbers /\ v = "0")
Match(row, request) ==
  \A c \in DOMAIN request : Constrains(c, request[c]) => Value(row, c) = request[c]

\* The order of two rows; rows that tie keep the table's own order.
Older(r, s) == \E i, j \in DOMAIN RowOrder : i < j /\ RowOrder[i] = r /\ RowOrder[j] = s
Before(r, s, by) ==
  IF by.key = "fetched_at" THEN IF by.direction = "ASC" THEN Older(r, s) ELSE Older(s, r)
  ELSE IF Value(r, by.key) = Value(s, by.key) THEN Older(r, s)
  ELSE (by.direction = "ASC") <=> (Value(r, by.key) = "a")

\* The rows of a set that the page at an offset holds.
PageOf(rows, by, offset) ==
  {r \in rows : Cardinality({s \in rows : Before(s, r, by)}) \in offset..(offset + ItemsPerPage - 1)}

\* What the API hands on of a list request.
HandedOn(kind, request) == [c \in DOMAIN request \ DroppedByList[kind] |-> request[c]]

\* The answer to a query over the rows of one version of the table.
Answer(key, rows) ==
  CASE key.query = "list" ->
         IF Refused(key.request) THEN None
         ELSE PageOf({r \in rows : Match(r, HandedOn(key.kind, key.request))}, key.sort, key.offset)
    [] key.query = "count" -> Cardinality({r \in rows : Match(r, key.request)})
    [] key.query = "id" -> {r \in rows : r = key.id /\ Match(r, key.request)}

-----------------------------------------------------------------------------
\* The queries a rendering observes (hooks/useQuery.ts): the key of each holds
\* everything its request sends.

ListKey(values, net, by, p) ==
  [query |-> "list", kind |-> Kind, request |-> Request(ListAsks[Kind], values, net),
   sort |-> by, offset |-> (p - 1) * ItemsPerPage]
CountKey(values, net) == [query |-> "count", request |-> Request(CountAsks[Kind], values, net)]
IdKey(id, net) == [query |-> "id", id |-> id, request |-> [c \in {"network"} |-> net]]

Observed(values, net, by, p, id) ==
  {ListKey(values, net, by, p), CountKey(values, net)} \cup {IdKey(i, net) : i \in {id} \ {None}}
ObservedNow == Observed(form, network, sort, page, open)
ObservedNext == Observed(form', network', sort', page', open')

\* Fetching a key: one request per key at a time; a key that has no answer is
\* pending again, one that has keeps it meanwhile.
\* Mutant: nothing is sent while another request is on its way.
FetchOneAtATime(keys) ==
  LET sent == IF inflight = [k \in {} |-> 0] THEN keys ELSE {}
  IN  /\ inflight' = [k \in DOMAIN inflight \cup sent |->
                        IF k \in sent THEN Version ELSE inflight[k]]
      /\ cache' = [k \in {j \in DOMAIN cache : ~(j \in sent /\ cache[j].answer = None)} |->
                     cache[k]]
Fetch(keys) ==
  LET sent == keys \ DOMAIN inflight
  IN  /\ inflight' = [k \in DOMAIN inflight \cup sent |->
                        IF k \in sent THEN Version ELSE inflight[k]]
      /\ cache' = [k \in {j \in DOMAIN cache : ~(j \in sent /\ cache[j].answer = None)} |->
                     cache[k]]

\* A rendering fetches the keys it newly observes unless their answer is fresh.
Render ==
  /\ Fetch({k \in ObservedNext \ ObservedNow : k \notin fresh})
  /\ UNCHANGED <<session, tables, fresh, failures>>

ListData == LET k == ListKey(form, network, sort, page) IN
            IF k \in DOMAIN cache THEN cache[k] ELSE None
CountData == LET k == CountKey(form, network) IN
             IF k \in DOMAIN cache THEN cache[k] ELSE None
IdData == LET k == IdKey(open, network) IN
          IF k \in DOMAIN cache THEN cache[k] ELSE None

Has(data) == data # None /\ data.answer # None
\* The table shows rows unless it is loading or its last request failed.
Shown == IF Has(ListData) /\ ~ListData.failed THEN ListData.answer ELSE {}
TotalPages ==
  IF Has(CountData) THEN (CountData.answer + ItemsPerPage - 1) \div ItemsPerPage ELSE 0

-----------------------------------------------------------------------------
\* The user.  While the dialog is open the page behind it is inert.

Step == steps < session.steps /\ steps' = steps + 1
AtTable == Step /\ open = None

\* Form fields take new values; a text input copies its field's new value,
\* unless that is undefined.  It copies strings only, and all values are: the
\* forms hold strings, and 64-bit numbers arrive from the server as strings.
\* Mutant: an input ignores that its field was emptied.
SetValuesKeepsText(values) ==
  /\ form' = values
  /\ typed' = [f \in DOMAIN typed |->
                 IF values[f] \notin {form[f], "undefined", ""} THEN values[f] ELSE typed[f]]
SetValues(values) ==
  /\ form' = values
  /\ typed' = [f \in DOMAIN typed |->
                 IF values[f] \notin {form[f], "undefined"} THEN values[f] ELSE typed[f]]
SetValue(field, value) ==
  SetValues([f \in DOMAIN form |-> IF f = field THEN value ELSE form[f]])

\* A text shows at once and reaches the form when the debounce fires.
Type(c, text) ==
  /\ AtTable
  /\ text # typed[Inputs[Kind][c]]
  /\ typed' = [typed EXCEPT ![Inputs[Kind][c]] = text]
  /\ pending' = pending \cup {Inputs[Kind][c]}
  /\ UNCHANGED <<form, network, sort, page, open>>
  /\ Render
\* Mutant: a dialog that opens swallows the timer.
FireAtTable(field) ==
  /\ open = None
  /\ field \in pending
  /\ pending' = pending \ {field}
  /\ SetValue(field, typed[field])
  /\ UNCHANGED <<network, sort, page, open, steps>>
  /\ Render
Fire(field) ==
  /\ field \in pending
  /\ pending' = pending \ {field}
  /\ SetValue(field, typed[field])
  /\ UNCHANGED <<network, sort, page, open, steps>>
  /\ Render

\* A combo box changes the form directly.
Pick(c, value) ==
  /\ AtTable
  /\ SetValue(Combos[Kind][c], value)
  /\ UNCHANGED <<pending, network, sort, page, open>>
  /\ Render

\* The button is there when a field of the listing holds something.  A running
\* debounce goes on.
ClearFilters ==
  /\ AtTable
  /\ \E f \in DOMAIN form : form[f] \notin Nothing
  /\ SetValues([f \in DOMAIN form |-> ""])
  /\ UNCHANGED <<pending, network, sort, page, open>>
  /\ Render

\* Mutant: a third click on a header takes the sorting away.
HandleSortCycles(key) ==
  /\ AtTable
  /\ sort' = [key |-> key, direction |-> IF sort = [key |-> key, direction |-> "DESC"]
                                          THEN "ASC" ELSE IF sort.key = key THEN "" ELSE "DESC"]
  /\ UNCHANGED <<form, typed, pending, network, page, open>>
  /\ Render
HandleSort(key) ==
  /\ AtTable
  /\ sort' = [key |-> key, direction |-> IF sort = [key |-> key, direction |-> "DESC"]
                                          THEN "ASC" ELSE "DESC"]
  /\ UNCHANGED <<form, typed, pending, network, page, open>>
  /\ Render

\* The buttons are hidden unless there are two pages; no other action of the
\* user changes the page.
PageChange(p) ==
  /\ AtTable
  /\ TotalPages > 1
  /\ p \in Clicks(page, TotalPages)
  /\ page' = p
  /\ UNCHANGED <<form, typed, pending, network, sort, open>>
  /\ Render

ClickCell(row, c) ==
  /\ AtTable
  /\ row \in Shown
  /\ SetValue(Cells[Kind][c], Value(row, c))
  /\ UNCHANGED <<pending, network, sort, page, open>>
  /\ Render

View(row) ==
  /\ AtTable
  /\ row \in Shown
  /\ open' = row
  /\ UNCHANGED <<form, typed, pending, network, sort, page>>
  /\ Render
Close ==
  /\ Step
  /\ open # None
  /\ open' = None
  /\ UNCHANGED <<form, typed, pending, network, sort, page>>
  /\ Render

\* A line of the detail page filters the listing by its value and closes the
\* dialog.  While the request runs the line can be clicked too and sets
\* undefined; an error or a missing row leaves no lines.
HandleSearch(c) ==
  /\ Step
  /\ open # None
  /\ IdData # None => ~IdData.failed /\ IdData.answer # {}
  /\ SetValue(Lines[Kind][c], IF IdData = None THEN "undefined" ELSE Value(open, c))
  /\ open' = None
  /\ UNCHANGED <<pending, network, sort, page>>
  /\ Render

\* Six quiet seconds; the window regains the focus.
Wait ==
  /\ Step
  /\ fresh # {}
  /\ fresh' = {}
  /\ UNCHANGED <<session, form, typed, pending, network, sort, page, open, tables,
                 cache, inflight, failures>>
Focus ==
  /\ Step
  /\ Fetch({k \in ObservedNow : k \notin fresh})
  /\ inflight' # inflight
  /\ UNCHANGED <<session, form, typed, pending, network, sort, page, open, tables,
                 fresh, failures>>

-----------------------------------------------------------------------------
\* The network, the server and the replies.

\* NetworkSelect takes the first network of the server's list.
SetNetwork ==
  /\ network = ""
  /\ network' = "a"
  /\ UNCHANGED <<form, typed, pending, sort, page, open, steps>>
  /\ Render

Change(row) ==
  /\ Version <= session.changes
  /\ LET rows == tables[Version]
     IN  tables' = Append(tables, IF row \in rows THEN rows \ {row} ELSE rows \cup {row})
  /\ UNCHANGED <<session, form, typed, pending, network, sort, page, open, cache,
                 fresh, inflight, steps, failures>>

Settle(k, entry) ==
  /\ cache' = [j \in DOMAIN cache \cup {k} |-> IF j = k THEN entry ELSE cache[j]]
  /\ inflight' = [j \in DOMAIN inflight \ {k} |-> inflight[j]]
  /\ UNCHANGED <<session, form, typed, pending, network, sort, page, open, tables, steps>>

\* A reply carries what the server found at some moment since the request.
Reply(k, v) ==
  /\ k \in DOMAIN inflight
  /\ v \in inflight[k]..Version
  /\ LET answer == Answer(k, tables[v])
     IN  /\ Settle(k, [answer |-> answer, version |-> v, failed |-> answer = None])
         /\ fresh' = IF answer = None THEN fresh ELSE fresh \cup {k}
  /\ UNCHANGED failures

\* A request that fails leaves an older answer in place.
Fail(k) ==
  /\ failures < session.failures
  /\ failures' = failures + 1
  /\ k \in DOMAIN inflight
  /\ Settle(k, IF k \in DOMAIN cache THEN [cache[k] EXCEPT !.failed = TRUE]
               ELSE [answer |-> None, version |-> Version, failed |-> TRUE])
  /\ UNCHANGED fresh

-----------------------------------------------------------------------------
Init ==
  /\ session \in Sessions
  /\ form = [f \in InPlay |-> ""]
  /\ typed = [f \in InPlay \cap Texts(Kind) |-> ""]
  /\ pending = {}
  /\ network = session.network
  /\ sort = [key |-> "fetched_at", direction |-> "DESC"]
  /\ page = 1
  /\ open = None
  /\ tables = <<Rows>>
  /\ cache = [k \in {} |-> None]
  /\ fresh = {}
  /\ inflight = [k \in ObservedNow |-> 1]
  /\ steps = 0
  /\ failures = 0

User ==
  \/ \E c \in DOMAIN Inputs[Kind] \cap session.columns : \E text \in Text(c) : Type(c, text)
  \/ \E c \in DOMAIN Combos[Kind] \cap session.columns : \E v \in {"", "a", "b"} : Pick(c, v)
  \/ ClearFilters
  \/ \E key \in SortKeys[Kind] \cap (session.columns \cup {"fetched_at"}) : HandleSort(key)
  \/ \E p \in 1..(TotalPages + page) : PageChange(p)
  \/ \E row \in Shown, c \in DOMAIN Cells[Kind] \cap session.columns : ClickCell(row, c)
  \/ \E row \in Shown : View(row)
  \/ Close
  \/ \E c \in DOMAIN Lines[Kind] \cap session.columns : HandleSearch(c)
  \/ Wait
  \/ Focus

Next ==
  \/ User
  \/ \E field \in pending : Fire(field)
  \/ SetNetwork
  \/ \E row \in Rows \ {"base"} : Change(row)
  \/ \E k \in DOMAIN inflight : (\E v \in 1..Version : Reply(k, v)) \/ Fail(k)

\* Timers fire and every request ends; the user owes nothing.
Fairness ==
  /\ WF_vars(\E field \in pending : Fire(field))
  /\ WF_vars(\E k \in DOMAIN inflight : (\E v \in 1..Version : Reply(k, v)) \/ Fail(k))

Spec == Init /\ [][Next]_vars /\ Fairness

-----------------------------------------------------------------------------
\* Properties.

\* Every variable has its type (the one type invariant of the module).
LTypeOK ==
  /\ session \in Sessions
  /\ DOMAIN form = InPlay /\ DOMAIN typed = InPlay \cap Texts(Kind)
  /\ \A c \in session.columns : form[FieldOf(Kind, c)] \in Text(c) \cup {"undefined"}
  /\ \A c \in session.columns \cap DOMAIN Inputs[Kind] : typed[Inputs[Kind][c]] \in Text(c)
  /\ pending \subseteq DOMAIN typed
  /\ network \in {"", "a"}
  /\ sort \in [key : SortKeys[Kind], direction : Directions]
  /\ page >= 1
  /\ open \in Rows \cup {None}
  /\ \A v \in DOMAIN tables : tables[v] \subseteq Rows
  /\ \A k \in DOMAIN cache : cache[k].version \in 1..Version /\ cache[k].failed \in BOOLEAN
  /\ fresh \subseteq DOMAIN cache
  /\ \A k \in DOMAIN inflight : inflight[k] \in 1..Version

\* A row is wanted when it satisfies every filter the user sees in force: the
\* network and each filter that holds a value (in the filter of a number column
\* a text no number can be read from constrains nothing, nor does a zero where
\* the number travels bare).
Wanted(row) ==
  /\ network # "" => Value(row, "network") = network
  /\ \A c \in session.columns :
       \/ form[FieldOf(Kind, c)] \in Nothing
       \/ form[FieldOf(Kind, c)] = "x" /\ c \in NumericColumns
       \/ form[FieldOf(Kind, c)] = "0" /\ c \in BareNumbers
       \/ form[FieldOf(Kind, c)] = Value(row, c)

\* No filter in force is one that the API keeps from the list.
AllHandedOn ==
  \A c \in session.columns \cap DroppedByList[Kind] : form[FieldOf(Kind, c)] \in Nothing

\* The rows in the table are exactly the current page of the wanted rows under
\* the current sort, as one version of the server's table has them: an answer
\* to an older filter, page, sort or network is never shown for the current
\* one, however late it comes, and no filter is lost between the form and the
\* request (the query keys of useQuery.ts, the requests of the tables).  The two
\* filters that the API drops on the execution listings are excepted here and
\* are the subject of ShownRowsAreWanted.
ShownIsTheCurrentPage ==
  Has(ListData) /\ ~ListData.failed /\ AllHandedOn =>
    Shown = PageOf({r \in tables[ListData.version] : Wanted(r)}, sort, (page - 1) * ItemsPerPage)

\* Every row in the table satisfies every filter that its user set: the list
\* requests carry the implementation and the version of the node
\* (tracoor/api/api.proto), and the persistence layer filters by them.
ShownRowsAreWanted ==
  Has(ListData) /\ ~ListData.failed => \A row \in Shown : Wanted(row)

\* The table and its page buttons agree: when list and count were answered from
\* the same version of the table, the page has as many rows as the count leaves
\* for it (the two requests are built by hand, once each, in every table), the
\* two filters that the API drops from the list alone excepted.
CountExplainsPage ==
  Has(ListData) /\ Has(CountData) /\ ListData.version = CountData.version /\ AllHandedOn =>
    LET left == CountData.answer - (page - 1) * ItemsPerPage
    IN  Cardinality(ListData.answer) = IF left <= 0 THEN 0 ELSE Smaller(left, ItemsPerPage)

\* Once its debounce has fired, an input shows the value the form filters by,
\* whatever set the field meanwhile: a cell, the dialog, the clear button
\* (DebouncedInput.tsx keeps a copy of the value, and keeps it when the field
\* becomes undefined).
InputShowsFilter ==
  \A f \in DOMAIN typed \ pending : form[f] # "undefined" => typed[f] = form[f]

\* The table shows its loading rows only while the request is on its way.
LoadingMeansFetching == \A k \in ObservedNow : k \in DOMAIN cache \cup DOMAIN inflight

\* A click on a cell of a row, or on a line of its detail page, sets a filter of
\* this listing that the row itself satisfies: the six tables and detail pages
\* name field and column by hand.
FilterKeepsItsRow ==
  [][\A row \in Rows, c \in session.columns :
       /\ ClickCell(row, c) => Match(row, [d \in {c} |-> form'[FieldOf(Kind, c)]])
                               /\ form'[FieldOf(Kind, c)] = Value(row, c)
       /\ HandleSearch(c) /\ IdData # None => form'[FieldOf(Kind, c)] = Value(open, c)]_vars

\* The page buttons never lead away from the pages there are: a button leads to
\* an existing page or, from a page that is gone, back towards them.
ButtonsLeadBack == [][page' # page => page' <= TotalPages \/ page' < page]_vars

\* When the user stops, the debounces end, and the table shows an answer (or an
\* error) for the filters that the inputs show (an undefined field excepted).
SettlesOnWhatIsTyped ==
  <>[](/\ \A f \in DOMAIN typed : form[f] \in {typed[f], "undefined"}
       /\ ObservedNow \subseteq DOMAIN cache)
=============================================================================
