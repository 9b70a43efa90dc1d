--------------------------- MODULE ListingProofs ---------------------------
(***************************************************************************)
(* Proofs about Listing, for every set of sessions, page size and number   *)
(* of steps: the table shows the current page of the rows that satisfy the *)
(* filters, inputs and form agree, every observed query is on its way or   *)
(* answered, and the page buttons are right for any number of pages.       *)
(***************************************************************************)
EXTENDS Listing, FiniteSetTheorems, TLAPS

-----------------------------------------------------------------------------
\* Page buttons.

LEMMA PageNumbersExplicit ==
  ASSUME NEW total \in Nat \ {0}, NEW current \in 1..total
  PROVE  /\ StartPage(current) \in Nat
         /\ EndPage(current, total) \in Int
         /\ StartPage(current) = IF current <= 5 THEN 2 ELSE current - 2
         /\ EndPage(current, total) = IF current + 4 >= total THEN total - 1 ELSE current + 2
BY DEF StartPage, EndPage, Larger, Smaller, PageBuffer

\* The row of buttons keeps its promise on every page, for any number of pages
\* (generatePageNumbers of Pagination.tsx).
THEOREM PageButtonsRight ==
  \A total \in Nat \ {0} : \A current \in 1..total : ButtonsAreRight(current, total)
<1> SUFFICES ASSUME NEW total \in Nat \ {0}, NEW current \in 1..total
             PROVE  ButtonsAreRight(current, total)
  OBVIOUS
<1> DEFINE start == StartPage(current)
           end == EndPage(current, total)
           shown == PageNumbers(current, total)
           left == {p \in 1..total : p \notin shown /\ p < current}
           right == {p \in 1..total : p \notin shown /\ p > current}
<1>1. /\ start \in Nat /\ end \in Int
      /\ start = IF current <= 5 THEN 2 ELSE current - 2
      /\ end = IF current + 4 >= total THEN total - 1 ELSE current + 2
  BY PageNumbersExplicit
<1>2. \A p \in Int : p \in shown <=> p = 1 \/ (start <= p /\ p <= end) \/ (p = total /\ total > 1)
  BY <1>1 DEF PageNumbers
<1> HIDE DEF start, end, shown
<1>3. {1, total} \subseteq shown /\ shown \subseteq 1..total
  <2>1. 1 \in shown /\ total \in shown
    BY <1>2
  <2>2. shown \subseteq Int
    BY <1>1 DEF shown, PageNumbers, start, end
  <2> QED  BY <1>1, <1>2, <2>1, <2>2
<1>4. {p \in 1..total : p - current \in -PageBuffer..PageBuffer} \subseteq shown
  BY <1>1, <1>2 DEF PageBuffer
<1>5. LeadingEllipsis(current) <=> left # {}
  <2>1. LeadingEllipsis(current) <=> current > 5
    BY <1>1 DEF LeadingEllipsis, start
  <2>2. current > 5 => 2 \in left
    BY <1>1, <1>2
  <2>3. current <= 5 => left = {}
    BY <1>1, <1>2
  <2> QED  BY <2>1, <2>2, <2>3
<1>6. TrailingEllipsis(current, total) <=> right # {}
  <2>1. TrailingEllipsis(current, total) <=> current + 4 < total
    BY <1>1 DEF TrailingEllipsis, end
  <2>2. current + 4 < total => (total - 1) \in right
    BY <1>1, <1>2
  <2>3. current + 4 >= total => right = {}
    BY <1>1, <1>2
  <2> QED  BY <2>1, <2>2, <2>3
<1>7. \A p \in left \cup right : p - 1 \notin shown \/ p + 1 \notin shown
  <2> SUFFICES ASSUME NEW p \in left \cup right, p - 1 \in shown, p + 1 \in shown
               PROVE  FALSE
    OBVIOUS
  <2> QED  BY <1>1, <1>2
<1> QED  BY <1>3, <1>4, <1>5, <1>6, <1>7 DEF ButtonsAreRight, shown, left, right

-----------------------------------------------------------------------------
\* The kinds: the tables of names that are written by hand, six times over,
\* agree with each other.

AsksEveryColumn(kind, asks) ==
  /\ DOMAIN asks = Columns(kind)
  /\ \A c \in DOMAIN asks :
       /\ asks[c].field = FieldOf(kind, c)
       /\ asks[c].as = "int" => c \in NumericColumns

Consistent(kind) ==
  /\ DOMAIN Inputs[kind] \cap DOMAIN Combos[kind] = {}
  /\ \A c, d \in Columns(kind) : FieldOf(kind, c) = FieldOf(kind, d) => c = d
  /\ AsksEveryColumn(kind, ListAsks[kind])
  /\ AsksEveryColumn(kind, CountAsks[kind])
  /\ \A c \in Columns(kind) \cap NumericColumns : CountAsks[kind][c].as = "int"
  /\ DOMAIN Cells[kind] = Columns(kind)
  /\ \A c \in Columns(kind) : Cells[kind][c] = FieldOf(kind, c)
  /\ DOMAIN Lines[kind] = Columns(kind)
  /\ \A c \in Columns(kind) : Lines[kind][c] = FieldOf(kind, c)
  /\ "fetched_at" \in SortKeys[kind]
  /\ "network" \notin Columns(kind)

LEMMA BeaconStateConsistent == Consistent("beacon_state")
BY DEF Consistent, AsksEveryColumn, Columns, FieldOf, Inputs, Combos, ListAsks, CountAsks,
       Cells, Lines, SortKeys, NumericColumns, ParseInt, Verbatim, BeaconStateInputs,
       BeaconStateCombos, BeaconStateList, BeaconStateCount, BeaconStateCells, BeaconStateLines, BeaconStateSortKeys

LEMMA BeaconBlockConsistent == Consistent("beacon_block")
BY DEF Consistent, AsksEveryColumn, Columns, FieldOf, Inputs, Combos, ListAsks, CountAsks,
       Cells, Lines, SortKeys, NumericColumns, ParseInt, Verbatim, BeaconBlockInputs,
       BeaconBlockCombos, BeaconBlockList, BeaconBlockCount, BeaconBlockCells, BeaconBlockLines, BeaconBlockSortKeys

LEMMA BeaconBadBlockConsistent == Consistent("beacon_bad_block")
BY DEF Consistent, AsksEveryColumn, Columns, FieldOf, Inputs, Combos, ListAsks, CountAsks,
       Cells, Lines, SortKeys, NumericColumns, ParseInt, Verbatim, BeaconBadBlockInputs,
       BeaconBadBlockCombos, BeaconBadBlockList, BeaconBadBlockCount, BeaconBadBlockCells, BeaconBadBlockLines, BeaconBadBlockSortKeys

LEMMA BeaconBadBlobConsistent == Consistent("beacon_bad_blob")
BY DEF Consistent, AsksEveryColumn, Columns, FieldOf, Inputs, Combos, ListAsks, CountAsks,
       Cells, Lines, SortKeys, NumericColumns, ParseInt, Verbatim, BeaconBadBlobInputs,
       BeaconBadBlobCombos, BeaconBadBlobList, BeaconBadBlobCount, BeaconBadBlobCells, BeaconBadBlobLines, BeaconBadBlobSortKeys

LEMMA ExecutionBlockTraceConsistent == Consistent("execution_block_trace")
BY DEF Consistent, AsksEveryColumn, Columns, FieldOf, Inputs, Combos, ListAsks, CountAsks,
       Cells, Lines, SortKeys, NumericColumns, ParseInt, Verbatim, ExecutionBlockTraceInputs,
       ExecutionBlockTraceCombos, ExecutionBlockTraceList, ExecutionBlockTraceCount, ExecutionBlockTraceCells, ExecutionBlockTraceLines, ExecutionBlockTraceSortKeys

LEMMA ExecutionBadBlockConsistent == Consistent("execution_bad_block")
BY DEF Consistent, AsksEveryColumn, Columns, FieldOf, Inputs, Combos, ListAsks, CountAsks,
       Cells, Lines, SortKeys, NumericColumns, ParseInt, Verbatim, ExecutionBadBlockInputs,
       ExecutionBadBlockCombos, ExecutionBadBlockList, ExecutionBadBlockCount, ExecutionBadBlockCells, ExecutionBadBlockLines, ExecutionBadBlockSortKeys

LEMMA KindsConsistent == \A kind \in Kinds : Consistent(kind)
BY BeaconStateConsistent, BeaconBlockConsistent, BeaconBadBlockConsistent,
   BeaconBadBlobConsistent, ExecutionBlockTraceConsistent, ExecutionBadBlockConsistent
DEF Kinds

\* A session touches columns of its kind only.
LEMMA SessionColumns ==
  ASSUME session \in Sessions
  PROVE  /\ Consistent(Kind)
         /\ session.columns \subseteq Columns(Kind)
         /\ \A c \in session.columns : FieldOf(Kind, c) \in InPlay
         /\ \A f \in InPlay : \E c \in session.columns : f = FieldOf(Kind, c)
         /\ \A f \in InPlay \cap Texts(Kind) :
              \E c \in session.columns \cap DOMAIN Inputs[Kind] : f = Inputs[Kind][c]
<1>1. Kind \in Kinds /\ session.columns \subseteq Columns(Kind)
  BY SessionsAssumption DEF Kind
<1>2. Consistent(Kind)
  BY <1>1, KindsConsistent
<1>3. ASSUME NEW f \in InPlay \cap Texts(Kind)
      PROVE  \E c \in session.columns \cap DOMAIN Inputs[Kind] : f = Inputs[Kind][c]
  <2>1. PICK c \in session.columns : f = FieldOf(Kind, c)
    BY DEF InPlay
  <2>2. PICK d \in DOMAIN Inputs[Kind] : f = Inputs[Kind][d]
    BY DEF Texts
  <2>3. FieldOf(Kind, d) = f /\ d \in Columns(Kind) /\ c \in Columns(Kind)
    BY <1>1, <2>1, <2>2 DEF FieldOf, Columns
  <2>4. c = d
    BY <1>2, <2>1, <2>3 DEF Consistent
  <2> QED  BY <2>1, <2>2, <2>4
<1> QED  BY <1>1, <1>2, <1>3 DEF InPlay

-----------------------------------------------------------------------------
\* Form and inputs.

FormOK ==
  /\ DOMAIN form = InPlay /\ DOMAIN typed = InPlay \cap Texts(Kind)
  /\ \A c \in session.columns : form[FieldOf(Kind, c)] \in Text(c) \cup {"undefined"}
  /\ \A c \in session.columns \cap DOMAIN Inputs[Kind] : typed[Inputs[Kind][c]] \in Text(c)
  /\ pending \subseteq DOMAIN typed
  /\ InputShowsFilter

LEMMA SetValuesKeepsForm ==
  ASSUME session \in Sessions, session' = session, FormOK, NEW values,
         DOMAIN values = InPlay,
         \A c \in session.columns : values[FieldOf(Kind, c)] \in Text(c) \cup {"undefined"},
         SetValues(values),
         pending' \subseteq pending,
         \A f \in pending \ pending' : values[f] = typed[f]
  PROVE  FormOK'
<1>1. /\ Kind' = Kind /\ InPlay' = InPlay
      /\ \A c : Text(c)' = Text(c)
  BY DEF Kind, InPlay, Text
<1>2. /\ form' = values
      /\ DOMAIN typed' = DOMAIN typed
      /\ \A f \in DOMAIN typed :
           typed'[f] = IF values[f] \notin {form[f], "undefined"} THEN values[f] ELSE typed[f]
  BY DEF SetValues
<1>3. ASSUME NEW c \in session.columns \cap DOMAIN Inputs[Kind]
      PROVE  typed'[Inputs[Kind][c]] \in Text(c)
  <2>1. Inputs[Kind][c] = FieldOf(Kind, c) /\ Inputs[Kind][c] \in DOMAIN typed
    BY SessionColumns DEF FieldOf, Texts, FormOK
  <2> QED  BY <1>2, <2>1 DEF FormOK
<1>4. InputShowsFilter'
  <2> SUFFICES ASSUME NEW f \in DOMAIN typed, f \notin pending', values[f] # "undefined"
               PROVE  typed'[f] = values[f]
    BY <1>2 DEF InputShowsFilter
  <2>1. CASE values[f] # form[f]
    BY <1>2, <2>1
  <2>2. CASE values[f] = form[f]
    <3>1. typed'[f] = typed[f]
      BY <1>2, <2>2
    <3> QED  BY <2>2, <3>1 DEF FormOK, InputShowsFilter
  <2> QED  BY <2>1, <2>2
<1> QED  BY <1>1, <1>2, <1>3, <1>4 DEF FormOK

LEMMA SetValueKeepsForm ==
  ASSUME session \in Sessions, session' = session, FormOK, NEW c \in session.columns,
         NEW value \in Text(c) \cup {"undefined"}, SetValue(FieldOf(Kind, c), value),
         \/ pending' = pending
         \/ pending' = pending \ {FieldOf(Kind, c)} /\ value = typed[FieldOf(Kind, c)]
  PROVE  FormOK'
<1> DEFINE values == [f \in DOMAIN form |-> IF f = FieldOf(Kind, c) THEN value ELSE form[f]]
<1>1. DOMAIN values = InPlay /\ SetValues(values)
  BY DEF SetValue, FormOK
<1>2. \A d \in session.columns : values[FieldOf(Kind, d)] \in Text(d) \cup {"undefined"}
  <2> SUFFICES ASSUME NEW d \in session.columns
               PROVE  values[FieldOf(Kind, d)] \in Text(d) \cup {"undefined"}
    OBVIOUS
  <2>1. FieldOf(Kind, d) \in DOMAIN form /\ (FieldOf(Kind, d) = FieldOf(Kind, c) => d = c)
    BY SessionColumns DEF Consistent, FormOK
  <2> QED  BY <2>1 DEF FormOK
<1>3. pending' \subseteq pending /\ \A f \in pending \ pending' : values[f] = typed[f]
  BY DEF FormOK
<1> QED  BY <1>1, <1>2, <1>3, SetValuesKeepsForm

\* What a step of the listing does to session, form and inputs.
LEMMA StepKeepsForm ==
  ASSUME session \in Sessions, FormOK, [Next]_vars
  PROVE  session' = session /\ FormOK'
<1>0. ASSUME session' = session, form' = form, typed' = typed, pending' = pending
      PROVE  FormOK'
  <2>1. Kind' = Kind /\ InPlay' = InPlay
    BY <1>0 DEF Kind, InPlay
  <2>2. InputShowsFilter'
    BY <1>0 DEF FormOK, InputShowsFilter
  <2> QED  BY <1>0, <2>1, <2>2 DEF FormOK, Text
<1>1. \A row, c : Value(row, c) \in Text(c)
  BY DEF Value, Text
<1>2. ASSUME NEW c \in DOMAIN Inputs[Kind] \cap session.columns, NEW text \in Text(c),
             Type(c, text)
      PROVE  session' = session /\ FormOK'
  <2>1. session' = session /\ Kind' = Kind /\ InPlay' = InPlay /\ Text(c)' = Text(c)
    BY <1>2 DEF Type, Render, Kind, InPlay, Text
  <2>2. /\ form' = form /\ pending' = pending \cup {Inputs[Kind][c]}
        /\ typed' = [typed EXCEPT ![Inputs[Kind][c]] = text]
    BY <1>2 DEF Type
  <2>3. Inputs[Kind][c] \in DOMAIN typed
    BY SessionColumns DEF FieldOf, Texts, FormOK
  <2>4. ASSUME NEW d \in session.columns \cap DOMAIN Inputs[Kind]
        PROVE  typed'[Inputs[Kind][d]] \in Text(d)
    <3>1. Inputs[Kind][d] = Inputs[Kind][c] => d = c
      BY SessionColumns DEF FieldOf, Consistent
    <3>2. Inputs[Kind][d] \in DOMAIN typed
      BY SessionColumns DEF FieldOf, Texts, FormOK
    <3> QED  BY <2>2, <3>1, <3>2 DEF FormOK
  <2>5. InputShowsFilter'
    BY <2>2, <2>3 DEF InputShowsFilter, FormOK
  <2> QED  BY <2>1, <2>2, <2>3, <2>4, <2>5 DEF FormOK, Text
<1>3. ASSUME NEW field \in pending, Fire(field)
      PROVE  session' = session /\ FormOK'
  <2>1. session' = session /\ SetValue(field, typed[field]) /\ pending' = pending \ {field}
    BY <1>3 DEF Fire, Render
  <2>2. PICK c \in session.columns \cap DOMAIN Inputs[Kind] : field = Inputs[Kind][c]
    BY SessionColumns DEF FormOK
  <2>3. field = FieldOf(Kind, c) /\ typed[field] \in Text(c)
    BY <2>2 DEF FieldOf, FormOK
  <2> QED  BY <2>1, <2>3, SetValueKeepsForm
<1>4. ASSUME NEW c \in DOMAIN Combos[Kind] \cap session.columns, NEW v \in {"", "a", "b"},
             Pick(c, v)
      PROVE  session' = session /\ FormOK'
  <2>1. session' = session /\ SetValue(Combos[Kind][c], v) /\ pending' = pending
    BY <1>4 DEF Pick, Render
  <2>2. Combos[Kind][c] = FieldOf(Kind, c) /\ v \in Text(c)
    BY SessionColumns DEF FieldOf, Consistent, Text
  <2> QED  BY <2>1, <2>2, SetValueKeepsForm
<1>5. ASSUME ClearFilters
      PROVE  session' = session /\ FormOK'
  <2> DEFINE values == [f \in DOMAIN form |-> ""]
  <2>1. session' = session /\ SetValues(values) /\ pending' = pending
    BY <1>5 DEF ClearFilters, Render
  <2>2. DOMAIN values = InPlay
    BY DEF FormOK
  <2>3. \A c \in session.columns : values[FieldOf(Kind, c)] \in Text(c) \cup {"undefined"}
    BY <2>2, SessionColumns DEF Text, FormOK
  <2> HIDE DEF values
  <2> QED  BY <2>1, <2>2, <2>3, SetValuesKeepsForm
<1>6. ASSUME NEW row, NEW c \in DOMAIN Cells[Kind] \cap session.columns, ClickCell(row, c)
      PROVE  session' = session /\ FormOK'
  <2>1. session' = session /\ SetValue(Cells[Kind][c], Value(row, c)) /\ pending' = pending
    BY <1>6 DEF ClickCell, Render
  <2>2. Cells[Kind][c] = FieldOf(Kind, c)
    BY SessionColumns DEF Consistent
  <2> QED  BY <1>1, <2>1, <2>2, SetValueKeepsForm
<1>7. ASSUME NEW c \in DOMAIN Lines[Kind] \cap session.columns, HandleSearch(c)
      PROVE  session' = session /\ FormOK'
  <2> DEFINE value == IF IdData = None THEN "undefined" ELSE Value(open, c)
  <2>1. session' = session /\ SetValue(Lines[Kind][c], value) /\ pending' = pending
    BY <1>7 DEF HandleSearch, Render
  <2>2. Lines[Kind][c] = FieldOf(Kind, c)
    BY SessionColumns DEF Consistent
  <2>3. value \in Text(c) \cup {"undefined"}
    BY <1>1
  <2> QED  BY <2>1, <2>2, <2>3, SetValueKeepsForm
<1>8. ASSUME NEW key, HandleSort(key)  PROVE  session' = session /\ FormOK'
  BY <1>8, <1>0 DEF HandleSort, Render
<1>9. ASSUME NEW p, PageChange(p)  PROVE  session' = session /\ FormOK'
  BY <1>9, <1>0 DEF PageChange, Render
<1>10. ASSUME NEW row, View(row)  PROVE  session' = session /\ FormOK'
  BY <1>10, <1>0 DEF View, Render
<1>11. CASE Close
  BY <1>11, <1>0 DEF Close, Render
<1>12. CASE Wait
  BY <1>12, <1>0 DEF Wait
<1>13. CASE Focus
  BY <1>13, <1>0 DEF Focus
<1>14. CASE SetNetwork
  BY <1>14, <1>0 DEF SetNetwork, Render
<1>15. ASSUME NEW row, Change(row)  PROVE  session' = session /\ FormOK'
  BY <1>15, <1>0 DEF Change
<1>16. ASSUME NEW k, NEW v, Reply(k, v)  PROVE  session' = session /\ FormOK'
  BY <1>16, <1>0 DEF Reply, Settle
<1>17. ASSUME NEW k, Fail(k)  PROVE  session' = session /\ FormOK'
  BY <1>17, <1>0 DEF Fail, Settle
<1>18. CASE UNCHANGED vars
  BY <1>18, <1>0 DEF vars
<1> QED
  BY <1>2, <1>3, <1>4, <1>5, <1>6, <1>7, <1>8, <1>9, <1>10, <1>11, <1>12, <1>13, <1>14,
     <1>15, <1>16, <1>17, <1>18 DEF Next, User

-----------------------------------------------------------------------------
\* The cache and the server.

\* Every answer is that of the server to its key, over some version of the table.
CacheOK ==
  /\ tables \in Seq(SUBSET Rows) /\ Len(tables) >= 1
  /\ \A k \in DOMAIN cache :
       /\ DOMAIN cache[k] = {"answer", "version", "failed"}
       /\ cache[k].version \in 1..Version /\ cache[k].failed \in BOOLEAN
       /\ cache[k].answer # None => cache[k].answer = Answer(k, tables[cache[k].version])
  /\ fresh \subseteq DOMAIN cache
  /\ \A k \in DOMAIN inflight : inflight[k] \in 1..Version
  /\ LoadingMeansFetching

\* What fetching does.
LEMMA FetchKeepsCache ==
  ASSUME CacheOK, NEW keys, keys \cap fresh = {}, Fetch(keys),
         session' = session, tables' = tables, fresh' = fresh,
         ObservedNow' \subseteq ObservedNow \cup keys \cup fresh
  PROVE  CacheOK'
<1> DEFINE sent == keys \ DOMAIN inflight
           kept == {j \in DOMAIN cache : ~(j \in sent /\ cache[j].answer = None)}
<1>1. /\ inflight' = [k \in DOMAIN inflight \cup sent |-> IF k \in sent THEN Version ELSE inflight[k]]
      /\ cache' = [k \in kept |-> cache[k]]
  BY DEF Fetch
<1>2. Rows' = Rows /\ Version' = Version /\ Version \in Nat \ {0}
  BY DEF Rows, Version, CacheOK
<1>3. DOMAIN inflight' = DOMAIN inflight \cup sent /\ DOMAIN cache' = kept
  BY <1>1
<1>4. \A k \in DOMAIN inflight' : inflight'[k] \in 1..Version
  BY <1>1, <1>2 DEF CacheOK
<1>5. fresh \subseteq kept
  BY DEF CacheOK
<1>6. \A k \in ObservedNow' : k \in DOMAIN cache' \cup DOMAIN inflight'
  <2> SUFFICES ASSUME NEW k \in ObservedNow \cup keys \cup fresh
               PROVE  k \in kept \cup DOMAIN inflight \cup sent
    BY <1>3
  <2> QED  BY <1>5 DEF CacheOK, LoadingMeansFetching
<1>7. \A k \in kept : cache'[k] = cache[k] /\ k \in DOMAIN cache
  BY <1>1
<1> HIDE DEF kept
<1>8. \A k \in DOMAIN cache' :
        /\ DOMAIN cache'[k] = {"answer", "version", "failed"}
        /\ cache'[k].version \in 1..Version /\ cache'[k].failed \in BOOLEAN
        /\ cache'[k].answer # None => cache'[k].answer = Answer(k, tables[cache'[k].version])
  BY <1>3, <1>7 DEF CacheOK
<1> QED
  BY <1>2, <1>3, <1>4, <1>5, <1>6, <1>8 DEF CacheOK, LoadingMeansFetching

LEMMA RenderKeepsCache ==
  ASSUME CacheOK, Render
  PROVE  CacheOK'
<1>1. session' = session /\ tables' = tables /\ fresh' = fresh
  BY DEF Render
<1>2. ObservedNow' = ObservedNext
  BY <1>1 DEF ObservedNow, ObservedNext, Observed, ListKey, CountKey, IdKey, Kind
<1> DEFINE keys == {k \in ObservedNext \ ObservedNow : k \notin fresh}
<1>3. Fetch(keys) /\ keys \cap fresh = {} /\ ObservedNow' \subseteq ObservedNow \cup keys \cup fresh
  BY <1>2 DEF Render
<1> HIDE DEF keys
<1> QED  BY <1>1, <1>3, FetchKeepsCache

LEMMA SettleKeepsCache ==
  ASSUME CacheOK, NEW k \in DOMAIN inflight, NEW entry, Settle(k, entry),
         DOMAIN entry = {"answer", "version", "failed"},
         entry.version \in 1..Version, entry.failed \in BOOLEAN,
         entry.answer # None => entry.answer = Answer(k, tables[entry.version]),
         fresh' \subseteq fresh \cup {k}
  PROVE  CacheOK'
<1>1. /\ cache' = [j \in DOMAIN cache \cup {k} |-> IF j = k THEN entry ELSE cache[j]]
      /\ inflight' = [j \in DOMAIN inflight \ {k} |-> inflight[j]]
      /\ session' = session /\ tables' = tables
      /\ form' = form /\ network' = network /\ sort' = sort /\ page' = page /\ open' = open
  BY DEF Settle
<1>2. Rows' = Rows /\ Version' = Version /\ ObservedNow' = ObservedNow
  BY <1>1 DEF Rows, Version, ObservedNow, Observed, ListKey, CountKey, IdKey, Kind
<1>3. /\ DOMAIN cache' = DOMAIN cache \cup {k} /\ DOMAIN inflight' = DOMAIN inflight \ {k}
      /\ \A j \in DOMAIN cache' : cache'[j] = IF j = k THEN entry ELSE cache[j]
      /\ \A j \in DOMAIN inflight' : inflight'[j] = inflight[j]
  BY <1>1
<1>4. LoadingMeansFetching'
  BY <1>2, <1>3 DEF LoadingMeansFetching, CacheOK
<1>5. \A j \in DOMAIN cache' :
        /\ DOMAIN cache'[j] = {"answer", "version", "failed"}
        /\ cache'[j].version \in 1..Version /\ cache'[j].failed \in BOOLEAN
        /\ cache'[j].answer # None => cache'[j].answer = Answer(j, tables[cache'[j].version])
  BY <1>3 DEF CacheOK
<1>6. fresh' \subseteq DOMAIN cache' /\ \A j \in DOMAIN inflight' : inflight'[j] \in 1..Version
  BY <1>3 DEF CacheOK
<1> QED  BY <1>1, <1>2, <1>4, <1>5, <1>6 DEF CacheOK

LEMMA ChangeKeepsCache ==
  ASSUME CacheOK, NEW row \in Rows, Change(row)
  PROVE  CacheOK'
<1> DEFINE rows == tables[Version]
           rows2 == IF row \in rows THEN rows \ {row} ELSE rows \cup {row}
<1>1. /\ tables' = Append(tables, rows2)
      /\ session' = session /\ cache' = cache /\ fresh' = fresh /\ inflight' = inflight
      /\ form' = form /\ network' = network /\ sort' = sort /\ page' = page /\ open' = open
  BY DEF Change
<1>2. Version \in Nat \ {0} /\ rows \in SUBSET Rows
  BY DEF CacheOK, Version
<1>3. rows2 \in SUBSET Rows
  BY <1>2
<1> HIDE DEF rows2
<1>4. /\ tables' \in Seq(SUBSET Rows) /\ Len(tables') = Version + 1
      /\ \A v \in 1..Version : tables'[v] = tables[v]
  BY <1>1, <1>2, <1>3 DEF CacheOK, Version
<1>5. Rows' = Rows /\ Version' = Version + 1
  BY <1>1, <1>4 DEF Rows, Version
<1>6. LoadingMeansFetching'
  BY <1>1 DEF LoadingMeansFetching, CacheOK, ObservedNow, Observed, ListKey, CountKey, IdKey, Kind
<1>7. \A k \in DOMAIN cache :
        /\ cache[k].version \in 1..(Version + 1)
        /\ cache[k].answer # None => cache[k].answer = Answer(k, tables'[cache[k].version])
  BY <1>2, <1>4 DEF CacheOK
<1>8. \A k \in DOMAIN inflight : inflight[k] \in 1..(Version + 1)
  BY <1>2 DEF CacheOK
<1> QED  BY <1>1, <1>4, <1>5, <1>6, <1>7, <1>8 DEF CacheOK

LEMMA StepKeepsCache ==
  ASSUME CacheOK, [Next]_vars
  PROVE  CacheOK'
<1>1. ASSUME session' = session, tables' = tables, cache' = cache, fresh' \subseteq fresh,
             inflight' = inflight, form' = form, network' = network, sort' = sort,
             page' = page, open' = open
      PROVE  CacheOK'
  <2>1. Rows' = Rows /\ Version' = Version /\ ObservedNow' = ObservedNow
    BY <1>1 DEF Rows, Version, ObservedNow, Observed, ListKey, CountKey, IdKey, Kind
  <2> QED  BY <1>1, <2>1 DEF CacheOK, LoadingMeansFetching
<1>2. ASSUME Render  PROVE CacheOK'
  BY <1>2, RenderKeepsCache
<1>3. CASE Wait
  BY <1>3, <1>1 DEF Wait
<1>4. CASE Focus
  <2> DEFINE keys == {k \in ObservedNow : k \notin fresh}
  <2>1. /\ Fetch(keys)
        /\ session' = session /\ tables' = tables /\ fresh' = fresh
        /\ form' = form /\ network' = network /\ sort' = sort /\ page' = page /\ open' = open
    BY <1>4 DEF Focus
  <2>2. ObservedNow' = ObservedNow
    BY <2>1 DEF ObservedNow, Observed, ListKey, CountKey, IdKey, Kind
  <2>3. keys \cap fresh = {}
    OBVIOUS
  <2> HIDE DEF keys
  <2> QED  BY <2>1, <2>2, <2>3, FetchKeepsCache
<1>5. ASSUME NEW row \in Rows \ {"base"}, Change(row)  PROVE CacheOK'
  BY <1>5, ChangeKeepsCache
<1>6. ASSUME NEW k \in DOMAIN inflight, NEW v \in 1..Version, Reply(k, v)  PROVE CacheOK'
  <2> DEFINE answer == Answer(k, tables[v])
             entry == [answer |-> answer, version |-> v, failed |-> answer = None]
  <2>1. Settle(k, entry) /\ fresh' \subseteq fresh \cup {k}
    BY <1>6 DEF Reply
  <2>2. /\ DOMAIN entry = {"answer", "version", "failed"}
        /\ entry.version = v /\ entry.failed \in BOOLEAN /\ entry.answer = answer
    OBVIOUS
  <2>3. entry.answer = Answer(k, tables[entry.version])
    BY <2>2
  <2> HIDE DEF entry, answer
  <2> QED  BY <2>1, <2>2, <2>3, SettleKeepsCache
<1>7. ASSUME NEW k \in DOMAIN inflight, Fail(k)  PROVE CacheOK'
  <2> DEFINE entry == IF k \in DOMAIN cache THEN [cache[k] EXCEPT !.failed = TRUE]
                      ELSE [answer |-> None, version |-> Version, failed |-> TRUE]
  <2>1. Settle(k, entry) /\ fresh' = fresh
    BY <1>7 DEF Fail
  <2>2. Version \in Nat \ {0}
    BY DEF CacheOK, Version
  <2>3. CASE k \in DOMAIN cache
    <3>1. /\ DOMAIN entry = {"answer", "version", "failed"} /\ entry.failed = TRUE
          /\ entry.version = cache[k].version /\ entry.answer = cache[k].answer
      BY <2>3 DEF CacheOK
    <3> HIDE DEF entry
    <3>2. entry.version \in 1..Version /\ entry.failed \in BOOLEAN
          /\ (entry.answer # None => entry.answer = Answer(k, tables[entry.version]))
      BY <2>3, <3>1 DEF CacheOK
    <3> QED  BY <2>1, <3>1, <3>2, SettleKeepsCache
  <2>4. CASE k \notin DOMAIN cache
    <3>1. /\ DOMAIN entry = {"answer", "version", "failed"} /\ entry.failed = TRUE
          /\ entry.version = Version /\ entry.answer = None
      BY <2>4
    <3> HIDE DEF entry
    <3>2. entry.version \in 1..Version
      <4>1. Version \in 1..Version
        BY <2>2
      <4> QED  BY <3>1, <4>1
    <3>3. entry.failed \in BOOLEAN
      BY <3>1
    <3>4. entry.answer # None => entry.answer = Answer(k, tables[entry.version])
      BY <3>1
    <3> QED  BY <2>1, <3>1, <3>2, <3>3, <3>4, SettleKeepsCache
  <2> QED  BY <2>3, <2>4
<1>8. CASE UNCHANGED vars
  BY <1>8, <1>1 DEF vars
<1> QED
  BY <1>2, <1>3, <1>4, <1>5, <1>6, <1>7, <1>8
  DEF Next, User, Type, Fire, Pick, ClearFilters, HandleSort, PageChange, ClickCell, View,
      Close, HandleSearch, SetNetwork

-----------------------------------------------------------------------------
\* What the table shows.

LEMMA ShownAreRows ==
  ASSUME CacheOK
  PROVE  Shown \subseteq Rows
<1> SUFFICES ASSUME Has(ListData), ~ListData.failed  PROVE ListData.answer \subseteq Rows
  BY DEF Shown
<1> DEFINE k == ListKey(form, network, sort, page)
<1>1. k \in DOMAIN cache /\ ListData = cache[k] /\ cache[k].answer # None
  BY DEF Has, ListData
<1>2. k.query = "list"
  BY DEF ListKey
<1> HIDE DEF k
<1>3. cache[k].answer = Answer(k, tables[cache[k].version])
  BY <1>1 DEF CacheOK
<1>4. tables[cache[k].version] \in SUBSET Rows
  BY <1>1 DEF CacheOK, Version
<1>5. Answer(k, tables[cache[k].version]) \in {None} \cup SUBSET Rows
  BY <1>2, <1>4 DEF Answer, PageOf
<1> QED  BY <1>1, <1>3, <1>5

\* The rows of a listing are among those the order names.
LEMMA RowsAreOrdered ==
  ASSUME session \in Sessions
  PROVE  Rows \subseteq {RowOrder[i] : i \in 1..13}
<1> DEFINE columns == {RowOrder[i] : i \in 1..13}
<1>1. \A kind \in Kinds : Columns(kind) \subseteq
        {"node", "beacon_implementation", "execution_implementation", "node_version", "epoch",
         "slot", "index", "state_root", "block_root", "block_number", "block_hash"}
  BY DEF Kinds, Columns, Inputs, Combos, BeaconStateInputs, BeaconStateCombos,
         BeaconBlockInputs, BeaconBlockCombos, BeaconBadBlockInputs, BeaconBadBlockCombos,
         BeaconBadBlobInputs, BeaconBadBlobCombos, ExecutionBlockTraceInputs,
         ExecutionBlockTraceCombos, ExecutionBadBlockInputs, ExecutionBadBlockCombos
<1>2. {"base", "network", "node", "beacon_implementation", "execution_implementation",
       "node_version", "epoch", "slot", "index", "state_root", "block_root", "block_number",
       "block_hash"} \subseteq columns
  BY DEF RowOrder
<1>3. Rows \subseteq columns
  <2>1. session.columns \subseteq Columns(Kind) /\ Kind \in Kinds
    BY SessionsAssumption DEF Kind
  <2> HIDE DEF columns
  <2> QED  BY <2>1, <1>1, <1>2 DEF Rows
<1> QED  BY <1>3

LEMMA RowsAreFinite ==
  ASSUME session \in Sessions
  PROVE  IsFiniteSet(Rows)
<1> DEFINE columns == {RowOrder[i] : i \in 1..13}
<1>1. IsFiniteSet(columns)
  <2>1. IsFiniteSet(1..13)
    BY FS_Interval, 1 \in Int, 13 \in Int
  <2> DEFINE f == [i \in 1..13 |-> RowOrder[i]]
  <2>2. f \in Surjection(1..13, columns)
    BY DEF Surjection
  <2> HIDE DEF f, columns
  <2> QED  BY <2>1, <2>2, FS_Surjection
<1> QED  BY <1>1, RowsAreOrdered, FS_Subset

\* The number of pages is a natural number.
LEMMA TotalPagesType ==
  ASSUME session \in Sessions, CacheOK
  PROVE  TotalPages \in Nat
<1> SUFFICES ASSUME Has(CountData)  PROVE CountData.answer \in Nat
  BY ItemsPerPageAssumption DEF TotalPages
<1> DEFINE k == CountKey(form, network)
           found == {r \in tables[cache[k].version] : Match(r, k.request)}
<1>1. k \in DOMAIN cache /\ CountData = cache[k] /\ cache[k].answer # None
  BY DEF Has, CountData
<1>2. k.query = "count"
  BY DEF CountKey
<1> HIDE DEF k
<1>3. cache[k].answer = Answer(k, tables[cache[k].version])
  BY <1>1 DEF CacheOK
<1>4. tables[cache[k].version] \in SUBSET Rows
  BY <1>1 DEF CacheOK, Version
<1>5. Answer(k, tables[cache[k].version]) = Cardinality(found)
  BY <1>2 DEF Answer
<1>6. IsFiniteSet(found)
  BY <1>4, RowsAreFinite, FS_Subset
<1>7. Cardinality(found) \in Nat
  BY <1>6, FS_CardinalityType
<1> QED  BY <1>1, <1>3, <1>5, <1>7

\* What a request carries: the values of the fields in play, nothing else.
LEMMA RequestCarriesForm ==
  ASSUME session \in Sessions, FormOK, NEW asks, AsksEveryColumn(Kind, asks)
  PROVE  LET request == Request(asks, form, network)
             value(c) == form[FieldOf(Kind, c)]
         IN  /\ DOMAIN request = Columns(Kind) \cup {"network"}
             /\ request["network"] = network
             /\ \A c \in Columns(Kind) :
                  request[c] = IF FieldOf(Kind, c) \in InPlay /\ value(c) \notin Nothing
                               THEN Sent(asks[c], value(c)) ELSE ""
             /\ \A c \in Columns(Kind) : c \notin session.columns => request[c] = ""
<1> DEFINE request == Request(asks, form, network)
           value(c) == form[FieldOf(Kind, c)]
<1>1. /\ DOMAIN request = Columns(Kind) \cup {"network"}
      /\ request["network"] = network
      /\ \A c \in Columns(Kind) :
           request[c] = IF FieldOf(Kind, c) \in InPlay /\ value(c) \notin Nothing
                        THEN Sent(asks[c], value(c)) ELSE ""
  <2>1. "network" \notin Columns(Kind)
    BY SessionColumns DEF Consistent
  <2>2. DOMAIN form = InPlay /\ DOMAIN asks = Columns(Kind)
        /\ \A c \in Columns(Kind) : asks[c].field = FieldOf(Kind, c)
    BY DEF FormOK, AsksEveryColumn
  <2> QED  BY <2>1, <2>2 DEF Request
<1>2. \A c \in Columns(Kind) : c \notin session.columns => request[c] = ""
  <2> SUFFICES ASSUME NEW c \in Columns(Kind), FieldOf(Kind, c) \in InPlay
               PROVE  c \in session.columns
    BY <1>1
  <2> QED  BY SessionColumns DEF InPlay, Consistent
<1> QED  BY <1>1, <1>2

\* A request that the server does not refuse asks for the wanted rows.
LEMMA RequestAsksForWanted ==
  ASSUME session \in Sessions, FormOK, NEW asks, AsksEveryColumn(Kind, asks), NEW row,
         network # "null", ~Refused(Request(asks, form, network))
  PROVE  Match(row, Request(asks, form, network)) <=> Wanted(row)
<1> DEFINE request == Request(asks, form, network)
           value(c) == form[FieldOf(Kind, c)]
<1>1. /\ DOMAIN request = Columns(Kind) \cup {"network"}
      /\ request["network"] = network
      /\ \A c \in Columns(Kind) :
           request[c] = IF FieldOf(Kind, c) \in InPlay /\ value(c) \notin Nothing
                        THEN Sent(asks[c], value(c)) ELSE ""
  BY RequestCarriesForm
<1>2. \A c \in Columns(Kind) : c \notin session.columns => request[c] = ""
  BY RequestCarriesForm
<1>3. session.columns \subseteq Columns(Kind)
  BY SessionColumns
<1>4. \A c \in session.columns :
        request[c] = IF value(c) \in Nothing THEN ""
                     ELSE IF asks[c].as = "int" /\ value(c) = "x" THEN "null" ELSE value(c)
  BY <1>1, <1>3, SessionColumns DEF Sent
<1>5. \A c \in session.columns : value(c) \in {"", "a", "b", "x", "0", "undefined"}
  BY DEF FormOK, Text
<1>6. \A c \in session.columns : asks[c].as = "int" => c \in NumericColumns
  BY <1>3 DEF AsksEveryColumn
<1>7. \A c \in session.columns : c \in NumericColumns => request[c] # "x"
  BY <1>1, <1>3 DEF Refused
<1> HIDE DEF request
<1>8. \A c : Value(row, c) \in {"a", "b"}
  BY DEF Value
<1>9. ASSUME NEW c \in session.columns
      PROVE  (Constrains(c, request[c]) => Value(row, c) = request[c])
             <=> (\/ value(c) \in Nothing
                  \/ value(c) = "x" /\ c \in NumericColumns
                  \/ value(c) = "0" /\ c \in BareNumbers
                  \/ value(c) = Value(row, c))
  <2>1. request[c] = IF value(c) \in Nothing THEN ""
                     ELSE IF asks[c].as = "int" /\ value(c) = "x" THEN "null" ELSE value(c)
    BY <1>4
  <2>2. Value(row, c) \in {"a", "b"} /\ value(c) \in {"", "a", "b", "x", "0", "undefined"}
    BY <1>5, <1>8
  <2>3. /\ asks[c].as = "int" => c \in NumericColumns
        /\ c \in NumericColumns => request[c] # "x"
    BY <1>6, <1>7
  <2> HIDE DEF value
  <2>4. CASE value(c) \in {"a", "b"}
    BY <2>1, <2>2, <2>4 DEF Constrains, Nothing
  <2>5. CASE value(c) \in {"", "undefined"}
    BY <2>1, <2>5 DEF Constrains, Nothing
  <2>6. CASE value(c) = "x"
    BY <2>1, <2>2, <2>3, <2>6 DEF Constrains, Nothing
  <2>7. CASE value(c) = "0"
    BY <2>1, <2>2, <2>7 DEF Constrains, Nothing
  <2> QED  BY <2>2, <2>4, <2>5, <2>6, <2>7
<1>10. (Constrains("network", network) => Value(row, "network") = network)
       <=> (network # "" => Value(row, "network") = network)
  BY DEF Constrains, BareNumbers
<1>11. \A c \in Columns(Kind) : c \notin session.columns => ~Constrains(c, request[c])
  BY <1>2 DEF Constrains
<1>12. Match(row, request) <=>
         /\ Constrains("network", network) => Value(row, "network") = network
         /\ \A c \in session.columns : Constrains(c, request[c]) => Value(row, c) = request[c]
  BY <1>1, <1>3, <1>11 DEF Match, request
<1> QED  BY <1>9, <1>10, <1>12 DEF Wanted, request

\* What the API keeps to itself of a list request is empty while no filter it
\* drops is in force.
LEMMA NothingIsLost ==
  ASSUME session \in Sessions, FormOK, AllHandedOn, NEW asks, AsksEveryColumn(Kind, asks),
         NEW row
  PROVE  Match(row, HandedOn(Kind, Request(asks, form, network)))
         <=> Match(row, Request(asks, form, network))
<1> DEFINE request == Request(asks, form, network)
           value(c) == form[FieldOf(Kind, c)]
<1>1. /\ DOMAIN request = Columns(Kind) \cup {"network"}
      /\ \A c \in Columns(Kind) :
           request[c] = IF FieldOf(Kind, c) \in InPlay /\ value(c) \notin Nothing
                        THEN Sent(asks[c], value(c)) ELSE ""
      /\ \A c \in Columns(Kind) : c \notin session.columns => request[c] = ""
  BY RequestCarriesForm
<1>2. "network" \notin DroppedByList[Kind]
  <2>1. Kind \in Kinds
    BY SessionsAssumption DEF Kind
  <2> QED  BY <2>1 DEF DroppedByList
<1>3. \A c \in DOMAIN request \cap DroppedByList[Kind] : request[c] = ""
  BY <1>1, <1>2 DEF AllHandedOn
<1> HIDE DEF request
<1>4. \A c \in DOMAIN request \cap DroppedByList[Kind] : ~Constrains(c, request[c])
  BY <1>3 DEF Constrains
<1>5. /\ DOMAIN HandedOn(Kind, request) = DOMAIN request \ DroppedByList[Kind]
      /\ \A c \in DOMAIN HandedOn(Kind, request) : HandedOn(Kind, request)[c] = request[c]
  BY DEF HandedOn
<1> QED  BY <1>4, <1>5 DEF Match, request

\* The count's request turns every number into one.
LEMMA CountIsNeverRefused ==
  ASSUME session \in Sessions
  PROVE  ~Refused(Request(CountAsks[Kind], form, network))
<1> DEFINE asks == CountAsks[Kind]
           request == Request(asks, form, network)
<1>1. /\ DOMAIN asks = Columns(Kind) /\ "network" \notin Columns(Kind)
      /\ \A c \in Columns(Kind) \cap NumericColumns : asks[c].as = "int"
  BY SessionColumns DEF Consistent, AsksEveryColumn
<1> SUFFICES ASSUME NEW c \in NumericColumns \cap DOMAIN request, request[c] = "x"
             PROVE  FALSE
  BY DEF Refused
<1>2. c # "network"
  BY DEF NumericColumns
<1>3. c \in Columns(Kind) /\ asks[c].as = "int"
  BY <1>1, <1>2 DEF Request
<1> HIDE DEF asks
<1> QED  BY <1>2, <1>3 DEF Request, Sent

LEMMA TableShowsWanted ==
  ASSUME session \in Sessions, FormOK, CacheOK, network # "null"
  PROVE  ShownIsTheCurrentPage
<1> SUFFICES ASSUME Has(ListData), ~ListData.failed, AllHandedOn
             PROVE  Shown = PageOf({r \in tables[ListData.version] : Wanted(r)}, sort,
                                   (page - 1) * ItemsPerPage)
  BY DEF ShownIsTheCurrentPage
<1> DEFINE k == ListKey(form, network, sort, page)
           asks == ListAsks[Kind]
           rows == tables[cache[k].version]
<1>1. k \in DOMAIN cache /\ ListData = cache[k] /\ cache[k].answer # None
  BY DEF Has, ListData
<1>2. /\ k.query = "list" /\ k.kind = Kind /\ k.request = Request(asks, form, network)
      /\ k.sort = sort /\ k.offset = (page - 1) * ItemsPerPage
  BY DEF ListKey
<1> HIDE DEF k, rows
<1>3. cache[k].answer = Answer(k, rows)
  BY <1>1 DEF CacheOK, rows
<1>4. Answer(k, rows) = IF Refused(k.request) THEN None
                        ELSE PageOf({r \in rows : Match(r, HandedOn(k.kind, k.request))}, k.sort, k.offset)
  BY <1>2 DEF Answer
<1>5. ~Refused(Request(asks, form, network))
  BY <1>1, <1>2, <1>3, <1>4
<1>6. AsksEveryColumn(Kind, asks)
  BY SessionColumns DEF Consistent
<1> HIDE DEF asks
<1>7. {r \in rows : Match(r, HandedOn(k.kind, k.request))} = {r \in rows : Wanted(r)}
  BY <1>2, <1>5, <1>6, RequestAsksForWanted, NothingIsLost
<1>8. Shown = Answer(k, rows)
  BY <1>1, <1>3 DEF Shown
<1> QED  BY <1>1, <1>2, <1>4, <1>5, <1>7, <1>8 DEF rows

-----------------------------------------------------------------------------
\* The user's other choices, and the inductive invariant.

ChoicesOK ==
  /\ network \in {"", "a"}
  /\ sort \in [key : SortKeys[Kind], direction : Directions]
  /\ page \in Nat \ {0}
  /\ open \in Rows \cup {None}

ListingInv == session \in Sessions /\ FormOK /\ CacheOK /\ ChoicesOK

LEMMA ListingInvInit == Init => ListingInv
<1> SUFFICES ASSUME Init  PROVE ListingInv
  OBVIOUS
<1>1. session \in Sessions /\ network \in {"", "a"}
  BY SessionsAssumption DEF Init
<1>2. FormOK
  <2>1. /\ form = [f \in InPlay |-> ""] /\ typed = [f \in InPlay \cap Texts(Kind) |-> ""]
        /\ pending = {}
    BY DEF Init
  <2>2. \A c : "" \in Text(c)
    BY DEF Text
  <2>3. \A c \in session.columns \cap DOMAIN Inputs[Kind] : Inputs[Kind][c] \in InPlay \cap Texts(Kind)
    BY <1>1, SessionColumns DEF FieldOf, Texts
  <2> QED  BY <1>1, <2>1, <2>2, <2>3, SessionColumns DEF FormOK, InputShowsFilter
<1>3. CacheOK
  <2>1. /\ tables = <<Rows>> /\ cache = [k \in {} |-> None] /\ fresh = {}
        /\ inflight = [k \in ObservedNow |-> 1]
    BY DEF Init
  <2>2. tables \in Seq(SUBSET Rows) /\ Len(tables) = 1
    BY <2>1
  <2>3. DOMAIN cache = {} /\ DOMAIN inflight = ObservedNow /\ \A k \in ObservedNow : inflight[k] = 1
    BY <2>1
  <2> QED  BY <2>1, <2>2, <2>3 DEF CacheOK, Version, LoadingMeansFetching
<1>4. ChoicesOK
  <2>1. /\ sort = [key |-> "fetched_at", direction |-> "DESC"] /\ page = 1 /\ open = None
    BY DEF Init
  <2>2. "fetched_at" \in SortKeys[Kind]
    BY <1>1, SessionColumns DEF Consistent
  <2>3. sort \in [key : SortKeys[Kind], direction : Directions]
    BY <2>1, <2>2 DEF Directions
  <2>4. page \in Nat \ {0}
    <3>1. page = 1 /\ 1 \in Nat \ {0}
      BY <2>1
    <3> QED  BY <3>1
  <2> QED  BY <1>1, <2>1, <2>3, <2>4 DEF ChoicesOK
<1> QED  BY <1>1, <1>2, <1>3, <1>4 DEF ListingInv

\* A page button leads to a page that exists, or back.
LEMMA ButtonsLeadSomewhere ==
  ASSUME NEW total \in Nat, total > 1, NEW current \in Nat \ {0}, NEW p \in Clicks(current, total)
  PROVE  p \in Nat \ {0} /\ (p <= total \/ p < current)
<1>1. CASE p \in PageNumbers(current, total)
  BY <1>1 DEF PageNumbers, StartPage, EndPage, Larger, Smaller, PageBuffer
<1>2. CASE p = Larger(1, current - 1) /\ current # 1
  BY <1>2 DEF Larger
<1>3. CASE p = Smaller(total, current + 1) /\ current < total
  BY <1>3 DEF Smaller
<1> QED  BY <1>1, <1>2, <1>3 DEF Clicks

LEMMA StepKeepsChoices ==
  ASSUME ListingInv, [Next]_vars
  PROVE  ChoicesOK'
<1> USE DEF ListingInv
<1>1. session' = session /\ Kind' = Kind /\ Rows' = Rows
  BY StepKeepsForm DEF Kind, Rows
<1>2. ASSUME network' = network, sort' = sort, page' = page, open' \in Rows \cup {None}
      PROVE  ChoicesOK'
  BY <1>1, <1>2 DEF ChoicesOK
<1>3. open \in Rows \cup {None}
  BY DEF ChoicesOK
<1>4. ASSUME NEW key \in SortKeys[Kind], HandleSort(key)  PROVE ChoicesOK'
  BY <1>1, <1>4 DEF HandleSort, ChoicesOK, Directions
<1>5. ASSUME NEW p, PageChange(p)  PROVE ChoicesOK'
  <2>1. p \in Clicks(page, TotalPages) /\ TotalPages > 1 /\ page' = p
        /\ network' = network /\ sort' = sort /\ open' = open
    BY <1>5 DEF PageChange
  <2>2. page \in Nat \ {0} /\ TotalPages \in Nat
    BY TotalPagesType DEF ChoicesOK
  <2>3. p \in Nat \ {0}
    BY <2>1, <2>2, ButtonsLeadSomewhere
  <2> QED  BY <1>1, <2>1, <2>3 DEF ChoicesOK
<1>6. CASE SetNetwork
  BY <1>1, <1>6 DEF SetNetwork, ChoicesOK
<1>7. ASSUME NEW row \in Shown, View(row)  PROVE ChoicesOK'
  BY <1>2, <1>7, ShownAreRows DEF View
<1>8. CASE Close
  BY <1>2, <1>8 DEF Close
<1>9. ASSUME NEW c, HandleSearch(c)  PROVE ChoicesOK'
  BY <1>2, <1>9 DEF HandleSearch
<1>10. CASE \/ \E c, text : Type(c, text)
            \/ \E f : Fire(f)
            \/ \E c, v : Pick(c, v)
            \/ ClearFilters
            \/ \E row, c : ClickCell(row, c)
            \/ Wait
            \/ Focus
            \/ \E row : Change(row)
            \/ \E k, v : Reply(k, v)
            \/ \E k : Fail(k)
            \/ UNCHANGED vars
  <2>1. network' = network /\ sort' = sort /\ page' = page /\ open' = open
    BY <1>10 DEF Type, Fire, Pick, ClearFilters, ClickCell, Wait, Focus, Change, Reply, Fail,
                 Settle, vars
  <2> QED  BY <1>2, <1>3, <2>1
<1> QED
  BY <1>4, <1>5, <1>6, <1>7, <1>8, <1>9, <1>10 DEF Next, User

LEMMA ListingInvStep == ListingInv /\ [Next]_vars => ListingInv'
BY StepKeepsForm, StepKeepsCache, StepKeepsChoices DEF ListingInv

LEMMA ListingInvHolds == Spec => []ListingInv
BY ListingInvInit, ListingInvStep, PTL DEF Spec

\* Every variable of a listing keeps its type.
THEOREM ListingTypeCorrect == Spec => []LTypeOK
<1>1. ListingInv => LTypeOK
  <2> SUFFICES ASSUME ListingInv  PROVE LTypeOK
    OBVIOUS
  <2>1. \A v \in DOMAIN tables : tables[v] \subseteq Rows
    BY DEF ListingInv, CacheOK
  <2>2. page >= 1
    <3>1. page \in Nat \ {0}
      BY DEF ListingInv, ChoicesOK
    <3> QED  BY <3>1
  <2>3. \A k \in DOMAIN cache : cache[k].version \in 1..Version /\ cache[k].failed \in BOOLEAN
    BY DEF ListingInv, CacheOK
  <2>4. fresh \subseteq DOMAIN cache /\ \A k \in DOMAIN inflight : inflight[k] \in 1..Version
    BY DEF ListingInv, CacheOK
  <2> QED  BY <2>1, <2>2, <2>3, <2>4 DEF ListingInv, FormOK, ChoicesOK, LTypeOK
<1> QED  BY <1>1, ListingInvHolds, PTL

\* The table never shows the answer to another query than the current one,
\* whatever is on its way, fails or comes late, and the filters of all six
\* listings reach the server, but for the two of the execution listings that
\* the API drops (useQuery.ts, *Table.tsx, *Filter.tsx, api.go).
THEOREM TableIsCurrent == Spec => []ShownIsTheCurrentPage
<1>1. ListingInv => ShownIsTheCurrentPage
  BY TableShowsWanted DEF ListingInv, ChoicesOK
<1> QED  BY <1>1, ListingInvHolds, PTL

\* An input that is not being typed in shows the filter in force
\* (DebouncedInput.tsx).
THEOREM InputsAgreeWithForm == Spec => []InputShowsFilter
<1>1. ListingInv => InputShowsFilter
  BY DEF ListingInv, FormOK
<1> QED  BY <1>1, ListingInvHolds, PTL

\* A query the page observes has an answer or is on its way (useQuery.ts).
THEOREM NoQueryIsForgotten == Spec => []LoadingMeansFetching
<1>1. ListingInv => LoadingMeansFetching
  BY DEF ListingInv, CacheOK
<1> QED  BY <1>1, ListingInvHolds, PTL

\* Cells and detail lines of all six listings set the filter of their own
\* column to the value of their own row (*Table.tsx, *Id.tsx).
THEOREM ClicksFilterTheirColumn == Spec => FilterKeepsItsRow
<1> DEFINE A == \A row \in Rows, c \in session.columns :
       /\ ClickCell(row, c) => Match(row, [d \in {c} |-> form'[FieldOf(Kind, c)]])
                               /\ form'[FieldOf(Kind, c)] = Value(row, c)
       /\ HandleSearch(c) /\ IdData # None => form'[FieldOf(Kind, c)] = Value(open, c)
<1>1. ASSUME session \in Sessions, FormOK, NEW c \in session.columns, NEW value,
             SetValue(FieldOf(Kind, c), value)
      PROVE  form'[FieldOf(Kind, c)] = value
  BY <1>1, SessionColumns DEF SetValue, SetValues, FormOK
<1>2. ListingInv => A
  <2> SUFFICES ASSUME ListingInv, NEW row \in Rows, NEW c \in session.columns
               PROVE  /\ ClickCell(row, c) => Match(row, [d \in {c} |-> form'[FieldOf(Kind, c)]])
                                              /\ form'[FieldOf(Kind, c)] = Value(row, c)
                      /\ HandleSearch(c) /\ IdData # None => form'[FieldOf(Kind, c)] = Value(open, c)
    OBVIOUS
  <2>1. Cells[Kind][c] = FieldOf(Kind, c) /\ Lines[Kind][c] = FieldOf(Kind, c)
    BY SessionColumns DEF Consistent, ListingInv
  <2>2. ASSUME ClickCell(row, c)  PROVE form'[FieldOf(Kind, c)] = Value(row, c)
    BY <1>1, <2>1, <2>2 DEF ClickCell, ListingInv
  <2>3. ASSUME HandleSearch(c), IdData # None  PROVE form'[FieldOf(Kind, c)] = Value(open, c)
    BY <1>1, <2>1, <2>3 DEF HandleSearch, ListingInv
  <2> QED  BY <2>2, <2>3 DEF Match
<1>3. ListingInv => [A]_vars
  BY <1>2
<1> QED  BY <1>3, ListingInvHolds, PTL DEF FilterKeepsItsRow

\* The page buttons never lead away from the pages there are, also from a page
\* that is gone (Pagination.tsx and the tables' currentPage).
THEOREM ButtonsNeverStray == Spec => ButtonsLeadBack
<1> DEFINE A == page' # page => page' <= TotalPages \/ page' < page
<1>1. ListingInv /\ [Next]_vars => A
  <2> SUFFICES ASSUME ListingInv, [Next]_vars, page' # page
               PROVE  page' <= TotalPages \/ page' < page
    OBVIOUS
  <2>1. PICK p : PageChange(p)
    BY DEF Next, User, Type, Fire, Pick, ClearFilters, ClickCell, HandleSort, View, Close,
           HandleSearch, Wait, Focus, SetNetwork, Change, Reply, Fail, Settle, vars
  <2>2. TotalPages \in Nat /\ page \in Nat \ {0}
    BY TotalPagesType DEF ListingInv, ChoicesOK
  <2> QED  BY <2>1, <2>2, ButtonsLeadSomewhere DEF PageChange
<1>2. ListingInv /\ [Next]_vars => [A]_vars
  BY <1>1
<1> QED  BY <1>2, ListingInvHolds, PTL DEF Spec, ButtonsLeadBack

-----------------------------------------------------------------------------
\* The rows of a page, counted.

LEMMA RowOrderIsInjective ==
  /\ DOMAIN RowOrder = 1..13
  /\ \A i, j \in 1..13 : RowOrder[i] = RowOrder[j] => i = j
BY DEF RowOrder

\* The order of the rows is a strict order in which any two can be compared.
LEMMA OlderIsAnOrder ==
  ASSUME session \in Sessions, NEW p \in Rows, NEW q \in Rows, NEW r \in Rows
  PROVE  /\ ~Older(p, p)
         /\ Older(p, q) /\ Older(q, r) => Older(p, r)
         /\ p # q => Older(p, q) \/ Older(q, p)
<1>1. PICK i, j, k \in 1..13 : RowOrder[i] = p /\ RowOrder[j] = q /\ RowOrder[k] = r
  BY RowsAreOrdered
<1>2. \A x, y : Older(x, y) <=> \E m, n \in 1..13 : m < n /\ RowOrder[m] = x /\ RowOrder[n] = y
  BY RowOrderIsInjective DEF Older
<1>3. (Older(p, q) <=> i < j) /\ (Older(q, r) <=> j < k) /\ (Older(p, r) <=> i < k)
      /\ (Older(q, p) <=> j < i) /\ (Older(p, p) <=> i < i)
  BY <1>1, <1>2, RowOrderIsInjective
<1>4. p # q => i # j
  BY <1>1
<1> QED  BY <1>3, <1>4

LEMMA BeforeIsAnOrder ==
  ASSUME session \in Sessions, NEW by, by.direction \in Directions,
         NEW p \in Rows, NEW q \in Rows, NEW r \in Rows
  PROVE  /\ ~Before(p, p, by)
         /\ Before(p, q, by) /\ Before(q, r, by) => Before(p, r, by)
         /\ p # q => Before(p, q, by) \/ Before(q, p, by)
<1>1. \A x \in Rows : Value(x, by.key) \in {"a", "b"}
  BY DEF Value
<1>2. /\ \A x \in Rows : ~Older(x, x)
      /\ \A x, y, z \in Rows : Older(x, y) /\ Older(y, z) => Older(x, z)
      /\ \A x, y \in Rows : x # y => Older(x, y) \/ Older(y, x)
  BY OlderIsAnOrder
<1>3. CASE by.key = "fetched_at"
  BY <1>2, <1>3 DEF Before
<1>4. CASE by.key # "fetched_at"
  BY <1>1, <1>2, <1>4 DEF Before, Directions
<1> QED  BY <1>3, <1>4

\* The number of rows before a row tells the rows of a set apart, and takes
\* every value up to their number.
Rank(rows, by) == [r \in rows |-> Cardinality({s \in rows : Before(s, r, by)})]

LEMMA RankIsBijective ==
  ASSUME session \in Sessions, NEW by, by.direction \in Directions, NEW rows \in SUBSET Rows
  PROVE  /\ IsFiniteSet(rows) /\ Cardinality(rows) \in Nat
         /\ Rank(rows, by) \in Bijection(rows, 0..(Cardinality(rows) - 1))
<1> DEFINE n == Cardinality(rows)
           below(r) == {s \in rows : Before(s, r, by)}
           rank == Rank(rows, by)
<1>1. IsFiniteSet(rows) /\ n \in Nat
  BY RowsAreFinite, FS_Subset, FS_CardinalityType
<1>2. \A r \in rows : rank[r] = Cardinality(below(r))
  BY DEF Rank
<1>3. \A r \in rows : IsFiniteSet(below(r)) /\ rank[r] \in Nat
  BY <1>1, <1>2, FS_Subset, FS_CardinalityType
<1>4. \A r \in rows : rank[r] <= n - 1
  <2> SUFFICES ASSUME NEW r \in rows  PROVE rank[r] <= n - 1
    OBVIOUS
  <2>1. IsFiniteSet(rows \ {r}) /\ Cardinality(rows \ {r}) = n - 1
    BY <1>1, FS_RemoveElement
  <2>2. below(r) \in SUBSET (rows \ {r})
    BY BeforeIsAnOrder
  <2>3. Cardinality(below(r)) <= Cardinality(rows \ {r})
    BY <2>1, <2>2, FS_Subset
  <2> QED  BY <1>2, <2>1, <2>3
<1>5. \A q, r \in rows : Before(q, r, by) => rank[q] < rank[r]
  <2> SUFFICES ASSUME NEW q \in rows, NEW r \in rows, Before(q, r, by)  PROVE rank[q] < rank[r]
    OBVIOUS
  <2>1. q \notin below(q) /\ below(q) \cup {q} \in SUBSET below(r)
    BY BeforeIsAnOrder
  <2>2. Cardinality(below(q) \cup {q}) = rank[q] + 1
    BY <1>2, <1>3, <2>1, FS_AddElement
  <2>3. Cardinality(below(q) \cup {q}) <= Cardinality(below(r))
    BY <1>3, <2>1, FS_Subset
  <2>4. rank[q] \in Nat /\ rank[r] \in Nat /\ rank[r] = Cardinality(below(r))
    BY <1>2, <1>3
  <2> HIDE DEF rank, below
  <2> QED  BY <2>2, <2>3, <2>4
<1>6. \A q, r \in rows : rank[q] = rank[r] => q = r
  <2> SUFFICES ASSUME NEW q \in rows, NEW r \in rows, q # r  PROVE rank[q] # rank[r]
    OBVIOUS
  <2>1. Before(q, r, by) \/ Before(r, q, by)
    BY BeforeIsAnOrder
  <2>2. rank[q] \in Nat /\ rank[r] \in Nat
    BY <1>3
  <2>3. rank[q] < rank[r] \/ rank[r] < rank[q]
    BY <1>5, <2>1
  <2> HIDE DEF rank
  <2> QED  BY <2>2, <2>3
<1>7. rank \in [rows -> 0..(n - 1)]
  <2>1. \A r \in rows : rank[r] \in 0..(n - 1)
    <3> SUFFICES ASSUME NEW r \in rows  PROVE rank[r] \in 0..(n - 1)
      OBVIOUS
    <3>1. n \in Nat /\ rank[r] \in Nat /\ rank[r] <= n - 1
      BY <1>1, <1>3, <1>4
    <3> HIDE DEF rank, n
    <3> QED  BY <3>1
  <2> QED  BY <2>1 DEF Rank
<1>8. IsFiniteSet(0..(n - 1)) /\ Cardinality(0..(n - 1)) = n
  BY <1>1, FS_Interval
<1> HIDE DEF rank, n
<1>9. rank \in Injection(rows, 0..(n - 1))
  BY <1>6, <1>7 DEF Injection, IsInjective
<1>10. rank \in Surjection(rows, 0..(n - 1))
  BY <1>8, <1>9, FS_Injection DEF n
<1> QED  BY <1>1, <1>9, <1>10 DEF Bijection, n, rank

\* A page holds as many rows as are left for it.
LEMMA PageSize ==
  ASSUME session \in Sessions, NEW by, by.direction \in Directions, NEW rows \in SUBSET Rows,
         NEW offset \in Nat
  PROVE  LET left == Cardinality(rows) - offset
         IN  Cardinality(PageOf(rows, by, offset))
               = IF left <= 0 THEN 0 ELSE Smaller(left, ItemsPerPage)
<1> DEFINE n == Cardinality(rows)
           rank == Rank(rows, by)
           shown == PageOf(rows, by, offset)
           last == IF offset + ItemsPerPage <= n THEN offset + ItemsPerPage - 1 ELSE n - 1
<1>1. IsFiniteSet(rows) /\ n \in Nat /\ rank \in Bijection(rows, 0..(n - 1))
  BY RankIsBijective
<1>2. ItemsPerPage \in Nat /\ ItemsPerPage # 0
  BY ItemsPerPageAssumption
<1>3. shown = {r \in rows : rank[r] \in offset..(offset + ItemsPerPage - 1)}
  BY DEF PageOf, Rank
<1> HIDE DEF n, rank, shown
<1>4. last \in Int
  BY <1>1, <1>2
<1>5. [r \in shown |-> rank[r]] \in Bijection(shown, offset..last)
  <2> DEFINE f == [r \in shown |-> rank[r]]
  <2>1. /\ \A r \in rows : rank[r] \in 0..(n - 1)
        /\ \A q, r \in rows : rank[q] = rank[r] => q = r
        /\ \A m \in 0..(n - 1) : \E r \in rows : rank[r] = m
    BY <1>1 DEF Bijection, Injection, Surjection, IsInjective
  <2>2. \A r \in shown : f[r] = rank[r] /\ r \in rows
    BY <1>3
  <2>3. \A r \in shown : f[r] \in offset..last
    <3> SUFFICES ASSUME NEW r \in shown  PROVE rank[r] \in offset..last
      BY <2>2
    <3>1. rank[r] \in 0..(n - 1) /\ rank[r] \in offset..(offset + ItemsPerPage - 1)
      BY <1>3, <2>1
    <3> QED  BY <1>1, <1>2, <3>1
  <2>4. \A m \in offset..last : \E r \in shown : f[r] = m
    <3> SUFFICES ASSUME NEW m \in offset..last  PROVE \E r \in shown : f[r] = m
      OBVIOUS
    <3>1. m \in 0..(n - 1) /\ m \in offset..(offset + ItemsPerPage - 1)
      BY <1>1, <1>2
    <3>2. PICK r \in rows : rank[r] = m
      BY <2>1, <3>1
    <3>3. r \in shown
      BY <1>3, <3>1, <3>2
    <3> QED  BY <2>2, <3>2, <3>3
  <2>5. f \in [shown -> offset..last]
    BY <2>3
  <2> HIDE DEF f, last
  <2>6. f \in Injection(shown, offset..last)
    BY <2>1, <2>2, <2>5 DEF Injection, IsInjective
  <2>7. f \in Surjection(shown, offset..last)
    BY <2>4, <2>5 DEF Surjection
  <2> QED  BY <2>6, <2>7 DEF Bijection, f
<1>6. IsFiniteSet(shown)
  BY <1>1, <1>3, FS_Subset
<1>7. Cardinality(shown) = Cardinality(offset..last)
  <2>1. ExistsBijection(shown, offset..last)
    BY <1>5 DEF ExistsBijection
  <2> HIDE DEF last
  <2> QED  BY <1>6, <2>1, FS_Bijection
<1>8. Cardinality(offset..last) = IF offset > last THEN 0 ELSE last - offset + 1
  BY <1>4, FS_Interval
<1>9. (IF offset > last THEN 0 ELSE last - offset + 1)
        = IF n - offset <= 0 THEN 0 ELSE Smaller(n - offset, ItemsPerPage)
  BY <1>1, <1>2 DEF Smaller
<1> QED  BY <1>7, <1>8, <1>9 DEF n, shown

\* List and count ask for the same rows: when both are answered from one version
\* of the table, the count says how many rows each page holds, unless a filter is
\* in force that the API drops from the list (the requests of *Table.tsx are
\* assembled by hand, twice in each of six files).
THEOREM CountMatchesPage == Spec => []CountExplainsPage
<1>1. ListingInv => CountExplainsPage
  <2> SUFFICES ASSUME ListingInv, Has(ListData), Has(CountData),
                      ListData.version = CountData.version, AllHandedOn
               PROVE  LET left == CountData.answer - (page - 1) * ItemsPerPage
                      IN  Cardinality(ListData.answer)
                            = IF left <= 0 THEN 0 ELSE Smaller(left, ItemsPerPage)
    BY DEF CountExplainsPage
  <2> USE DEF ListingInv
  <2> DEFINE k == ListKey(form, network, sort, page)
             j == CountKey(form, network)
             offset == (page - 1) * ItemsPerPage
             rows == tables[ListData.version]
             wanted == {r \in rows : Wanted(r)}
  <2>1. /\ k \in DOMAIN cache /\ ListData = cache[k] /\ cache[k].answer # None
        /\ j \in DOMAIN cache /\ CountData = cache[j] /\ cache[j].answer # None
    BY DEF Has, ListData, CountData
  <2>2. /\ k.query = "list" /\ k.kind = Kind /\ k.request = Request(ListAsks[Kind], form, network)
        /\ k.sort = sort /\ k.offset = offset
        /\ j.query = "count" /\ j.request = Request(CountAsks[Kind], form, network)
    BY DEF ListKey, CountKey
  <2> HIDE DEF k, j
  <2>3. ListData.answer = Answer(k, rows) /\ CountData.answer = Answer(j, rows)
        /\ rows \in SUBSET Rows
    BY <2>1 DEF CacheOK, Version
  <2>4. CountData.answer = Cardinality({r \in rows : Match(r, j.request)})
    BY <2>2, <2>3 DEF Answer
  <2>5. Answer(k, rows) = IF Refused(k.request) THEN None
                          ELSE PageOf({r \in rows : Match(r, HandedOn(k.kind, k.request))}, sort, offset)
    BY <2>2 DEF Answer
  <2> HIDE DEF rows, offset
  <2>6. ~Refused(k.request)
    BY <2>1, <2>3, <2>5
  <2>7. AsksEveryColumn(Kind, ListAsks[Kind]) /\ AsksEveryColumn(Kind, CountAsks[Kind])
    BY SessionColumns DEF Consistent
  <2>8. ~Refused(j.request)
    BY <2>2, CountIsNeverRefused
  <2>9. network # "null"
    BY DEF ChoicesOK
  <2>10. /\ {r \in rows : Match(r, HandedOn(k.kind, k.request))} = wanted
        /\ {r \in rows : Match(r, j.request)} = wanted
    BY <2>2, <2>6, <2>7, <2>8, <2>9, RequestAsksForWanted, NothingIsLost
  <2>11. ListData.answer = PageOf(wanted, sort, offset) /\ CountData.answer = Cardinality(wanted)
    BY <2>3, <2>4, <2>5, <2>6, <2>10
  <2>12. wanted \in SUBSET Rows /\ sort.direction \in Directions
    BY <2>3 DEF ChoicesOK
  <2>13. offset \in Nat
    <3>1. page \in Nat /\ page # 0 /\ ItemsPerPage \in Nat
      BY ItemsPerPageAssumption DEF ChoicesOK
    <3>2. page - 1 \in Nat
      BY <3>1
    <3> QED  BY <3>1, <3>2 DEF offset
  <2> HIDE DEF wanted
  <2> QED  BY <2>11, <2>12, <2>13, PageSize DEF offset
<1> QED  BY <1>1, ListingInvHolds, PTL
=============================================================================
