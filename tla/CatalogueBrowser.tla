-------------------------- MODULE CatalogueBrowser --------------------------
(***************************************************************************)
(* The two screens that list the catalogue: the Prices tab                 *)
(* (Prices/ViewController.swift) and the item selection screen of the      *)
(* add sheet (addNewItemSelection.swift).  Each has a search bar and a     *)
(* table of its own, and both tables read the one global filteredData,     *)
(* which the arrival of the catalogue replaces as well.                    *)
(*                                                                         *)
(* A table keeps the rows it laid out until it is told to reload; a row    *)
(* scrolled out and in again is laid out anew.  A table that is not on the *)
(* screen lays out when it next is.                                        *)
(***************************************************************************)
EXTENDS ItemPrices, ListLemmas

CONSTANTS
    Catalogues,     \* the lists of items a download may bring
    SearchTexts, NoText,
    Hits,           \* Hits[t]: the names that contain t in either case
    FirstPlatform,  \* platform of a first launch: "PC"
    NoItem, NoAlert

BrowserAssumption ==
    /\ Catalogues \subseteq Seq(decodingitem)
    /\ NoText \in SearchTexts
    /\ Hits \in [SearchTexts -> SUBSET ItemNames]
    /\ FirstPlatform \in Platforms
    /\ NoItem \notin decodingitem

VARIABLES
    items, filteredData,    \* the globals
    load,                   \* the download: "reading", "posted", "done" or "failed"
    platform, saved,        \* the Prices tab's platform and its copy on disk
    screen,                 \* "elsewhere", "prices" or "selection"
    priceText,              \* the text in the Prices tab's search bar
    priceRows,              \* its rows as laid out: the item and the price on each
    loaded,                 \* viewDidLoad of the Prices tab has run
    pending,                \* its table has yet to lay out
    itemRows,               \* the rows of the selection screen
    selectedItem,
    alert,                  \* the item the alert is about; history: the row and text
    trap

prices_tab == <<priceText, priceRows, loaded, pending>>
vars == <<items, filteredData, load, platform, saved, screen, prices_tab, itemRows,
          selectedItem, alert, trap>>

-----------------------------------------------------------------------------
\* createPrice of the default colour's price, "No Price" when there is none.
cellText(item, p) == [item |-> item, price |-> getColourPrice(item, DefaultColour, p)]

Rows(list, p) == [r \in DOMAIN list |-> cellText(list[r], p)]

\* textDidChange of either search bar: the hits, or everything for no text.
Search(text, list) ==
    IF text = NoText THEN list
    ELSE LET at == Ascending({i \in DOMAIN list : list[i].itemName \in Hits[text]})
         IN  [k \in DOMAIN at |-> list[at[k]]]

\* An index into the shared list is checked when it is used.
IndexCheck(r) == IF r \in DOMAIN filteredData THEN "none" ELSE "index"

Running == trap = "none"
Free == Running /\ alert = NoAlert

Init ==
    /\ items = <<>> /\ filteredData = <<>> /\ load = "reading"
    /\ platform = FirstPlatform /\ saved = FirstPlatform
    /\ screen = "elsewhere"
    /\ priceText = NoText /\ priceRows = <<>> /\ loaded = FALSE /\ pending = TRUE
    /\ itemRows = <<>> /\ selectedItem = NoItem
    /\ alert = NoAlert /\ trap = "none"

\* The answer of the database: both globals, and a block that announces it.
CatalogueArrives(list) ==
    /\ Running /\ load = "reading"
    /\ items' = list /\ filteredData' = list
    /\ load' = "posted"
    /\ UNCHANGED <<platform, saved, screen, prices_tab, itemRows, selectedItem, alert, trap>>

LoadFails ==
    /\ Running /\ load = "reading"
    /\ load' = "failed"
    /\ UNCHANGED <<items, filteredData, platform, saved, screen, prices_tab, itemRows,
                   selectedItem, alert, trap>>

\* The block: every table that exists reloads.
ReloadItems ==
    /\ Running /\ load = "posted"
    /\ load' = "done"
    /\ priceRows' = IF loaded /\ screen = "prices" THEN Rows(filteredData, platform) ELSE priceRows
    /\ pending' = (screen # "prices")
    /\ itemRows' = IF screen = "selection" THEN filteredData ELSE itemRows
    /\ UNCHANGED <<items, filteredData, platform, saved, screen, priceText, loaded,
                   selectedItem, alert, trap>>

\* Mutant: viewWillAppear leaves the shared list as another screen left it.
viewWillAppear_NoReset == UNCHANGED filteredData

\* viewWillAppear of the Prices tab (and viewDidLoad the first time).
viewWillAppear == filteredData' = items

OpenPrices ==
    /\ Free /\ screen = "elsewhere"
    /\ screen' = "prices"
    /\ viewWillAppear
    /\ loaded' = TRUE /\ pending' = FALSE
    /\ priceRows' = IF pending THEN Rows(filteredData', platform) ELSE priceRows
    /\ UNCHANGED <<items, load, platform, saved, priceText, itemRows, selectedItem, alert, trap>>

LeavePrices ==
    /\ Free /\ screen = "prices"
    /\ screen' = "elsewhere"
    /\ UNCHANGED <<items, filteredData, load, platform, saved, prices_tab, itemRows,
                   selectedItem, alert, trap>>

SearchPrices(text) ==
    /\ Free /\ screen = "prices" /\ text # priceText
    /\ priceText' = text
    /\ filteredData' = Search(text, items)
    /\ priceRows' = Rows(filteredData', platform)
    /\ UNCHANGED <<items, load, platform, saved, screen, loaded, pending, itemRows,
                   selectedItem, alert, trap>>

\* platformChanged and updatePlatform.
platformChanged(p) ==
    /\ Free /\ screen = "prices" /\ p # platform
    /\ platform' = p /\ saved' = p
    /\ priceRows' = Rows(filteredData, p)
    /\ UNCHANGED <<items, filteredData, load, screen, priceText, loaded, pending, itemRows,
                   selectedItem, alert, trap>>

\* A row is laid out again: the index is checked against the list of now.
ScrollPrices(r) ==
    /\ Free /\ screen = "prices" /\ r \in DOMAIN priceRows
    /\ trap' = IndexCheck(r)
    /\ priceRows' = IF trap' = "none"
                    THEN [priceRows EXCEPT ![r] = cellText(filteredData[r], platform)]
                    ELSE priceRows
    /\ UNCHANGED <<items, filteredData, load, platform, saved, screen, priceText, loaded,
                   pending, itemRows, selectedItem, alert>>

\* didSelectRowAt: an alert with every price of the item at that index now.
SelectPrice(r) ==
    /\ Free /\ screen = "prices" /\ r \in DOMAIN priceRows
    /\ trap' = IndexCheck(r)
    /\ alert' = IF trap' = "none"
                THEN [item |-> filteredData[r], row |-> priceRows[r].item, text |-> priceText]
                ELSE NoAlert
    /\ UNCHANGED <<items, filteredData, load, platform, saved, screen, prices_tab, itemRows,
                   selectedItem>>

CloseAlert ==
    /\ Running /\ alert # NoAlert
    /\ alert' = NoAlert
    /\ UNCHANGED <<items, filteredData, load, platform, saved, screen, prices_tab, itemRows,
                   selectedItem, trap>>

\* viewDidLoad of a new selection screen, from the sheet on the Investments tab.
OpenSelection ==
    /\ Free /\ screen = "elsewhere"
    /\ screen' = "selection"
    /\ filteredData' = items
    /\ itemRows' = items
    /\ UNCHANGED <<items, load, platform, saved, prices_tab, selectedItem, alert, trap>>

SearchSelection(text) ==
    /\ Running /\ screen = "selection"
    /\ filteredData' = Search(text, items)
    /\ itemRows' = filteredData'
    /\ UNCHANGED <<items, load, platform, saved, screen, prices_tab, selectedItem, alert, trap>>

\* didSelectRowAt of the selection screen, which is popped.
PickItem(r) ==
    /\ Running /\ screen = "selection" /\ r \in DOMAIN itemRows
    /\ trap' = IndexCheck(r)
    /\ selectedItem' = IF trap' = "none" THEN filteredData[r] ELSE selectedItem
    /\ screen' = "elsewhere" /\ itemRows' = <<>>
    /\ UNCHANGED <<items, filteredData, load, platform, saved, prices_tab, alert>>

CloseSelection ==
    /\ Running /\ screen = "selection"
    /\ screen' = "elsewhere" /\ itemRows' = <<>>
    /\ UNCHANGED <<items, filteredData, load, platform, saved, prices_tab, selectedItem,
                   alert, trap>>

Relaunch ==
    /\ items' = <<>> /\ filteredData' = <<>> /\ load' = "reading"
    /\ platform' = saved
    /\ screen' = "elsewhere"
    /\ priceText' = NoText /\ priceRows' = <<>> /\ loaded' = FALSE /\ pending' = TRUE
    /\ itemRows' = <<>> /\ selectedItem' = NoItem
    /\ alert' = NoAlert /\ trap' = "none"
    /\ UNCHANGED saved

Next ==
    \/ \E list \in Catalogues : CatalogueArrives(list)
    \/ LoadFails \/ ReloadItems
    \/ OpenPrices \/ LeavePrices \/ CloseAlert
    \/ \E text \in SearchTexts : SearchPrices(text) \/ SearchSelection(text)
    \/ \E p \in Platforms : platformChanged(p)
    \/ \E r \in DOMAIN priceRows : ScrollPrices(r) \/ SelectPrice(r)
    \/ OpenSelection \/ CloseSelection
    \/ \E r \in DOMAIN itemRows : PickItem(r)
    \/ Relaunch

Spec == Init /\ [][Next]_vars

-----------------------------------------------------------------------------
\* No row of either table is ever beyond the shared list when it is touched or
\* scrolled, whichever screen searched last (cellForRowAt, didSelectRowAt).
IndexInRange == trap = "none"

\* With no text in the bar the Prices tab lists the whole catalogue with the
\* prices of the chosen platform, whatever the selection screen searched for
\* meanwhile, once the catalogue is announced.
WholeCatalogue ==
    screen = "prices" /\ priceText = NoText /\ load # "posted" =>
        priceRows = Rows(items, platform)

\* The alert is about the row that was touched, unless a search is in the bar:
\* then the tab may have come back to a list that is no longer filtered.
AlertOfRow ==
    alert # NoAlert /\ alert.text = NoText => alert.item = alert.row

\* The selection screen's rows are the shared list, so the item picked is the
\* one on the row, from the moment the arrival of the catalogue is announced.
SelectionInSync ==
    screen = "selection" /\ load # "posted" => itemRows = filteredData

-----------------------------------------------------------------------------
(* Proofs, for any catalogues, texts and platforms.  None of the four is    *)
(* inductive: which rows a table has depends on what was on the screen when *)
(* the catalogue arrived.                                                   *)

TypeOK ==
    /\ items \in Seq(decodingitem) /\ filteredData \in Seq(decodingitem)
    /\ itemRows \in Seq(decodingitem)
    /\ load \in {"reading", "posted", "done", "failed"}
    /\ screen \in {"elsewhere", "prices", "selection"}
    /\ priceText \in SearchTexts
    /\ priceRows \in Seq([item : decodingitem, price : PriceRanges \cup {NoPrice}])
    /\ loaded \in BOOLEAN /\ pending \in BOOLEAN
    /\ platform \in Platforms /\ saved \in Platforms

\* Before the catalogue arrives every list is empty.
NothingYet ==
    load \in {"reading", "failed"} =>
        items = <<>> /\ filteredData = <<>> /\ priceRows = <<>> /\ itemRows = <<>>

\* A table on the screen has no more rows than the shared list, and the Prices
\* tab never more than the catalogue: viewWillAppear brings all of it back.
RowsWithin ==
    /\ Len(filteredData) <= Len(items) /\ Len(priceRows) <= Len(items)
    /\ screen = "prices" => Len(priceRows) <= Len(filteredData)
    /\ screen = "selection" => Len(itemRows) <= Len(filteredData)

\* On the Prices tab the shared list is the catalogue when nothing is searched.
ListOfTab ==
    screen = "prices" => loaded /\ ~pending /\ (priceText = NoText => filteredData = items)

\* A table of the Prices tab that is laid out shows the catalogue when nothing
\* is searched, or nothing until the arrival of the catalogue is announced.
RowsOfTab ==
    ~pending /\ priceText = NoText =>
        priceRows = Rows(items, platform) \/ (load = "posted" /\ priceRows = <<>>)

IInv == /\ TypeOK /\ IndexInRange /\ NothingYet /\ RowsWithin /\ ListOfTab /\ RowsOfTab
        /\ SelectionInSync /\ AlertOfRow

RowRecord == [item : decodingitem, price : PriceRanges \cup {NoPrice}]

\* A search leaves items of the list, at most all of them (textDidChange).
LEMMA SearchProperties ==
    ASSUME BrowserAssumption, NEW text \in SearchTexts, NEW list \in Seq(decodingitem)
    PROVE  /\ Search(text, list) \in Seq(decodingitem)
           /\ Len(Search(text, list)) <= Len(list)
           /\ text = NoText => Search(text, list) = list
<1>1. CASE text = NoText
    BY <1>1 DEF Search
<1>2. CASE text # NoText
    <2> DEFINE S == {i \in DOMAIN list : list[i].itemName \in Hits[text]}
               p == Ascending(S)
               t == [k \in DOMAIN p |-> list[p[k]]]
    <2>1. S \in SUBSET DOMAIN list /\ DOMAIN list = 1..Len(list) /\ Len(list) \in Nat
        OBVIOUS
    <2>2. Search(text, list) = t
        BY <1>2 DEF Search
    <2> HIDE DEF S
    <2>3. p \in [1..Cardinality(S) -> S] /\ t \in Seq(decodingitem) /\ DOMAIN t = DOMAIN p
        BY <2>1, SelectedInOrder
    <2>4. Cardinality(S) \in Nat /\ Cardinality(S) <= Len(list)
        <3>1. IsFiniteSet(1..Len(list)) /\ Cardinality(1..Len(list)) = Len(list)
            <4>1. 1 \in Int /\ Len(list) \in Int /\ (1 > Len(list) => Len(list) = 0)
                BY <2>1
            <4>2. IsFiniteSet(1..Len(list))
                BY <4>1, FS_Interval
            <4>3. Cardinality(1..Len(list)) = IF 1 > Len(list) THEN 0 ELSE Len(list) - 1 + 1
                BY <4>1, FS_Interval, Zenon
            <4> QED
                BY <4>1, <4>2, <4>3
        <3>2. IsFiniteSet(S) /\ Cardinality(S) <= Len(list)
            BY <2>1, <3>1, FS_Subset
        <3> QED
            BY <3>2, FS_CardinalityType
    <2> HIDE DEF p, t
    <2>5. Len(t) = Cardinality(S)
        BY <2>3, <2>4
    <2> QED
        BY <1>2, <2>2, <2>3, <2>4, <2>5
<1> QED
    BY <1>1, <1>2

\* A table that reloads has a row for each item of the list (cellForRowAt).
LEMMA RowsProperties ==
    ASSUME NEW list \in Seq(decodingitem), NEW p \in Platforms
    PROVE  /\ Rows(list, p) \in Seq(RowRecord)
           /\ Len(Rows(list, p)) = Len(list)
           /\ \A r \in DOMAIN list : /\ Rows(list, p)[r] = cellText(list[r], p)
                                     /\ cellText(list[r], p) \in RowRecord
                                     /\ cellText(list[r], p).item = list[r]
<1>1. ASSUME NEW item \in decodingitem
      PROVE  cellText(item, p) \in RowRecord /\ cellText(item, p).item = item
    <2>1. getColourPrice(item, DefaultColour, p) = item.itemPriceRange[<<DefaultColour, p>>]
        BY PricesAssumption DEF getColourPrice
    <2>2. item.itemPriceRange[<<DefaultColour, p>>] \in PriceRanges \cup {NoPrice}
        BY PricesAssumption DEF decodingitem, prices
    <2> QED
        BY <2>1, <2>2 DEF cellText, RowRecord
<1>2. DOMAIN list = 1..Len(list) /\ Len(list) \in Nat
    OBVIOUS
<1>3. Rows(list, p) \in [1..Len(list) -> RowRecord]
    BY <1>1, <1>2 DEF Rows
<1>4. Rows(list, p) \in Seq(RowRecord) /\ Len(Rows(list, p)) = Len(list)
    BY <1>2, <1>3
<1> QED
    BY <1>1, <1>4 DEF Rows

\* The first launch.
LEMMA InitInv == ASSUME BrowserAssumption, Init PROVE IInv
<1>1. Rows(<<>>, platform) = <<>>
    BY DEF Rows
<1>2. TypeOK
    <2>1. <<>> \in Seq(decodingitem)
          /\ <<>> \in Seq([item : decodingitem, price : PriceRanges \cup {NoPrice}])
        OBVIOUS
    <2> QED
        BY <2>1 DEF Init, BrowserAssumption, TypeOK
<1> QED
    BY <1>1, <1>2 DEF Init, IInv, IndexInRange, NothingYet, RowsWithin, ListOfTab, RowsOfTab,
                     SelectionInSync, AlertOfRow

\* The catalogue arrives, is announced, or does not come (initializeData).
LEMMA LoadInv ==
    ASSUME BrowserAssumption, IInv,
           (\E list \in Catalogues : CatalogueArrives(list)) \/ LoadFails \/ ReloadItems
    PROVE  IInv'
<1> USE DEF IInv
<1>1. ASSUME NEW list \in Catalogues, CatalogueArrives(list) PROVE IInv'
    <2>1. list \in Seq(decodingitem) /\ Len(list) \in Nat
        BY DEF BrowserAssumption
    <2>2. /\ items' = list /\ filteredData' = list /\ load' = "posted"
          /\ UNCHANGED <<platform, saved, screen, prices_tab, itemRows, selectedItem, alert, trap>>
          /\ priceRows = <<>> /\ itemRows = <<>>
        BY <1>1 DEF CatalogueArrives, NothingYet
    <2>3. TypeOK'
        BY <2>1, <2>2 DEF TypeOK, prices_tab
    <2>4. RowsWithin'
        BY <2>1, <2>2 DEF RowsWithin, prices_tab
    <2> QED
        BY <2>2, <2>3, <2>4 DEF IndexInRange, NothingYet, ListOfTab, RowsOfTab, SelectionInSync,
                                AlertOfRow, prices_tab
<1>2. CASE LoadFails
    <2>1. load = "reading" /\ load' = "failed"
          /\ UNCHANGED <<items, filteredData, platform, saved, screen, prices_tab, itemRows, alert, trap>>
        BY <1>2 DEF LoadFails
    <2>2. TypeOK'
        BY <2>1 DEF TypeOK, prices_tab
    <2>3. RowsOfTab'
        BY <2>1 DEF RowsOfTab, prices_tab, Rows
    <2> QED
        BY <2>1, <2>2, <2>3 DEF IndexInRange, NothingYet, RowsWithin, ListOfTab, SelectionInSync,
                                AlertOfRow, prices_tab
<1>3. CASE ReloadItems
    <2>1. /\ load' = "done" /\ pending' = (screen # "prices")
          /\ priceRows' = IF loaded /\ screen = "prices" THEN Rows(filteredData, platform) ELSE priceRows
          /\ itemRows' = IF screen = "selection" THEN filteredData ELSE itemRows
          /\ UNCHANGED <<items, filteredData, platform, saved, screen, priceText, loaded, alert, trap>>
        BY <1>3 DEF ReloadItems
    <2>2. /\ Rows(filteredData, platform) \in Seq(RowRecord)
          /\ Len(Rows(filteredData, platform)) = Len(filteredData)
        BY RowsProperties DEF TypeOK
    <2>3. TypeOK'
        BY <2>1, <2>2 DEF TypeOK, RowRecord
    <2>4. ListOfTab'
        BY <2>1 DEF ListOfTab
    <2>5. RowsOfTab'
        BY <2>1 DEF ListOfTab, RowsOfTab, Rows
    <2>6. RowsWithin'
        BY <2>1, <2>2 DEF RowsWithin, TypeOK
    <2> QED
        BY <2>1, <2>3, <2>4, <2>5, <2>6 DEF IndexInRange, NothingYet, SelectionInSync, AlertOfRow
<1> QED
    BY <1>1, <1>2, <1>3

\* The Prices tab comes and goes, searches, changes its platform
\* (viewWillAppear, textDidChange, platformChanged).
LEMMA PricesInv ==
    ASSUME BrowserAssumption, IInv,
           \/ OpenPrices \/ LeavePrices
           \/ \E text \in SearchTexts : SearchPrices(text)
           \/ \E p \in Platforms : platformChanged(p)
    PROVE  IInv'
<1> USE DEF IInv
<1>1. CASE OpenPrices
    <2>1. /\ screen' = "prices" /\ filteredData' = items /\ loaded' = TRUE /\ pending' = FALSE
          /\ priceRows' = IF pending THEN Rows(items, platform) ELSE priceRows
          /\ UNCHANGED <<items, load, platform, saved, priceText, itemRows, alert, trap>>
        BY <1>1 DEF OpenPrices, viewWillAppear
    <2>2. Rows(items, platform) \in Seq(RowRecord) /\ Len(Rows(items, platform)) = Len(items)
        BY RowsProperties DEF TypeOK
    <2>3. TypeOK'
        BY <2>1, <2>2 DEF TypeOK, RowRecord
    <2>4. RowsWithin'
        BY <2>1, <2>2 DEF RowsWithin, TypeOK
    <2>5. NothingYet'
        BY <2>1 DEF NothingYet, Rows
    <2>6. RowsOfTab'
        BY <2>1 DEF RowsOfTab, Rows
    <2> QED
        BY <2>1, <2>3, <2>4, <2>5, <2>6 DEF IndexInRange, ListOfTab, SelectionInSync, AlertOfRow
<1>2. CASE LeavePrices
    <2>1. /\ screen' = "elsewhere"
          /\ UNCHANGED <<items, filteredData, load, platform, saved, prices_tab, itemRows, alert, trap>>
        BY <1>2 DEF LeavePrices
    <2>2. RowsOfTab'
        BY <2>1 DEF RowsOfTab, prices_tab, Rows
    <2> QED
        BY <2>1, <2>2 DEF TypeOK, IndexInRange, NothingYet, RowsWithin, ListOfTab,
                          SelectionInSync, AlertOfRow, prices_tab
<1>3. ASSUME NEW text \in SearchTexts, SearchPrices(text) PROVE IInv'
    <2> DEFINE found == Search(text, items)
    <2>1. /\ screen = "prices" /\ priceText' = text /\ filteredData' = found
          /\ priceRows' = Rows(found, platform)
          /\ UNCHANGED <<items, load, platform, saved, screen, loaded, pending, itemRows, alert, trap>>
        BY <1>3 DEF SearchPrices
    <2>2. /\ found \in Seq(decodingitem) /\ Len(found) <= Len(items)
          /\ text = NoText => found = items
        BY SearchProperties DEF TypeOK
    <2> HIDE DEF found
    <2>3. Rows(found, platform) \in Seq(RowRecord) /\ Len(Rows(found, platform)) = Len(found)
        BY <2>2, RowsProperties DEF TypeOK
    <2>4. TypeOK'
        BY <2>1, <2>2, <2>3 DEF TypeOK, RowRecord
    <2>5. RowsWithin'
        BY <2>1, <2>2, <2>3 DEF RowsWithin, TypeOK
    <2>6. NothingYet'
        <3>1. items = <<>> => found = <<>> /\ Rows(found, platform) = <<>>
            <4>1. items = <<>> => Len(found) = 0
                BY <2>2
            <4>2. items = <<>> => found = <<>>
                BY <2>2, <4>1
            <4> QED
                BY <4>2 DEF Rows
        <3> QED
            BY <2>1, <3>1 DEF NothingYet
    <2>7. RowsOfTab'
        BY <2>1, <2>2 DEF RowsOfTab, Rows
    <2> QED
        BY <2>1, <2>2, <2>4, <2>5, <2>6, <2>7 DEF IndexInRange, ListOfTab, SelectionInSync, AlertOfRow
<1>4. ASSUME NEW p \in Platforms, platformChanged(p) PROVE IInv'
    <2>1. /\ screen = "prices" /\ platform' = p /\ saved' = p
          /\ priceRows' = Rows(filteredData, p)
          /\ UNCHANGED <<items, filteredData, load, screen, priceText, loaded, pending, itemRows,
                         alert, trap>>
        BY <1>4 DEF platformChanged
    <2>2. Rows(filteredData, p) \in Seq(RowRecord) /\ Len(Rows(filteredData, p)) = Len(filteredData)
        BY RowsProperties DEF TypeOK
    <2>3. TypeOK'
        BY <2>1, <2>2 DEF TypeOK, RowRecord
    <2>4. RowsWithin'
        BY <2>1, <2>2 DEF RowsWithin, TypeOK
    <2>5. NothingYet'
        BY <2>1 DEF NothingYet, Rows
    <2>6. RowsOfTab'
        BY <2>1 DEF RowsOfTab, ListOfTab, Rows
    <2> QED
        BY <2>1, <2>3, <2>4, <2>5, <2>6 DEF IndexInRange, ListOfTab, SelectionInSync, AlertOfRow
<1> QED
    BY <1>1, <1>2, <1>3, <1>4

\* A row of the Prices tab is scrolled in or touched: it is in the shared list
\* (cellForRowAt, didSelectRowAt).
LEMMA RowInv ==
    ASSUME BrowserAssumption, IInv, NEW r \in DOMAIN priceRows, ScrollPrices(r) \/ SelectPrice(r)
    PROVE  IInv'
<1> USE DEF IInv
<1>1. screen = "prices" /\ r \in DOMAIN filteredData /\ filteredData[r] \in decodingitem
    <2>1. screen = "prices"
        BY DEF ScrollPrices, SelectPrice
    <2>2. Len(priceRows) <= Len(filteredData) /\ r \in 1..Len(priceRows)
        BY <2>1 DEF RowsWithin, TypeOK
    <2> QED
        BY <2>1, <2>2 DEF TypeOK
<1>2. trap' = "none"
    BY <1>1 DEF ScrollPrices, SelectPrice, IndexCheck
<1>3. \A k \in DOMAIN filteredData : /\ cellText(filteredData[k], platform) \in RowRecord
                                     /\ cellText(filteredData[k], platform).item = filteredData[k]
                                     /\ Rows(filteredData, platform)[k] = cellText(filteredData[k], platform)
    BY RowsProperties DEF TypeOK
<1>4. priceText = NoText => filteredData = items /\ priceRows = Rows(filteredData, platform)
    <2>1. priceRows # <<>>
        OBVIOUS
    <2> QED
        BY <1>1, <2>1 DEF ListOfTab, RowsOfTab
<1>5. CASE ScrollPrices(r)
    <2>1. /\ priceRows' = [priceRows EXCEPT ![r] = cellText(filteredData[r], platform)]
          /\ UNCHANGED <<items, filteredData, load, platform, saved, screen, priceText, loaded,
                         pending, itemRows, alert>>
        BY <1>2, <1>5 DEF ScrollPrices
    <2>2. priceRows' \in Seq(RowRecord) /\ Len(priceRows') = Len(priceRows)
        BY <1>1, <1>3, <2>1 DEF TypeOK, RowRecord
    <2>3. TypeOK'
        BY <2>1, <2>2 DEF TypeOK, RowRecord
    <2>4. priceText = NoText => priceRows' = priceRows
        <3>1. priceText = NoText => priceRows[r] = cellText(filteredData[r], platform)
            BY <1>1, <1>3, <1>4
        <3> QED
            BY <2>1, <3>1 DEF TypeOK
    <2>5. RowsOfTab'
        BY <2>1, <2>4 DEF RowsOfTab, Rows
    <2>6. RowsWithin'
        BY <2>1, <2>2 DEF RowsWithin
    <2>7. NothingYet'
        BY <2>1 DEF NothingYet
    <2> QED
        BY <1>2, <2>1, <2>3, <2>5, <2>6, <2>7 DEF IndexInRange, ListOfTab, SelectionInSync, AlertOfRow
<1>6. CASE SelectPrice(r)
    <2>1. /\ alert' = [item |-> filteredData[r], row |-> priceRows[r].item, text |-> priceText]
          /\ UNCHANGED <<items, filteredData, load, platform, saved, screen, prices_tab, itemRows>>
        BY <1>2, <1>6 DEF SelectPrice
    <2>2. priceText = NoText => priceRows[r].item = filteredData[r]
        BY <1>1, <1>3, <1>4
    <2>3. AlertOfRow'
        BY <2>1, <2>2 DEF AlertOfRow
    <2>4. RowsOfTab'
        BY <2>1 DEF RowsOfTab, prices_tab, Rows
    <2> QED
        BY <1>2, <2>1, <2>3, <2>4 DEF TypeOK, IndexInRange, NothingYet, RowsWithin, ListOfTab,
                                      SelectionInSync, prices_tab
<1> QED
    BY <1>5, <1>6

\* The selection screen, and an alert that is closed (viewDidLoad,
\* textDidChange, didSelectRowAt).
LEMMA SelectionInv ==
    ASSUME BrowserAssumption, IInv,
           \/ OpenSelection \/ CloseSelection \/ CloseAlert
           \/ \E text \in SearchTexts : SearchSelection(text)
           \/ \E r \in DOMAIN itemRows : PickItem(r)
    PROVE  IInv'
<1> USE DEF IInv
<1>1. CASE OpenSelection
    <2>1. /\ screen' = "selection" /\ filteredData' = items /\ itemRows' = items
          /\ UNCHANGED <<items, load, platform, saved, prices_tab, alert, trap>>
        BY <1>1 DEF OpenSelection
    <2>2. RowsOfTab'
        BY <2>1 DEF RowsOfTab, prices_tab, Rows
    <2>3. RowsWithin'
        BY <2>1 DEF RowsWithin, prices_tab, TypeOK
    <2> QED
        BY <2>1, <2>2, <2>3 DEF TypeOK, IndexInRange, NothingYet, ListOfTab, SelectionInSync,
                                AlertOfRow, prices_tab
<1>2. ASSUME CloseSelection \/ \E r \in DOMAIN itemRows : PickItem(r) PROVE IInv'
    <2>1. /\ screen = "selection" /\ screen' = "elsewhere" /\ itemRows' = <<>>
          /\ UNCHANGED <<items, filteredData, load, platform, saved, prices_tab, alert>>
        BY <1>2 DEF CloseSelection, PickItem
    <2>2. trap' = "none"
        <3>1. CASE CloseSelection
            BY <3>1 DEF CloseSelection, IndexInRange
        <3>2. ASSUME NEW r \in DOMAIN itemRows, PickItem(r) PROVE trap' = "none"
            <4>1. Len(itemRows) <= Len(filteredData) /\ r \in 1..Len(itemRows)
                BY <2>1 DEF RowsWithin, TypeOK
            <4>2. r \in DOMAIN filteredData
                BY <4>1 DEF TypeOK
            <4> QED
                BY <3>2, <4>2 DEF PickItem, IndexCheck
        <3> QED
            BY <1>2, <3>1, <3>2
    <2>3. RowsOfTab'
        BY <2>1 DEF RowsOfTab, prices_tab, Rows
    <2> QED
        BY <2>1, <2>2, <2>3 DEF TypeOK, IndexInRange, NothingYet, RowsWithin, ListOfTab,
                                SelectionInSync, AlertOfRow, prices_tab
<1>3. CASE CloseAlert
    <2>1. /\ alert' = NoAlert
          /\ UNCHANGED <<items, filteredData, load, platform, saved, screen, prices_tab, itemRows, trap>>
        BY <1>3 DEF CloseAlert
    <2>2. RowsOfTab'
        BY <2>1 DEF RowsOfTab, prices_tab, Rows
    <2> QED
        BY <2>1, <2>2 DEF TypeOK, IndexInRange, NothingYet, RowsWithin, ListOfTab,
                          SelectionInSync, AlertOfRow, prices_tab
<1>4. ASSUME NEW text \in SearchTexts, SearchSelection(text) PROVE IInv'
    <2> DEFINE found == Search(text, items)
    <2>1. /\ screen = "selection" /\ filteredData' = found /\ itemRows' = found
          /\ UNCHANGED <<items, load, platform, saved, screen, prices_tab, alert, trap>>
        BY <1>4 DEF SearchSelection
    <2>2. found \in Seq(decodingitem) /\ Len(found) <= Len(items) /\ Len(found) \in Nat
        BY SearchProperties DEF TypeOK
    <2> HIDE DEF found
    <2>3. items = <<>> => found = <<>>
        <3>1. items = <<>> => Len(found) = 0
            BY <2>2
        <3> QED
            BY <2>2, <3>1
    <2>4. RowsOfTab'
        BY <2>1 DEF RowsOfTab, prices_tab, Rows
    <2>5. RowsWithin'
        BY <2>1, <2>2 DEF RowsWithin, prices_tab
    <2> QED
        BY <2>1, <2>2, <2>3, <2>4, <2>5 DEF TypeOK, IndexInRange, NothingYet, ListOfTab,
                                            SelectionInSync, AlertOfRow, prices_tab
<1> QED
    BY <1>1, <1>2, <1>3, <1>4

\* A new process.
LEMMA RelaunchInv == ASSUME BrowserAssumption, IInv, Relaunch PROVE IInv'
<1>1. Rows(<<>>, platform') = <<>>
    BY DEF Rows
<1>2. TypeOK'
    <2>1. <<>> \in Seq(decodingitem)
          /\ <<>> \in Seq([item : decodingitem, price : PriceRanges \cup {NoPrice}])
        OBVIOUS
    <2> QED
        BY <2>1 DEF IInv, TypeOK, Relaunch, BrowserAssumption
<1> QED
    BY <1>1, <1>2 DEF Relaunch, IInv, IndexInRange, NothingYet, RowsWithin, ListOfTab, RowsOfTab,
                     SelectionInSync, AlertOfRow

\* Every step keeps the invariant.
LEMMA NextInv == ASSUME BrowserAssumption, IInv, [Next]_vars PROVE IInv'
<1>1. CASE UNCHANGED vars
    <2>1. RowsOfTab'
        BY <1>1 DEF IInv, RowsOfTab, vars, prices_tab, Rows
    <2> QED
        BY <1>1, <2>1 DEF IInv, TypeOK, IndexInRange, NothingYet, RowsWithin, ListOfTab,
                          SelectionInSync, AlertOfRow, vars, prices_tab
<1>2. CASE Next
    BY <1>2, LoadInv, PricesInv, RowInv, SelectionInv, RelaunchInv DEF Next
<1> QED
    BY <1>1, <1>2

\* No row is beyond the shared list when it is touched or scrolled, whichever
\* screen searched last (cellForRowAt, didSelectRowAt).
THEOREM NoIndexTrap == ASSUME BrowserAssumption PROVE Spec => []IndexInRange
<1>1. Init => IInv
    BY InitInv
<1>2. IInv /\ [Next]_vars => IInv'
    BY NextInv
<1>3. IInv => IndexInRange
    BY DEF IInv
<1> QED
    BY <1>1, <1>2, <1>3, PTL DEF Spec

\* With no text in the bar the tab shows the whole catalogue with the prices of
\* its platform (viewWillAppear, platformChanged, the reloadItems observer).
THEOREM TabShowsCatalogue == ASSUME BrowserAssumption PROVE Spec => []WholeCatalogue
<1>1. Init => IInv
    BY InitInv
<1>2. IInv /\ [Next]_vars => IInv'
    BY NextInv
<1>3. IInv => WholeCatalogue
    BY DEF IInv, ListOfTab, RowsOfTab, WholeCatalogue
<1> QED
    BY <1>1, <1>2, <1>3, PTL DEF Spec

\* The alert is about the row that was touched, and the item that is picked is
\* the one on the row (didSelectRowAt of the two screens).
THEOREM TouchHitsItsRow ==
    ASSUME BrowserAssumption PROVE Spec => [](AlertOfRow /\ SelectionInSync)
<1>1. Init => IInv
    BY InitInv
<1>2. IInv /\ [Next]_vars => IInv'
    BY NextInv
<1>3. IInv => AlertOfRow /\ SelectionInSync
    BY DEF IInv
<1> QED
    BY <1>1, <1>2, <1>3, PTL DEF Spec
=============================================================================
