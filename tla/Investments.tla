---------------------------- MODULE Investments ----------------------------
(***************************************************************************)
(* The investments screen of the app: the portfolio a user keeps in        *)
(* UserDefaults, the table that shows it, the buttons of its rows, the     *)
(* add/edit sheet, the search bar, the total alert, and the one load of    *)
(* the price catalogue per launch that reprices the portfolio.             *)
(*                                                                         *)
(* Everything runs on the main queue, so an action is one handler from     *)
(* start to end, with the saving and reloading it calls.  What interleaves *)
(* is the user's taps with the blocks the app leaves on the queue: the     *)
(* answer of the database, the block it posts in turn, and the reload half *)
(* a second after every deletion.                                          *)
(*                                                                         *)
(* Positions start at 1: the code's index i is position i + 1.  A failing  *)
(* Swift runtime check (array index, force unwrap, overflow, cast) and an  *)
(* exception of UITableView end the process: trap says which one, and the  *)
(* user may only launch the app again.                                     *)
(***************************************************************************)
EXTENDS ItemPrices, SequencesExt

CONSTANTS
    SearchTexts,    \* texts the search bar may hold
    NoText, Space,  \* "" and " ", the two the deletion handler tells apart
    Hits,           \* Hits[t]: the item names that contain t
    MaxAmount,      \* maximum value of the steppers (the minimum is 1)
    TypedPrices,    \* what may be typed as the price an item was bought for
    Blank,          \* nothing typed in the price field
    MaxInt,         \* Int.max
    Catalogues,     \* price lists the database may answer with
    NoURL,          \* items whose itemUrlName makes no URL, spaces replaced
    NoItem, NoForm, NoAim, NoTotal,
    MaxInvestments, MaxID, MaxDelayed   \* bounds of the model

ASSUME SearchAssumption ==
    /\ {NoText, Space} \subseteq SearchTexts
    /\ Hits \in [SearchTexts -> SUBSET ItemNames]

ASSUME NumbersAssumption ==
    /\ MaxAmount \in Nat \ {0}
    /\ MaxInt \in Nat /\ MaxInt >= 100
    /\ Blank \notin Nat
    /\ TypedPrices \subseteq Nat \cup {Blank}

ASSUME CataloguesAssumption ==
    /\ Catalogues \subseteq Seq(decodingitem)
    /\ NoItem \notin decodingitem
    /\ NoURL \subseteq decodingitem

ASSUME BoundsAssumption ==
    /\ MaxInvestments \in Nat
    /\ MaxID \in Nat
    /\ MaxDelayed \in Nat

ASSUME AimAssumption == NoAim \notin [id : Nat, settled : BOOLEAN]

VARIABLES
    (* On disk *)
    saved,                   \* UserDefaults["Investments"]
    (* Globals of the running app *)
    investments,
    investmentFilteredData,  \* what the table's data source answers from
    items,                   \* the catalogue, empty until it is loaded
    cellTag,                 \* tag of the row whose button was pressed last
    (* The screen *)
    searchText,              \* searchBar.text
    rows,                    \* the cells of the table, as last laid out
    tableShown,              \* ~tableView.isHidden, and totalBarButton.isEnabled
    screen,                  \* what is on top of the tab
    form,                    \* selectedItem, selectedColour, ... of the sheet
    total,                   \* the figures of the total alert
    (* The main queue, and the process *)
    load,                    \* progress of initializeData
    delayed,                 \* reloads posted by reloadTableViewDelay and not yet run
    trap,                    \* the check that ended the process
    (* History: the row the user meant *)
    aim                      \* the investment on the row pressed, and whether no
                             \* delayed reload was outstanding at that moment

disk == <<saved>>
model == <<investments, investmentFilteredData>>
table == <<rows, tableShown, searchText>>
dialog == <<screen, form, total, cellTag, aim>>
queue == <<load, items, delayed>>
vars == <<disk, model, table, dialog, queue, trap>>

Traps == {"none", "index", "rows", "nil", "position", "url", "overflow", "cast"}
Screens == {"list", "confirm", "form", "refused", "chart", "total"}

\* A Swift Int of the build, 64 bits wide in the code.
Int64 == (-MaxInt - 1)..MaxInt
Fits(n) == n \in Int64

investmentItem ==
    [item : decodingitem, colour : Colours, quantity : 1..MaxAmount,
     boughtFor : 0..MaxInt, platform : Platforms, id : Nat]

Cell == [id : Nat, quantity : 1..MaxAmount, tag : Nat]

\* The sheet for adding (editing FALSE) or editing an investment.
Form ==
    [editing : BOOLEAN, item : decodingitem \cup {NoItem}, colour : Colours,
     platform : Platforms, amount : 1..MaxAmount, boughtFor : 0..MaxInt,
     blank : BOOLEAN, id : Nat]

-----------------------------------------------------------------------------
(* The portfolio *)

IDs(invs) == {invs[i].id : i \in DOMAIN invs}

Price(v) == getColourPrice(v.item, v.colour, v.platform)

\* Mutant: the number of investments as the next id.
investmentID_Count(invs) == Len(invs)

\* One more than the highest id in use, 0 when there is none.
investmentID(invs) ==
    IF invs = <<>> THEN 0 ELSE 1 + CHOOSE m \in IDs(invs) : \A n \in IDs(invs) : n <= m

\* The scan for an id: the last position that has it, 0 when none has.
Position(invs, id) ==
    LET at == {i \in DOMAIN invs : invs[i].id = id}
    IN  IF at = {} THEN 0 ELSE CHOOSE i \in at : \A j \in at : j <= i

\* Mutant: the loaded catalogue does not reach the investments.
Refresh_None(invs, cat) == invs

\* Every investment takes the item of its name from the catalogue, the last
\* one when the name occurs more than once, and keeps its own when none does.
Refresh(invs, cat) ==
    [i \in DOMAIN invs |->
        LET named == {a \in DOMAIN cat : cat[a].itemName = invs[i].item.itemName}
        IN  IF named = {} THEN invs[i]
            ELSE [invs[i] EXCEPT !.item = cat[CHOOSE a \in named : \A b \in named : b <= a]]]

\* Mutant: the empty search is matched like any other text.
Filter_NoEmptyCase(text, invs) ==
    LET p == Ascending({i \in DOMAIN invs : invs[i].item.itemName \in Hits[text]})
    IN  [j \in DOMAIN p |-> invs[p[j]]]

\* Mutant: the matches are appended to what was filtered before.
Filter_NoReset(text, invs) == investmentFilteredData \o Filter_NoEmptyCase(text, invs)

\* The rows the search bar leaves: all of them for "", else the names it is in.
Filter(text, invs) ==
    IF text = NoText THEN invs
    ELSE LET p == Ascending({i \in DOMAIN invs : invs[i].item.itemName \in Hits[text]})
         IN  [j \in DOMAIN p |-> invs[p[j]]]

-----------------------------------------------------------------------------
(* Laying out the table *)

\* The check that fails when cellForRowAt is asked for row r, in the order
\* of the code: the amount spent, the price, the amount earned, the position.
RowTrap(f, r, invs) ==
    IF r \notin DOMAIN f THEN "index"
    ELSE LET v == f[r]
             p == Price(v)
         IN  IF ~Fits(v.quantity * v.boughtFor) THEN "overflow"
             ELSE IF p = NoPrice THEN "nil"
             ELSE IF ~Fits(p[1] * v.quantity) \/ ~Fits(p[2] * v.quantity) THEN "overflow"
             ELSE IF Position(invs, v.id) = 0 THEN "position"
             ELSE "none"

\* Mutant: the tag is the row of the table.
cellForRowAt_Row(f, r, invs) ==
    [id |-> f[r].id, quantity |-> f[r].quantity, tag |-> r]

\* Mutant: the tag counts from 1 where the handlers count from 0.
cellForRowAt_OneOff(f, r, invs) ==
    [id |-> f[r].id, quantity |-> f[r].quantity, tag |-> 1 + Position(invs, f[r].id)]

cellForRowAt(f, r, invs) ==
    [id |-> f[r].id, quantity |-> f[r].quantity, tag |-> Position(invs, f[r].id)]

\* tableView.reloadData(): every cell is laid out again, the first that traps
\* ends it.  A hidden table lays out nothing.
reloadData(f, invs, shown) ==
    LET bad == {r \in DOMAIN f : RowTrap(f, r, invs) # "none"}
    IN  \/ /\ ~shown
           /\ rows' = <<>>
           /\ trap' = "none"
        \/ /\ shown /\ bad = {}
           /\ rows' = [r \in DOMAIN f |-> cellForRowAt(f, r, invs)]
           /\ trap' = "none"
        \/ /\ shown /\ bad # {}
           /\ rows' = <<>>
           /\ trap' = RowTrap(f, CHOOSE r \in bad : \A q \in bad : r <= q, invs)

\* tableView.deleteRows: the cells below row k move up with the tags they
\* have.  UITableView raises unless exactly one row is gone.
deleteRows(k, f) ==
    \/ /\ k \in DOMAIN rows /\ Len(f) = Len(rows) - 1
       /\ rows' = RemoveAt(rows, k)
       /\ trap' = "none"
    \/ /\ ~(k \in DOMAIN rows /\ Len(f) = Len(rows) - 1)
       /\ rows' = <<>>
       /\ trap' = "rows"

\* Mutant: the table stays hidden.
reloadTableView_Hidden(invs) ==
    /\ investmentFilteredData' = invs
    /\ UNCHANGED tableShown
    /\ reloadData(invs, invs, tableShown)

\* NSNotification reloadItems, reloadInvestments: the list takes back every
\* row, is laid out and shown.
reloadTableView(invs) ==
    /\ investmentFilteredData' = invs
    /\ tableShown' = TRUE
    /\ reloadData(invs, invs, TRUE)

\* Mutant: a change kept in memory only.
saveInvestmentsData_NotSaved(invs) == investments' = invs /\ UNCHANGED saved

\* It also sets investmentFilteredData = investments; its callers state what
\* they leave in investmentFilteredData in the end.
saveInvestmentsData(invs) ==
    /\ investments' = invs
    /\ saved' = invs

-----------------------------------------------------------------------------
(* Launching and loading *)

\* The globals are initialised from UserDefaults, viewDidLoad hides the table,
\* and initializeData asks the database for the prices.
Init ==
    /\ saved = <<>>
    /\ investments = saved
    /\ investmentFilteredData = <<>>
    /\ items = <<>>
    /\ cellTag = 1
    /\ searchText = NoText
    /\ rows = <<>> /\ tableShown = FALSE
    /\ screen = "list" /\ form = NoForm /\ total = NoTotal /\ aim = NoAim
    /\ load = "waiting" /\ delayed = 0
    /\ trap = "none"

\* The process may end at any time, by a trap or killed by the user or by
\* iOS; a launch finds what is in UserDefaults and nothing else.
Relaunch ==
    /\ UNCHANGED saved
    /\ investments' = saved
    /\ investmentFilteredData' = <<>>
    /\ items' = <<>>
    /\ cellTag' = 1
    /\ searchText' = NoText
    /\ rows' = <<>> /\ tableShown' = FALSE
    /\ screen' = "list" /\ form' = NoForm /\ total' = NoTotal /\ aim' = NoAim
    /\ load' = "waiting" /\ delayed' = 0
    /\ trap' = "none"

Running == trap = "none"

\* The callback of observeSingleEvent, up to the block it posts.
ApplyPrices(cat) ==
    /\ Running /\ load = "waiting"
    /\ items' = cat
    /\ saveInvestmentsData(Refresh(investments, cat))
    /\ investmentFilteredData' = investments'
    /\ load' = "posting"
    /\ UNCHANGED <<table, dialog, delayed, trap>>

\* The block posts reloadItems: the list takes back every row and is shown.
PostReloadItems ==
    /\ Running /\ load = "posting"
    /\ reloadTableView(investments)
    /\ load' = "done"
    /\ UNCHANGED <<disk, investments, searchText, dialog, items, delayed>>

\* The read is refused or the text is not the JSON expected: an error is
\* printed and nothing asks again.
LoadFails ==
    /\ Running /\ load = "waiting"
    /\ load' = "failed"
    /\ UNCHANGED <<disk, model, table, dialog, items, delayed, trap>>

\* snapshot.value as! String, when the node is missing or is not a string.
LoadNotString ==
    /\ Running /\ load = "waiting"
    /\ trap' = "cast"
    /\ UNCHANGED <<disk, model, table, dialog, queue>>

-----------------------------------------------------------------------------
(* The list *)

\* traitCollectionDidChange
TraitChange ==
    /\ Running
    /\ reloadData(investmentFilteredData, investments, tableShown)
    /\ UNCHANGED <<disk, model, searchText, tableShown, dialog, queue>>

\* A row scrolled out of sight and back is laid out again.
Scroll(r) ==
    /\ Running /\ screen = "list" /\ r \in DOMAIN rows
    /\ trap' = RowTrap(investmentFilteredData, r, investments)
    /\ rows' = IF trap' # "none" THEN <<>>
               ELSE [rows EXCEPT ![r] = cellForRowAt(investmentFilteredData, r, investments)]
    /\ UNCHANGED <<disk, model, searchText, tableShown, dialog, queue>>

\* searchBar(_:textDidChange:)
Search(text) ==
    /\ Running /\ screen = "list" /\ text # searchText
    /\ searchText' = text
    /\ investmentFilteredData' = Filter(text, investments)
    /\ reloadData(investmentFilteredData', investments, tableShown)
    /\ UNCHANGED <<disk, investments, tableShown, dialog, queue>>

\* A button of row r: cellTag takes the cell's tag.
Press(r) ==
    /\ Running /\ screen = "list" /\ r \in DOMAIN rows
    /\ cellTag' = rows[r].tag

AimAt(r) == aim' = [id |-> rows[r].id, settled |-> delayed = 0]

\* deleteButtonPressed, and the alert deleteItems presents.
TapDelete(r) ==
    /\ Press(r)
    /\ screen' = "confirm"
    /\ AimAt(r)
    /\ UNCHANGED <<disk, model, table, form, total, queue, trap>>

CancelDelete ==
    /\ Running /\ screen = "confirm"
    /\ screen' = "list" /\ aim' = NoAim
    /\ UNCHANGED <<disk, model, table, form, total, cellTag, queue, trap>>

\* Mutant: the last row is taken for one past the end.
CorrectedTag_OffByOne ==
    IF cellTag = Len(investments) /\ cellTag > 1 THEN cellTag - 1 ELSE cellTag

\* cellTag after the handler's correction of a tag one past the end.
CorrectedTag ==
    IF cellTag = Len(investments) + 1 THEN cellTag - 1 ELSE cellTag

\* Mutant: no scan for the row.
FilteredCellTag_First(tag) == 1

\* The row the handler deletes: the last with the id at the tag, else the first.
FilteredCellTag(tag) ==
    LET k == Position(investmentFilteredData, investments[tag].id)
    IN  IF k = 0 THEN 1 ELSE k

\* Mutant: the deletion posts no reload.
reloadItemsDelay_None == UNCHANGED delayed

\* NSNotification reloadItemsDelay: a reload in half a second.
reloadItemsDelay == delayed' = delayed + 1

\* The "Yes" handler, when an index it uses is out of range.
ConfirmDeleteTraps ==
    /\ Running /\ screen = "confirm"
    /\ \/ investmentFilteredData = <<>>
       \/ CorrectedTag \notin DOMAIN investments
    /\ cellTag' = CorrectedTag
    /\ trap' = "index" /\ rows' = <<>>
    /\ screen' = "list" /\ aim' = NoAim
    /\ UNCHANGED <<disk, model, searchText, tableShown, form, total, queue>>

\* The "Yes" handler: the investment goes from both arrays and from disk,
\* then either one row goes or the search is cleared and all rows are laid
\* out again; a reload of the table follows in half a second.
ConfirmDelete ==
    /\ Running /\ screen = "confirm" /\ delayed < MaxDelayed
    /\ investmentFilteredData # <<>>
    /\ CorrectedTag \in DOMAIN investments
    /\ cellTag' = CorrectedTag
    /\ saveInvestmentsData(RemoveAt(investments, CorrectedTag))
    /\ investmentFilteredData' = investments'
    /\ \/ /\ searchText \in {NoText, Space} \/ Len(investmentFilteredData) = 2
          /\ deleteRows(FilteredCellTag(CorrectedTag), investments')
          /\ UNCHANGED searchText
       \/ /\ searchText \notin {NoText, Space} /\ Len(investmentFilteredData) # 2
          /\ searchText' = NoText
          /\ reloadData(investments', investments', tableShown)
    /\ reloadItemsDelay
    /\ screen' = "list" /\ aim' = NoAim
    /\ UNCHANGED <<tableShown, form, total, load, items>>

\* The block of reloadTableViewDelay.
DelayedReload ==
    /\ Running /\ delayed > 0
    /\ delayed' = delayed - 1
    /\ reloadData(investmentFilteredData, investments, tableShown)
    /\ UNCHANGED <<disk, model, searchText, tableShown, dialog, load, items>>

\* The stepper of row r moves from the quantity its cell shows to n, which is
\* written to the investment at the cell's tag.
TapStepper(r, n) ==
    /\ Press(r)
    /\ n \in {rows[r].quantity - 1, rows[r].quantity + 1}
    /\ \/ /\ rows[r].tag \in DOMAIN investments
          /\ saveInvestmentsData([investments EXCEPT ![rows[r].tag].quantity = n])
          /\ investmentFilteredData' = Filter(searchText, investments')
          /\ reloadData(investmentFilteredData', investments', tableShown)
       \/ /\ rows[r].tag \notin DOMAIN investments
          /\ trap' = "index" /\ rows' = <<>>
          /\ UNCHANGED <<disk, model>>
    /\ UNCHANGED <<searchText, tableShown, screen, form, total, aim, queue>>

\* rlInsiderChart: the pushed screen reads the investment at the tag and
\* unwraps the URL it makes of the item's url name.
TapChart(r) ==
    /\ Press(r)
    /\ \/ /\ rows[r].tag \in DOMAIN investments
          /\ investments[rows[r].tag].item \notin NoURL
          /\ screen' = "chart"
          /\ AimAt(r)
          /\ UNCHANGED <<rows, trap>>
       \/ /\ rows[r].tag \in DOMAIN investments
          /\ investments[rows[r].tag].item \in NoURL
          /\ trap' = "url" /\ rows' = <<>>
          /\ UNCHANGED <<screen, aim>>
       \/ /\ rows[r].tag \notin DOMAIN investments
          /\ trap' = "index" /\ rows' = <<>>
          /\ UNCHANGED <<screen, aim>>
    /\ UNCHANGED <<disk, model, searchText, tableShown, form, total, queue>>

CloseChart ==
    /\ Running /\ screen = "chart"
    /\ screen' = "list" /\ aim' = NoAim
    /\ UNCHANGED <<disk, model, table, form, total, cellTag, queue, trap>>

-----------------------------------------------------------------------------
(* The sheet *)

\* Mutant: the sheet keeps the id meant for a new investment.
editInvestment_NewID(v) ==
    [editing |-> TRUE, item |-> v.item, colour |-> v.colour, platform |-> v.platform,
     amount |-> v.quantity, boughtFor |-> v.boughtFor, blank |-> FALSE,
     id |-> investmentID(investments)]

\* The sheet starts from the investment to edit.
editInvestment(v) ==
    [editing |-> TRUE, item |-> v.item, colour |-> v.colour, platform |-> v.platform,
     amount |-> v.quantity, boughtFor |-> v.boughtFor, blank |-> FALSE, id |-> v.id]

\* editButtonPressed: the sheet for the investment at the tag.
TapEdit(r) ==
    /\ Press(r)
    /\ \/ /\ rows[r].tag \in DOMAIN investments
          /\ form' = editInvestment(investments[rows[r].tag])
          /\ screen' = "form"
          /\ AimAt(r)
          /\ UNCHANGED <<rows, trap>>
       \/ /\ rows[r].tag \notin DOMAIN investments
          /\ trap' = "index" /\ rows' = <<>>
          /\ UNCHANGED <<form, screen, aim>>
    /\ UNCHANGED <<disk, model, searchText, tableShown, total, queue>>

\* addNewButton; platform is the one chosen in the Prices tab.
AddNew(platform) ==
    /\ Running /\ screen = "list"
    /\ investmentID(investments) <= MaxID
    /\ form' = [editing |-> FALSE, item |-> NoItem, colour |-> DefaultColour,
                platform |-> platform, amount |-> 1, boughtFor |-> 100,
                blank |-> FALSE, id |-> investmentID(investments)]
    /\ screen' = "form"
    /\ UNCHANGED <<disk, model, table, total, cellTag, aim, queue, trap>>

EditForm(f) ==
    /\ Running /\ screen = "form"
    /\ form' = f
    /\ UNCHANGED <<disk, model, table, screen, total, cellTag, aim, queue, trap>>

\* Choosing an item resets the colour; the sheet reloads when it is back,
\* and shows the price it holds even if the field had been emptied.
PickItem(item) ==
    EditForm([form EXCEPT !.item = item, !.colour = DefaultColour, !.blank = FALSE])

\* The picker reloads the sheet too.
PickColour(colour) == EditForm([form EXCEPT !.colour = colour, !.blank = FALSE])

PickPlatform(platform) == EditForm([form EXCEPT !.platform = platform])

StepAmount(n) ==
    /\ screen = "form" /\ n \in {form.amount - 1, form.amount + 1}
    /\ EditForm([form EXCEPT !.amount = n])

\* Mutant: the number typed, however large.
integerValue_Unbounded(text) == IF text = Blank THEN 0 ELSE text

\* integerValue of the text: 0 when there is none, Int.max when it is larger.
integerValue(text) ==
    IF text = Blank THEN 0 ELSE IF text > MaxInt THEN MaxInt ELSE text

TypePrice(text) ==
    EditForm([form EXCEPT !.boughtFor = integerValue(text), !.blank = text = Blank])

\* Mutant: the price is not looked up.
Refused_NoItemOnly == form.item = NoItem

Refused == form.item # NoItem => Price(form) = NoPrice

\* The Add or Done button, when an alert refuses the investment.  The check
\* for an empty price looks at a label and not at the field: it never fires.
AddButtonRefused ==
    /\ Running /\ screen = "form"
    /\ Refused
    /\ screen' = "refused"
    /\ UNCHANGED <<disk, model, table, form, total, cellTag, aim, queue, trap>>

\* The Add or Done button, when the investment is appended, or written over
\* the one at cellTag; the list then takes back every row and is shown.
AddButton ==
    /\ Running /\ screen = "form"
    /\ ~Refused
    /\ LET v == [item |-> form.item, colour |-> form.colour, quantity |-> form.amount,
                 boughtFor |-> form.boughtFor, platform |-> form.platform, id |-> form.id]
       IN  \/ /\ form.editing
              /\ saveInvestmentsData([investments EXCEPT ![cellTag] = v])
           \/ /\ ~form.editing /\ Len(investments) < MaxInvestments
              /\ saveInvestmentsData(Append(investments, v))
    /\ reloadTableView(investments')
    /\ screen' = "list" /\ form' = NoForm /\ aim' = NoAim
    /\ UNCHANGED <<searchText, total, cellTag, queue>>

DismissRefusal ==
    /\ Running /\ screen = "refused"
    /\ screen' = "form"
    /\ UNCHANGED <<disk, model, table, form, total, cellTag, aim, queue, trap>>

\* cancelButton, or the sheet swiped away.
CancelForm ==
    /\ Running /\ screen = "form"
    /\ screen' = "list" /\ form' = NoForm /\ aim' = NoAim
    /\ UNCHANGED <<disk, model, table, total, cellTag, queue, trap>>

-----------------------------------------------------------------------------
(* The total *)

\* What the first i rows cost, and would earn at bound b of their prices.
Spent(f, i) ==
    SumFunctionOnSet([k \in DOMAIN f |-> f[k].boughtFor * f[k].quantity], 1..i)
IfSold(f, b, i) ==
    SumFunctionOnSet([k \in DOMAIN f |-> Price(f[k])[b] * f[k].quantity], 1..i)

Totals(f) ==
    [spent |-> Spent(f, Len(f)), lower |-> IfSold(f, 1, Len(f)), upper |-> IfSold(f, 2, Len(f))]

\* No price is nil and no running sum overflows.
Summable(f) ==
    /\ \A i \in DOMAIN f : Price(f[i]) # NoPrice
    /\ \A i \in 0..Len(f) :
        Fits(Spent(f, i)) /\ Fits(IfSold(f, 1, i)) /\ Fits(IfSold(f, 2, i))

\* The check that fails first at row i of the loop, which comes to row i when
\* the rows before it are summable.
TotalRowTrap(f, i) ==
    IF ~Fits(Spent(f, i)) THEN "overflow"
    ELSE IF Price(f[i]) = NoPrice THEN "nil"
    ELSE "overflow"

\* showTotal, over the rows the search left.
ShowTotal ==
    /\ Running /\ screen = "list" /\ tableShown
    /\ LET f == investmentFilteredData
       IN  \/ /\ Summable(f)
              /\ total' = Totals(f)
              /\ screen' = "total"
              /\ UNCHANGED <<rows, trap>>
           \/ \E i \in DOMAIN f :
              /\ Summable(SubSeq(f, 1, i - 1)) /\ ~Summable(SubSeq(f, 1, i))
              /\ trap' = TotalRowTrap(f, i) /\ rows' = <<>>
              /\ UNCHANGED <<total, screen>>
    /\ UNCHANGED <<disk, model, searchText, tableShown, form, cellTag, aim, queue>>

CloseTotal ==
    /\ Running /\ screen = "total"
    /\ screen' = "list" /\ total' = NoTotal
    /\ UNCHANGED <<disk, model, table, form, cellTag, aim, queue, trap>>

-----------------------------------------------------------------------------
System ==
    \/ \E cat \in Catalogues : ApplyPrices(cat)
    \/ PostReloadItems
    \/ LoadFails
    \/ LoadNotString
    \/ DelayedReload
    \/ TraitChange
    \/ Relaunch

List ==
    \/ \E text \in SearchTexts : Search(text)
    \/ \E r \in DOMAIN rows : Scroll(r) \/ TapDelete(r) \/ TapEdit(r) \/ TapChart(r)
    \/ \E r \in DOMAIN rows, n \in 1..MaxAmount : TapStepper(r, n)
    \/ ConfirmDelete \/ ConfirmDeleteTraps \/ CancelDelete
    \/ CloseChart
    \/ ShowTotal \/ CloseTotal

Sheet ==
    \/ \E platform \in Platforms : AddNew(platform) \/ PickPlatform(platform)
    \/ \E i \in DOMAIN items : PickItem(items[i])
    \/ \E colour \in Colours : PickColour(colour)
    \/ \E n \in 1..MaxAmount : StepAmount(n)
    \/ \E text \in TypedPrices : TypePrice(text)
    \/ AddButton \/ AddButtonRefused \/ DismissRefusal \/ CancelForm

Next == System \/ List \/ Sheet

\* The blocks on the main queue run; the user and the database need not act.
Fairness == WF_vars(PostReloadItems) /\ WF_vars(DelayedReload)

Spec == Init /\ [][Next]_vars /\ Fairness

-----------------------------------------------------------------------------
(* Safety *)

SheetOpen == screen \in {"form", "refused"}

TypeOK ==
    /\ saved \in Seq(investmentItem)
    /\ investments \in Seq(investmentItem)
    /\ investmentFilteredData \in Seq(investmentItem)
    /\ items \in Seq(decodingitem)
    /\ cellTag \in Nat
    /\ searchText \in SearchTexts
    /\ rows \in Seq(Cell)
    /\ tableShown \in BOOLEAN
    /\ screen \in Screens
    /\ form \in Form \cup {NoForm}
    /\ total \in [spent : Int64, lower : Int64, upper : Int64] \cup {NoTotal}
    /\ load \in {"waiting", "posting", "done", "failed"}
    /\ delayed \in Nat
    /\ trap \in Traps
    /\ aim \in [id : Nat, settled : BOOLEAN] \cup {NoAim}

\* Ids are what the table's rows are traced back by: no two investments share
\* one, nor does the investment being added in the sheet have one in use, though
\* its id was drawn when the sheet was opened (investmentID, addNewButton).
UniqueIDs ==
    /\ \A i, j \in DOMAIN investments : investments[i].id = investments[j].id => i = j
    /\ SheetOpen /\ ~form.editing => form.id \notin IDs(investments)

\* Whatever the screen shows as entered survives a crash at any point, also
\* the crash of the very handler that changed it (saveInvestmentsData).
Durable == saved = investments

\* The table's data source is the portfolio with some entries left out: the
\* same entries, in the same order, none twice, also after a catalogue has
\* replaced their items (the assignments of investmentFilteredData).
FilteredIsView ==
    \E p \in [DOMAIN investmentFilteredData -> DOMAIN investments] :
        /\ \A i, j \in DOMAIN investmentFilteredData : i < j => p[i] < p[j]
        /\ \A i \in DOMAIN investmentFilteredData :
               investmentFilteredData[i] = investments[p[i]]

\* Each row of the table on screen is that of the data source, whether it was
\* laid out by a reload, a scroll or moved by deleteRows.
TableInSync ==
    Running /\ tableShown =>
        /\ DOMAIN rows = DOMAIN investmentFilteredData
        /\ \A r \in DOMAIN rows :
            /\ rows[r].id = investmentFilteredData[r].id
            /\ rows[r].quantity = investmentFilteredData[r].quantity

\* A cell's tag is the position of its investment, or too large by at most
\* the number of delayed reloads outstanding: deleteItems corrects a tag that
\* is one past the end and nothing more.
TagsDrift ==
    \A r \in DOMAIN rows :
        rows[r].tag - Position(investments, rows[r].id) \in 0..delayed

\* The sheet edits the entry it was opened on: investments[cellTag] still has
\* the id the sheet will write there, whatever reloads ran under the sheet
\* (editInvestment, addButton).
EditTarget ==
    SheetOpen /\ form.editing =>
        /\ cellTag \in DOMAIN investments
        /\ investments[cellTag].id = form.id

\* With an empty search bar the loaded list is complete.  (With a text in it
\* it may be complete as well: a save drops the filter and leaves the text.)
ListComplete ==
    Running /\ load \in {"posting", "done"} /\ searchText = NoText =>
        investmentFilteredData = investments

\* Once the catalogue is loaded, an investment of an item in it shows prices
\* of this catalogue, never those saved with an earlier one, whichever sheet
\* was open when it arrived (initializeData).
PricesCurrent ==
    load \in {"posting", "done"} =>
        \A i \in DOMAIN investments :
            \/ investments[i].item \in Range(items)
            \/ \A a \in DOMAIN items : items[a].itemName # investments[i].item.itemName

-----------------------------------------------------------------------------
(* What a step may do *)

\* No delayed reload was outstanding when the user pressed the button this
\* step is the effect of.
Settled == IF aim = NoAim THEN delayed = 0 ELSE aim.settled

Unpriced(invs) == {i \in DOMAIN invs : Price(invs[i]) = NoPrice}

\* A deletion confirmed after pressing a row of a settled table removes the
\* investment of that row and no other (deleteButtonPressed, deleteItems).
DeletesAimed ==
    [][ Settled /\ Len(investments') < Len(investments) =>
        IDs(investments') = IDs(investments) \ {aim.id} ]_vars

\* On a settled table a stepper changes one investment only, one that the
\* table shows, and by one from the quantity that its row shows: what is being
\* searched for never redirects the write (stepperValueChanged,
\* amountChangedInvestment).
StepsByOne ==
    [][ screen = "list" /\ Settled /\ Len(investments') = Len(investments) /\ load' = load =>
        \A i \in DOMAIN investments :
            investments'[i] # investments[i] =>
                \E r \in DOMAIN rows, d \in {-1, 1} :
                    /\ rows[r].id = investments[i].id
                    /\ investments' =
                          [investments EXCEPT ![i].quantity = rows[r].quantity + d] ]_vars

\* Only the arrival of a catalogue can leave an investment without a price:
\* no sheet adds one or edits one into that state (addButton).
OnlyRefreshUnprices ==
    [][ load' = load =>
        \A i \in Unpriced(investments') :
            \E j \in Unpriced(investments) : investments[j].item = investments'[i].item ]_vars

\* A product that laying out a row of v computes is no Int.
TooLarge(v) ==
    \/ ~Fits(v.quantity * v.boughtFor)
    \/ Price(v) # NoPrice /\ \E b \in {1, 2} : ~Fits(Price(v)[b] * v.quantity)

\* A sum that the total comes to, before it comes to a missing price, is no Int.
TotalTooLarge(f) ==
    \E i \in DOMAIN f :
        \/ ~Fits(Spent(f, i))
        \/ Unpriced(SubSeq(f, 1, i)) = {} /\ ~Summable(SubSeq(f, 1, i))

\* How the app can crash, one conjunct for each runtime check.  A row's
\* position is always found; an index is out of range only after a press on
\* an unsettled table; UITableView raises only under a search text; a price
\* is missing only when a catalogue dropped it before; only the chart of an
\* item without an address unwraps no URL; an overflow is one of an
\* investment's own amounts, or of the sums of the total; and the cast is
\* that of the database's answer.
CrashCauses ==
    [][ /\ trap' # "position"
        /\ trap' = "index" => ~Settled
        /\ trap' = "rows" => searchText # NoText
        /\ trap' = "nil" => Unpriced(investments) # {}
        /\ trap' = "url" =>
              cellTag' \in DOMAIN investments /\ investments[cellTag'].item \in NoURL
        /\ trap' = "overflow" =>
              \/ \E i \in DOMAIN investments' : TooLarge(investments'[i])
              \/ TotalTooLarge(investmentFilteredData)
        /\ trap' = "cast" => load = "waiting" ]_vars

-----------------------------------------------------------------------------
(* What comments, alerts and the README say, and the code does not do *)

\* "cell tag is the position of the item in investments" (deleteItems): a
\* confirmed deletion removes the investment on the row whose delete button was
\* pressed, also when other deletions wait for their reload.
DeletesPressed ==
    [][ screen = "confirm" /\ Len(investments') < Len(investments) =>
        aim.id \notin IDs(investments') ]_vars

\* "there shouldnt be any nil values as it gets filtered out during the adding
\* process" (cellForRowAt): no row is without a price when it is laid out.
NoNilPrices == trap # "nil"

\* The total is "the complete profit/loss if you sell everything that you have
\* added in the app" (README, showTotal).
TotalOfEverything == screen = "total" => total = Totals(investments)

\* "You have not selected a Price Bought for" (addButton): no investment is
\* added or edited from a sheet whose price field is empty.
BlankPriceRefused ==
    [][ screen = "form" /\ form.blank => investments' = investments ]_vars

-----------------------------------------------------------------------------
(* Liveness and the abstract ledger *)

\* Tags do not stay stale: whatever was deleted, the table settles again and
\* again (reloadTableViewDelay).
TagsSettle ==
    []<>(\A r \in DOMAIN rows : rows[r].tag = Position(investments, rows[r].id))

\* A catalogue that arrived is followed by the list, unless the process ends
\* first (the block initializeData leaves on the main queue).
CatalogueShown ==
    load = "posting" ~> tableShown \/ ~Running \/ load = "waiting"

\* The saved portfolio is a ledger.
Book == [id \in IDs(saved) |-> saved[Position(saved, id)]]
L == INSTANCE Ledger WITH book <- Book
LedgerSpec == L!Spec
=============================================================================
