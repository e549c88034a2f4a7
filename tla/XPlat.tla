------------------------------- MODULE XPlat -------------------------------
(***************************************************************************)
(* The cross platform tab (xPlatMain.swift), its settings sheet            *)
(* (xPlatSettings.swift, xPlatformSelection.swift) and what they need of   *)
(* the catalogue's arrival (initialization.swift).                         *)
(*                                                                         *)
(* reload() lists the items that have a price on both platforms, and       *)
(* leaves the sorting to a block on the main queue; the settings sheet     *)
(* changes the platforms at once and leaves the reload to another block.   *)
(* Between a block and its successor the user may tap, the catalogue may   *)
(* arrive and another reload may start.                                    *)
(*                                                                         *)
(* A rate is a fraction; the rounding of Float is left out.                *)
(***************************************************************************)
EXTENDS ItemPrices, SequencesExt, ListLemmas, TLAPS

CONSTANTS
    ColourOrder,    \* the array colours of reload()
    Catalogues,     \* the lists of items a download may bring
    Defaults,       \* xPlatData of a first launch: <<"PC", "XBOX">>
    NoAlert,
    MaxQueue        \* bound of the model: blocks on the main queue

XPlatAssumption ==
    /\ ColourOrder \in Seq(Colours)
    /\ Catalogues \subseteq Seq(decodingitem)
    /\ Defaults \in Platforms \X Platforms
    /\ MaxQueue \in Nat

VARIABLES
    items,          \* the catalogue in memory
    haveLoaded,     \* set by the block that announces the catalogue
    load,           \* the download: "reading", "applied" or "failed"
    queue,          \* blocks on the main queue
    xPlatData,      \* the two platforms
    saved,          \* their copy in UserDefaults
    xPlatItems,     \* the tab's data source
    title,          \* the platforms in the navigation bar
    loaded,         \* viewDidLoad has run: the observers are registered
    hidden,         \* the table is hidden behind the activity indicator
    screen,         \* "away", "tab" or "settings"
    alert,          \* what the alert of a row says
    trap,           \* the runtime check that ended the process
    from,           \* history: xPlatData when the table was last computed
    swiped          \* history: a sheet was swiped away since then

view == <<xPlatItems, title, hidden, from, swiped>>
catalogue == <<items, haveLoaded, load>>
vars == <<catalogue, queue, xPlatData, saved, view, loaded, screen, alert, trap>>

-----------------------------------------------------------------------------
(* Rates and their order *)

\* What reload() takes for the price of a range: / binds before +.
price(range) == range[1] + range[2] \div 2

\* percentageIncrease, as a fraction: x / 0 is infinite and 0 / 0 undefined.
percentageIncrease(e) == [num |-> price(e.platform2Price), den |-> price(e.platform1Price)]

Undefined(rate) == rate.num = 0 /\ rate.den = 0

\* Float's >=, false whenever one side is undefined.
AtLeast(a, b) ==
    /\ ~Undefined(a) /\ ~Undefined(b)
    /\ a.num * b.den >= b.num * a.den

\* cellForRowAt: Int(round(10 * rate)) traps on a rate that is not finite.
cellTraps(e) == percentageIncrease(e).den = 0

Priced(item, colour, platforms) ==
    \A i \in 1..2 : getColourPrice(item, colour, platforms[i]) # NoPrice

\* The two loops of reload(): an entry for each colour of each item that has
\* a price on both platforms.
entries(list, platforms) ==
    LET of(item, colour) ==
            [itemName |-> item.itemName, itemColour |-> colour,
             platform1Price |-> getColourPrice(item, colour, platforms[1]),
             platform2Price |-> getColourPrice(item, colour, platforms[2])]
        coloured(item) ==
            LET p == Ascending({c \in DOMAIN ColourOrder : Priced(item, ColourOrder[c], platforms)})
            IN  [k \in DOMAIN p |-> of(item, ColourOrder[p[k]])]
    IN  FlattenSeq([i \in DOMAIN list |-> coloured(list[i])])

\* The scan for the position of the highest rate, the last of equals.
highestIncrease(list) ==
    LET highest[i \in 0..Len(list)] ==
            IF i = 0 THEN 1
            ELSE LET h == highest[i - 1]
                 IN  IF AtLeast(percentageIncrease(list[i]), percentageIncrease(list[h])) THEN i ELSE h
    IN  highest[Len(list)]

\* Moves the highest of oldList to the end of the new list until none is left.
sort(list) ==
    LET moved[k \in 0..Len(list)] ==
            IF k = 0 THEN [oldList |-> list, new |-> <<>>]
            ELSE LET m == moved[k - 1]
                     h == highestIncrease(m.oldList)
                 IN  [oldList |-> RemoveAt(m.oldList, h), new |-> Append(m.new, m.oldList[h])]
    IN  moved[Len(list)].new

-----------------------------------------------------------------------------
Init ==
    /\ items = <<>> /\ haveLoaded = FALSE /\ load = "reading"
    /\ queue = <<>>
    /\ xPlatData = Defaults /\ saved = Defaults
    /\ xPlatItems = <<>> /\ title = Defaults
    /\ loaded = FALSE /\ hidden = TRUE
    /\ screen = "away"
    /\ alert = NoAlert /\ trap = "none"
    /\ from = Defaults /\ swiped = FALSE

Running == trap = "none"

\* The user can touch the tab: no alert is over it.
Free == Running /\ alert = NoAlert

post(block) ==
    /\ Len(queue) < MaxQueue
    /\ queue' = Append(queue, block)

\* reload(): the entries in the catalogue's order, the table hidden until the
\* block has sorted them.  q is the queue before the block is added.
reload(q) ==
    /\ xPlatItems' = entries(items, xPlatData)
    /\ hidden' = TRUE
    /\ queue' = Append(q, "sort")
    /\ from' = xPlatData /\ swiped' = FALSE

\* The answer of the database; the block posts reloadItems.
CatalogueArrives(list) ==
    /\ Running /\ load = "reading"
    /\ load' = "applied"
    /\ items' = list
    /\ post("reloadItems")
    /\ UNCHANGED <<haveLoaded, xPlatData, saved, view, loaded, screen, alert, trap>>

\* The read fails or its text does not decode: nothing is posted.
LoadFails ==
    /\ Running /\ load = "reading"
    /\ load' = "failed"
    /\ UNCHANGED <<items, haveLoaded, queue, xPlatData, saved, view, loaded, screen, alert, trap>>

\* reloadItems: the observer is there once the tab has been opened.
ReloadItems ==
    /\ Running /\ queue # <<>> /\ Head(queue) = "reloadItems"
    /\ haveLoaded' = TRUE
    /\ \/ /\ loaded
          /\ reload(Tail(queue))
       \/ /\ ~loaded
          /\ queue' = Tail(queue)
          /\ UNCHANGED <<xPlatItems, hidden, from, swiped>>
    /\ UNCHANGED <<title, items, load, xPlatData, saved, loaded, screen, alert, trap>>

\* reloadPlatforms, posted by the settings sheet.
ReloadPlatforms ==
    /\ Running /\ queue # <<>> /\ Head(queue) = "reloadPlatforms"
    /\ reload(Tail(queue))
    /\ UNCHANGED <<title, catalogue, xPlatData, saved, loaded, screen, alert, trap>>

\* The block of reload() and reloadTableView: the rows are laid out when the
\* tab is on the screen.
SortBlock ==
    /\ Running /\ queue # <<>> /\ Head(queue) = "sort"
    /\ queue' = Tail(queue)
    /\ xPlatItems' = sort(xPlatItems)
    /\ title' = xPlatData
    /\ hidden' = FALSE
    /\ trap' = IF screen # "away" /\ \E e \in Range(xPlatItems) : cellTraps(e)
               THEN "rate" ELSE "none"
    /\ UNCHANGED <<catalogue, xPlatData, saved, from, swiped, loaded, screen, alert>>

\* viewDidLoad the first time, and viewWillAppear.
Appear ==
    /\ Free /\ screen = "away"
    /\ screen' = "tab"
    /\ loaded' = TRUE
    /\ \/ /\ haveLoaded /\ Len(queue) < MaxQueue
          /\ reload(queue)
       \/ /\ ~haveLoaded
          /\ hidden' = TRUE
          /\ UNCHANGED <<xPlatItems, queue, from, swiped>>
    /\ title' = IF loaded THEN title ELSE xPlatData
    /\ UNCHANGED <<catalogue, xPlatData, saved, alert, trap>>

Leave ==
    /\ Free /\ screen = "tab"
    /\ screen' = "away"
    /\ UNCHANGED <<catalogue, queue, xPlatData, saved, view, loaded, alert, trap>>

settingsButton ==
    /\ Free /\ screen = "tab"
    /\ screen' = "settings"
    /\ UNCHANGED <<catalogue, queue, xPlatData, saved, view, loaded, alert, trap>>

\* segmentedControlValueChanged with updateXPlatforms.
ChoosePlatform(i, p) ==
    /\ Running /\ screen = "settings"
    /\ xPlatData[i] # p
    /\ xPlatData' = [xPlatData EXCEPT ![i] = p]
    /\ saved' = xPlatData'
    /\ UNCHANGED <<catalogue, queue, view, loaded, screen, alert, trap>>

doneButton ==
    /\ Running /\ screen = "settings"
    /\ screen' = "tab"
    /\ post("reloadPlatforms")
    /\ UNCHANGED <<catalogue, xPlatData, saved, view, loaded, alert, trap>>

\* The sheet is swiped away: neither doneButton nor viewWillAppear runs.
SwipeSettings ==
    /\ Running /\ screen = "settings"
    /\ screen' = "tab"
    /\ swiped' = TRUE
    /\ UNCHANGED <<catalogue, queue, xPlatData, saved, xPlatItems, title, hidden, from,
                   loaded, alert, trap>>

\* didSelectRowAt: the alert names the platforms of now, the prices are the row's.
SelectRow(r) ==
    /\ Free /\ screen = "tab" /\ ~hidden
    /\ r \in DOMAIN xPlatItems
    /\ alert' = [row |-> xPlatItems[r], platforms |-> xPlatData]
    /\ UNCHANGED <<catalogue, queue, xPlatData, saved, view, loaded, screen, trap>>

CloseAlert ==
    /\ Running /\ alert # NoAlert
    /\ alert' = NoAlert
    /\ UNCHANGED <<catalogue, queue, xPlatData, saved, view, loaded, screen, trap>>

\* The process ends and is launched again, with the platforms it saved.
Relaunch ==
    /\ items' = <<>> /\ haveLoaded' = FALSE /\ load' = "reading"
    /\ queue' = <<>>
    /\ xPlatData' = saved
    /\ xPlatItems' = <<>> /\ title' = saved
    /\ loaded' = FALSE /\ hidden' = TRUE
    /\ screen' = "away"
    /\ alert' = NoAlert /\ trap' = "none"
    /\ from' = saved /\ swiped' = FALSE
    /\ UNCHANGED saved

Next ==
    \/ \E list \in Catalogues : CatalogueArrives(list)
    \/ LoadFails
    \/ ReloadItems \/ ReloadPlatforms \/ SortBlock
    \/ Appear \/ Leave
    \/ settingsButton \/ doneButton \/ SwipeSettings
    \/ \E i \in 1..2, p \in Platforms : ChoosePlatform(i, p)
    \/ \E r \in DOMAIN xPlatItems : SelectRow(r)
    \/ CloseAlert
    \/ Relaunch

\* The main queue runs the block at its head: what every one of ReloadItems,
\* ReloadPlatforms and SortBlock does to the queue.
Turn ==
    /\ Running /\ queue # <<>>
    /\ queue' \in {Tail(queue), Append(Tail(queue), "sort")}

Spec == Init /\ [][Next]_vars /\ WF_queue(Turn)

-----------------------------------------------------------------------------
Entry == [itemName : ItemNames, itemColour : Colours,
          platform1Price : PriceRanges, platform2Price : PriceRanges]

\* The variables have the types the code declares, and an entry on the table
\* always has both of its prices (reload).
TypeOK ==
    /\ items \in Seq(decodingitem)
    /\ haveLoaded \in BOOLEAN
    /\ load \in {"reading", "applied", "failed"}
    /\ queue \in Seq({"reloadItems", "reloadPlatforms", "sort"})
    /\ {xPlatData, saved, title, from} \subseteq Platforms \X Platforms
    /\ xPlatItems \in Seq(Entry)
    /\ {loaded, hidden, swiped} \subseteq BOOLEAN
    /\ screen \in {"away", "tab", "settings"}
    /\ alert = NoAlert \/ alert \in [row : Entry, platforms : Platforms \X Platforms]
    /\ trap \in {"none", "rate"}

\* What the user sees is sorted, however many reloads and sorting blocks ran
\* into each other: no entry whose rate is defined stands above a better one
\* (reload and its block).
BestFirst ==
    ~hidden =>
        \A i, j \in DOMAIN xPlatItems :
            i < j /\ ~Undefined(percentageIncrease(xPlatItems[i]))
                  /\ ~Undefined(percentageIncrease(xPlatItems[j]))
                => AtLeast(percentageIncrease(xPlatItems[i]), percentageIncrease(xPlatItems[j]))

\* The table on the screen is the catalogue's, for the platforms it was
\* computed for, none lost and none twice, though the sorting block empties and
\* refills the list and another reload may have replaced it before.
RowsOfCatalogue ==
    ~hidden /\ ~Contains(queue, "reloadItems") =>
        LET list == entries(items, from)
        IN  \A e \in Range(xPlatItems) \cup Range(list) :
                Cardinality({i \in DOMAIN xPlatItems : xPlatItems[i] = e})
                    = Cardinality({i \in DOMAIN list : list[i] = e})

\* Once the queue is empty the tab shows what the settings say, in the title
\* and in the rows, unless the sheet was swiped away (doneButton, reload).
SettingsApplied ==
    Running /\ screen = "tab" /\ queue = <<>> /\ haveLoaded /\ ~swiped =>
        ~hidden /\ from = xPlatData /\ title = xPlatData

\* The tab crashes the app only for an entry that costs nothing on the first
\* platform (cellForRowAt).
CrashOnZero ==
    trap = "rate" => \E e \in Range(entries(items, from)) : price(e.platform1Price) = 0

\* The activity indicator does not spin for ever once the catalogue is there.
Spinning == haveLoaded /\ loaded /\ hidden
SpinnerStops == Spinning ~> ~Spinning

\* The alert's prices are those of the platforms it names.
AlertNamesPlatforms ==
    alert # NoAlert =>
        \E item \in Range(items) :
            /\ item.itemName = alert.row.itemName
            /\ getColourPrice(item, alert.row.itemColour, alert.platforms[1]) = alert.row.platform1Price
            /\ getColourPrice(item, alert.row.itemColour, alert.platforms[2]) = alert.row.platform2Price

\* No entry below the first converts better, by the middle of its price ranges.
BestRateOnTop ==
    LET middle(e) == [num |-> e.platform2Price[1] + e.platform2Price[2],
                      den |-> e.platform1Price[1] + e.platform1Price[2]]
    IN  ~hidden =>
            \A i \in DOMAIN xPlatItems : AtLeast(middle(xPlatItems[1]), middle(xPlatItems[i]))
-----------------------------------------------------------------------------
(* Proof of SettingsApplied, for any catalogues, platforms and colours.  It  *)
(* says nothing of a queue that is not empty, so it is not inductive: what   *)
(* is owed to the user waits on the queue, first a reload and then a sort.   *)

Queued(block) == \E i \in 1..Len(queue) : queue[i] = block

\* While the tab shows other platforms than the settings, a block that mends
\* it is on the queue (doneButton, reload, viewWillAppear).
WorkQueued ==
    Running /\ screen = "tab" /\ haveLoaded /\ ~swiped =>
        \/ Queued("reloadItems") \/ Queued("reloadPlatforms")
        \/ /\ from = xPlatData
           /\ Queued("sort") \/ (~hidden /\ title = xPlatData)

\* A tab that was ever on the screen has its observers (viewDidLoad).
Observing == screen # "away" => loaded

QueueOK == queue \in Seq({"reloadItems", "reloadPlatforms", "sort"})

Pending == QueueOK /\ Observing /\ WorkQueued

\* A block posted is on the queue behind the others.
LEMMA PostedIsQueued ==
    ASSUME NEW q \in Seq({"reloadItems", "reloadPlatforms", "sort"}),
           NEW b \in {"reloadItems", "reloadPlatforms", "sort"}
    PROVE  /\ Append(q, b) \in Seq({"reloadItems", "reloadPlatforms", "sort"})
           /\ Len(Append(q, b)) \in Nat
           /\ \E i \in 1..Len(Append(q, b)) : Append(q, b)[i] = b
           /\ \A i \in 1..Len(q) : i \in 1..Len(Append(q, b)) /\ Append(q, b)[i] = q[i]
<1>1. /\ Append(q, b) \in Seq({"reloadItems", "reloadPlatforms", "sort"})
      /\ Len(Append(q, b)) = Len(q) + 1 /\ Len(q) \in Nat
      /\ Append(q, b)[Len(q) + 1] = b
      /\ \A i \in 1..Len(q) : Append(q, b)[i] = q[i]
    OBVIOUS
<1>2. Len(q) + 1 \in 1..Len(Append(q, b))
    BY <1>1
<1> QED
    BY <1>1, <1>2

\* When the block at the head runs, the others stay.
LEMMA OthersStay ==
    ASSUME NEW q \in Seq({"reloadItems", "reloadPlatforms", "sort"}), q # <<>>
    PROVE  /\ Tail(q) \in Seq({"reloadItems", "reloadPlatforms", "sort"})
           /\ Head(q) = q[1]
           /\ \A i \in 1..Len(q) : i # 1 =>
                  i - 1 \in 1..Len(Tail(q)) /\ Tail(q)[i - 1] = q[i]
<1>1. /\ Tail(q) \in Seq({"reloadItems", "reloadPlatforms", "sort"})
      /\ Len(Tail(q)) = Len(q) - 1 /\ Len(q) \in Nat /\ Head(q) = q[1]
    OBVIOUS
<1>2. \A i \in 1..Len(Tail(q)) : Tail(q)[i] = q[i + 1]
    OBVIOUS
<1>3. ASSUME NEW i \in 1..Len(q), i # 1
      PROVE  i - 1 \in 1..Len(Tail(q)) /\ Tail(q)[i - 1] = q[i]
    <2>1. i - 1 \in 1..Len(Tail(q)) /\ (i - 1) + 1 = i
        BY <1>1, <1>3
    <2> QED
        BY <1>2, <2>1
<1> QED
    BY <1>1, <1>3

\* reload() leaves a sorting block and computes for the platforms of now.
LEMMA ReloadQueues ==
    ASSUME NEW q \in Seq({"reloadItems", "reloadPlatforms", "sort"}), reload(q)
    PROVE  QueueOK' /\ Queued("sort")' /\ from' = xPlatData
<1>1. queue' = Append(q, "sort") /\ from' = xPlatData
    BY DEF reload
<1> QED
    BY <1>1, PostedIsQueued DEF QueueOK, Queued

\* What was queued is still queued after a step that adds a block.
LEMMA PostKeeps ==
    ASSUME QueueOK, NEW b \in {"reloadItems", "reloadPlatforms", "sort"},
           queue' = Append(queue, b)
    PROVE  /\ QueueOK' /\ Queued(b)'
           /\ Queued("reloadItems") => Queued("reloadItems")'
           /\ Queued("reloadPlatforms") => Queued("reloadPlatforms")'
           /\ Queued("sort") => Queued("sort")'
    BY PostedIsQueued DEF QueueOK, Queued

\* The sorting block at the head leaves the other blocks.
LEMMA SortKeeps ==
    ASSUME QueueOK, queue # <<>>, Head(queue) = "sort", queue' = Tail(queue)
    PROVE  /\ QueueOK'
           /\ Queued("reloadItems") => Queued("reloadItems")'
           /\ Queued("reloadPlatforms") => Queued("reloadPlatforms")'
<1>1. ASSUME NEW b \in {"reloadItems", "reloadPlatforms"}, NEW i \in 1..Len(queue), queue[i] = b
      PROVE  \E j \in 1..Len(Tail(queue)) : Tail(queue)[j] = b
    <2>1. i # 1 /\ "sort" # "reloadItems" /\ "sort" # "reloadPlatforms"
        BY <1>1, OthersStay DEF QueueOK
    <2> QED
        BY <1>1, <2>1, OthersStay DEF QueueOK
<1> QED
    BY <1>1, OthersStay DEF QueueOK, Queued

\* Every step of the tab keeps its debts on the queue.
LEMMA PendingStep == ASSUME Pending, [Next]_vars PROVE Pending'
<1> USE DEF Pending
<1>1. CASE UNCHANGED vars
    BY <1>1 DEF vars, view, catalogue, QueueOK, Observing, WorkQueued, Queued, Running
<1>2. ASSUME NEW list \in Catalogues, CatalogueArrives(list) PROVE Pending'
    <2>1. /\ queue' = Append(queue, "reloadItems")
          /\ UNCHANGED <<haveLoaded, xPlatData, view, loaded, screen, trap>>
        BY <1>2 DEF CatalogueArrives, post
    <2>2. QueueOK' /\ Queued("reloadItems")'
        BY <2>1, PostKeeps
    <2> QED
        BY <2>1, <2>2 DEF view, Observing, WorkQueued
<1>3. CASE LoadFails \/ Leave \/ CloseAlert \/ settingsButton
    <2>1. /\ UNCHANGED <<queue, haveLoaded, xPlatData, view, loaded, trap>>
          /\ screen' = screen \/ screen' = "away" \/ (screen = "tab" /\ screen' = "settings")
        BY <1>3 DEF LoadFails, Leave, CloseAlert, settingsButton, catalogue
    <2> QED
        BY <2>1 DEF view, QueueOK, Observing, WorkQueued, Queued, Running
<1>4. CASE ReloadItems
    <2>1. Tail(queue) \in Seq({"reloadItems", "reloadPlatforms", "sort"})
        BY <1>4, OthersStay DEF ReloadItems, QueueOK
    <2>2. UNCHANGED <<xPlatData, loaded, screen, trap>>
        BY <1>4 DEF ReloadItems
    <2>3. CASE loaded /\ reload(Tail(queue))
        BY <2>1, <2>2, <2>3, ReloadQueues DEF Observing, WorkQueued
    <2>4. CASE ~loaded /\ queue' = Tail(queue)
        BY <2>1, <2>2, <2>4 DEF QueueOK, Observing, WorkQueued
    <2> QED
        BY <1>4, <2>3, <2>4 DEF ReloadItems
<1>5. CASE ReloadPlatforms
    <2>1. Tail(queue) \in Seq({"reloadItems", "reloadPlatforms", "sort"})
        BY <1>5, OthersStay DEF ReloadPlatforms, QueueOK
    <2>2. reload(Tail(queue)) /\ UNCHANGED <<xPlatData, loaded, screen, trap>>
        BY <1>5 DEF ReloadPlatforms
    <2> QED
        BY <2>1, <2>2, ReloadQueues DEF Observing, WorkQueued
<1>6. CASE SortBlock
    <2>1. /\ Running /\ queue # <<>> /\ Head(queue) = "sort" /\ queue' = Tail(queue)
          /\ title' = xPlatData /\ hidden' = FALSE
          /\ UNCHANGED <<haveLoaded, xPlatData, from, swiped, loaded, screen>>
        BY <1>6 DEF SortBlock, catalogue
    <2>2. /\ QueueOK'
          /\ Queued("reloadItems") => Queued("reloadItems")'
          /\ Queued("reloadPlatforms") => Queued("reloadPlatforms")'
        BY <2>1, SortKeeps
    <2> QED
        BY <2>1, <2>2 DEF Observing, WorkQueued
<1>7. CASE Appear
    <2>1. screen' = "tab" /\ loaded' = TRUE /\ UNCHANGED <<haveLoaded, xPlatData>>
        BY <1>7 DEF Appear, catalogue
    <2>2. CASE haveLoaded /\ reload(queue)
        BY <2>1, <2>2, ReloadQueues DEF QueueOK, Observing, WorkQueued
    <2>3. CASE ~haveLoaded /\ UNCHANGED queue
        BY <2>1, <2>3 DEF QueueOK, Observing, WorkQueued
    <2> QED
        BY <1>7, <2>2, <2>3 DEF Appear
<1>8. CASE doneButton
    <2>1. /\ queue' = Append(queue, "reloadPlatforms") /\ screen = "settings"
          /\ UNCHANGED loaded
        BY <1>8 DEF doneButton, post
    <2>2. QueueOK' /\ Queued("reloadPlatforms")'
        BY <2>1, PostKeeps
    <2> QED
        BY <2>1, <2>2 DEF Observing, WorkQueued
<1>9. CASE SwipeSettings
    BY <1>9 DEF SwipeSettings, QueueOK, Observing, WorkQueued
<1>10. ASSUME NEW i \in 1..2, NEW p \in Platforms, ChoosePlatform(i, p) PROVE Pending'
    BY <1>10 DEF ChoosePlatform, QueueOK, Observing, WorkQueued
<1>11. ASSUME NEW r \in DOMAIN xPlatItems, SelectRow(r) PROVE Pending'
    BY <1>11 DEF SelectRow, catalogue, view, QueueOK, Observing, WorkQueued, Queued, Running
<1>12. CASE Relaunch
    BY <1>12 DEF Relaunch, QueueOK, Observing, WorkQueued
<1> QED
    BY <1>1, <1>2, <1>3, <1>4, <1>5, <1>6, <1>7, <1>8, <1>9, <1>10, <1>11, <1>12 DEF Next

\* Once the queue is empty the tab shows what the settings say, whatever reloads
\* and sorting blocks ran into each other, unless the sheet was swiped away
\* (doneButton, reload, viewWillAppear).
THEOREM SettingsReachTheTab == Spec => []SettingsApplied
<1>1. Init => Pending
    BY DEF Init, Pending, QueueOK, Observing, WorkQueued
<1>2. Pending /\ [Next]_vars => Pending'
    BY PendingStep
<1>3. Pending => SettingsApplied
    BY DEF Pending, WorkQueued, Queued, SettingsApplied
<1> QED
    BY <1>1, <1>2, <1>3, PTL DEF Spec
-----------------------------------------------------------------------------
(* Proof of TypeOK, BestFirst, RowsOfCatalogue and CrashOnZero: what the     *)
(* sorting block computes, by the loops of reload(), and that it is of the   *)
(* catalogue whichever reload came between.                                  *)

\* Rates are naturals, so two that are defined compare one way or the other, and
\* comparing is transitive, although a price may be zero.
Fraction == [num : Nat, den : Nat]

LEMMA RatesCompare ==
    ASSUME NEW a \in Fraction, NEW b \in Fraction, NEW c \in Fraction,
           ~Undefined(a), ~Undefined(b), ~Undefined(c)
    PROVE  /\ AtLeast(a, a) /\ (~AtLeast(a, b) => AtLeast(b, a))
           /\ AtLeast(a, b) /\ AtLeast(b, c) => AtLeast(a, c)
<1>1. /\ a.num \in Nat /\ a.den \in Nat /\ b.num \in Nat /\ b.den \in Nat /\ c.num \in Nat /\ c.den \in Nat
    BY DEF Fraction
<1>2. AtLeast(a, a) /\ (~AtLeast(a, b) => AtLeast(b, a))
    <2>1. \A m, n, p, q \in Nat : m * n \in Nat /\ (m * n >= p * q \/ p * q >= m * n)
        OBVIOUS
    <2> QED
        BY <1>1, <2>1 DEF AtLeast
<1>3. \A m, n, p \in Nat : m >= n => m * p >= n * p
    OBVIOUS
<1>4. \A m, n, p \in Nat : m * p >= n * p /\ p > 0 => m >= n
    OBVIOUS
<1>5. \A m, n, p \in Nat : m * n * p = m * p * n /\ m * n * p = n * p * m /\ m * n \in Nat
    OBVIOUS
<1>6. ASSUME AtLeast(a, b), AtLeast(b, c) PROVE AtLeast(a, c)
    <2>1. a.num * b.den >= b.num * a.den /\ b.num * c.den >= c.num * b.den
        BY <1>6 DEF AtLeast
    <2>2. CASE b.den = 0
        <3>1. b.num > 0
            BY <1>1, <2>2 DEF Undefined
        <3>2. a.num * b.den = 0
            BY <1>1, <2>2
        <3>3. \A m, n \in Nat : m > 0 /\ n > 0 => m * n > 0
            OBVIOUS
        <3>4. b.num * a.den \in Nat /\ ~(b.num * a.den > 0)
            BY <1>1, <1>5, <2>1, <3>2
        <3>5. a.den = 0
            BY <1>1, <3>1, <3>3, <3>4
        <3>6. c.num * a.den = 0 /\ a.num * c.den \in Nat
            BY <1>1, <1>5, <3>5
        <3> QED
            BY <3>6 DEF AtLeast
    <2>3. CASE b.den > 0
        <3>1. a.num * b.den * c.den >= b.num * a.den * c.den
            BY <1>1, <1>3, <1>5, <2>1
        <3>2. b.num * c.den * a.den >= c.num * b.den * a.den
            BY <1>1, <1>3, <1>5, <2>1
        <3> DEFINE x == a.num * c.den
                   y == c.num * a.den
        <3>3. x \in Nat /\ y \in Nat
            BY <1>1, <1>5
        <3>4. x * b.den = a.num * b.den * c.den /\ y * b.den = c.num * b.den * a.den
            BY <1>1, <1>5
        <3>5. b.num * a.den * c.den = b.num * c.den * a.den
            BY <1>1, <1>5
        <3>6. x * b.den \in Nat /\ y * b.den \in Nat /\ b.num * a.den * c.den \in Nat
            BY <1>1, <1>5, <3>3
        <3>7. x * b.den >= y * b.den
            <4> HIDE DEF x, y
            <4> QED
                BY <3>1, <3>2, <3>4, <3>5, <3>6
        <3>8. x >= y
            <4> HIDE DEF x, y
            <4> QED
                BY <1>1, <1>4, <2>3, <3>3, <3>7
        <3> QED
            BY <3>8 DEF AtLeast
    <2> QED
        BY <1>1, <2>2, <2>3
<1> QED
    BY <1>2, <1>6

\* An entry's rate is a fraction of two naturals.
LEMMA EntryRates ==
    ASSUME NEW e \in Entry
    PROVE  percentageIncrease(e) \in Fraction
<1>1. e.platform1Price \in Nat \X Nat /\ e.platform2Price \in Nat \X Nat
    BY PricesAssumption DEF Entry
<1>2. \A r \in Nat \X Nat : price(r) \in Nat
    BY DEF price
<1> QED
    BY <1>1, <1>2 DEF percentageIncrease, Fraction

\* One round of the scan: h is the highest so far, i the next.
Higher(list, i, h) ==
    IF AtLeast(percentageIncrease(list[i]), percentageIncrease(list[h])) THEN i ELSE h

\* No entry among the first k with a rate is above the one at h, if that has one.
HighestOf(list, k, h) ==
    /\ h \in DOMAIN list
    /\ ~Undefined(percentageIncrease(list[h])) =>
         \A i \in 1..k : ~Undefined(percentageIncrease(list[i])) =>
             AtLeast(percentageIncrease(list[h]), percentageIncrease(list[i]))

\* A round of the scan keeps that of one entry more.
LEMMA ScanStep ==
    ASSUME NEW list \in Seq(Entry), NEW k \in 1..Len(list), NEW h, HighestOf(list, k - 1, h)
    PROVE  HighestOf(list, k, Higher(list, k, h))
<1> DEFINE R(i) == percentageIncrease(list[i])
           g == Higher(list, k, h)
<1>1. k \in DOMAIN list /\ h \in DOMAIN list /\ Len(list) \in Nat /\ DOMAIN list = 1..Len(list)
    BY DEF HighestOf
<1>2. \A i \in DOMAIN list : R(i) \in Fraction
    BY EntryRates
<1>3. \A i \in 1..k : i = k \/ i \in 1..(k - 1)
    BY <1>1
<1>4. \A i \in 1..k : i \in DOMAIN list
    BY <1>1
<1>5. ~Undefined(R(h)) => \A i \in 1..(k - 1) : ~Undefined(R(i)) => AtLeast(R(h), R(i))
    BY DEF HighestOf
<1> HIDE DEF R
<1>6. g = IF AtLeast(R(k), R(h)) THEN k ELSE h
    BY DEF Higher, R
<1> HIDE DEF g
<1>7. CASE AtLeast(R(k), R(h))
    <2>1. g = k /\ ~Undefined(R(k)) /\ ~Undefined(R(h))
        BY <1>6, <1>7 DEF AtLeast
    <2>2. ASSUME NEW i \in 1..k, ~Undefined(R(i)) PROVE AtLeast(R(k), R(i))
        <3>1. CASE i = k
            BY <1>1, <1>2, <2>1, <3>1, RatesCompare
        <3>2. CASE i \in 1..(k - 1)
            <4>1. AtLeast(R(h), R(i))
                BY <1>5, <2>1, <2>2, <3>2
            <4> QED
                BY <1>1, <1>2, <1>4, <1>7, <2>1, <2>2, <4>1, RatesCompare
        <3> QED
            BY <1>3, <3>1, <3>2
    <2> QED
        BY <1>1, <2>1, <2>2 DEF HighestOf, g, R
<1>8. CASE ~AtLeast(R(k), R(h))
    <2>1. g = h
        BY <1>6, <1>8
    <2>2. ASSUME NEW i \in 1..k, ~Undefined(R(i)), ~Undefined(R(h)) PROVE AtLeast(R(h), R(i))
        <3>1. CASE i = k
            BY <1>1, <1>2, <1>8, <2>2, <3>1, RatesCompare
        <3>2. CASE i \in 1..(k - 1)
            BY <1>5, <2>2, <3>2
        <3> QED
            BY <1>3, <3>1, <3>2
    <2> QED
        BY <1>1, <2>1, <2>2 DEF HighestOf, g, R
<1> QED
    BY <1>7, <1>8

\* The scan finds an entry that no entry with a rate is above.
LEMMA HighestIsHighest ==
    ASSUME NEW list \in Seq(Entry), list # <<>>
    PROVE  HighestOf(list, Len(list), highestIncrease(list))
<1> DEFINE n == Len(list)
           Scan(f) == [i \in 0..n |->
                         IF i = 0 THEN 1
                         ELSE LET h == f[i - 1]
                              IN  IF AtLeast(percentageIncrease(list[i]), percentageIncrease(list[h])) THEN i ELSE h]
           highest == CHOOSE f : f = Scan(f)
           step == [p \in (1..n) \X (1..n) |-> Higher(list, p[1], p[2])]
           P == {k \in 0..n : HighestOf(list, k, highest[k])}
<1>1. n \in Nat /\ n # 0 /\ 1 \in 1..n /\ DOMAIN list = 1..n
    OBVIOUS
<1>2. highest = Scan(highest)
    <2>1. step \in [(1..n) \X (1..n) -> 1..n]
        BY DEF Higher
    <2>2. PICK f : Runs(f, n, 1..n, 1, step)
        <3>1. IsLoop(n, 1..n, 1, step)
            BY <1>1, <2>1 DEF IsLoop
        <3> HIDE DEF step, n
        <3> QED
            BY <3>1, LoopExists
    <2>3. \A k \in 1..n : k - 1 \in 0..n /\ f[k - 1] \in 1..n
        BY <1>1, <2>2 DEF Runs
    <2>4. \A k \in 1..n : f[k] = Higher(list, k, f[k - 1])
        BY <2>2, <2>3 DEF Runs
    <2>5. \A i \in 0..n : f[i] = Scan(f)[i]
        BY <1>1, <2>2, <2>4 DEF Runs, Higher
    <2>6. f = Scan(f)
        BY <2>2, <2>5 DEF Runs
    <2> HIDE DEF Scan
    <2> QED
        BY <2>6
<1>3. highestIncrease(list) = highest[n]
    BY DEF highestIncrease
<1>4. highest[0] = 1 /\ \A k \in 1..n : highest[k] = Higher(list, k, highest[k - 1])
    <2> HIDE DEF highest
    <2> QED
        BY <1>1, <1>2 DEF Higher
<1> HIDE DEF highest
<1>5. 0 \in P
    BY <1>1, <1>4 DEF HighestOf
<1>6. \A k \in 1..n : k - 1 \in P => k \in P
    BY <1>1, <1>4, ScanStep
<1>7. \A k \in 0..n : k \in P
    <2> HIDE DEF P
    <2> QED
        BY <1>1, <1>5, <1>6, Upwards
<1> QED
    BY <1>1, <1>3, <1>7

\* d need not stand below e.
Better(d, e) ==
    ~Undefined(percentageIncrease(d)) /\ ~Undefined(percentageIncrease(e))
        => AtLeast(percentageIncrease(d), percentageIncrease(e))

\* One round of the sorting loop.
Move(m) ==
    LET h == highestIncrease(m.oldList)
    IN  [oldList |-> RemoveAt(m.oldList, h), new |-> Append(m.new, m.oldList[h])]

\* After k rounds: k entries are moved, none is lost, they are in order, and what is left
\* is not better than what is moved.
SortedUpTo(list, k, m) ==
    /\ m \in [oldList : Seq(Entry), new : Seq(Entry)]
    /\ Len(m.oldList) = Len(list) - k
    /\ \A e \in Entry : Occurrences(m.oldList, e) + Occurrences(m.new, e) = Occurrences(list, e)
    /\ \A i, j \in DOMAIN m.new : i < j => Better(m.new[i], m.new[j])
    /\ \A i \in DOMAIN m.new : \A j \in DOMAIN m.oldList : Better(m.new[i], m.oldList[j])

\* A round of the loop sorts one entry more.
LEMMA MoveSorts ==
    ASSUME NEW list \in Seq(Entry), NEW k \in 1..Len(list), NEW m, SortedUpTo(list, k - 1, m)
    PROVE  m.oldList # <<>> /\ SortedUpTo(list, k, Move(m))
<1> DEFINE o == m.oldList
           w == m.new
           h == highestIncrease(o)
           t == RemoveAt(o, h)
           v == Append(w, o[h])
<1>1. Len(list) \in Nat /\ o \in Seq(Entry) /\ w \in Seq(Entry) /\ Len(o) = Len(list) - (k - 1)
    BY DEF SortedUpTo
<1>2. o # <<>> /\ Len(o) \in Nat /\ Len(w) \in Nat
    BY <1>1
<1>3. HighestOf(o, Len(o), h)
    <2> HIDE DEF o, h
    <2>1. HighestOf(o, Len(o), highestIncrease(o))
        BY <1>1, <1>2, HighestIsHighest
    <2> QED
        BY <2>1 DEF h
<1>4. Move(m) = [oldList |-> t, new |-> v]
    BY DEF Move
<1>5. /\ \A e \in Entry : Occurrences(o, e) + Occurrences(w, e) = Occurrences(list, e)
      /\ \A i, j \in DOMAIN w : i < j => Better(w[i], w[j])
      /\ \A i \in DOMAIN w : \A j \in DOMAIN o : Better(w[i], o[j])
    BY DEF SortedUpTo
<1> HIDE DEF o, w, h
<1>6. h \in 1..Len(o) /\ o[h] \in Entry /\ \A j \in DOMAIN o : Better(o[h], o[j])
    <2>1. h \in 1..Len(o) /\ o[h] \in Entry /\ DOMAIN o = 1..Len(o)
        BY <1>1, <1>3 DEF HighestOf
    <2> QED
        BY <1>3, <2>1 DEF HighestOf, Better
<1>7. t \in Seq(Entry) /\ Len(t) = Len(o) - 1 /\ \A i \in 1..(Len(o) - 1) : t[i] = IF i < h THEN o[i] ELSE o[i + 1]
    BY <1>1, <1>6, RemoveProperties DEF RemoveAt
<1>8. v \in Seq(Entry) /\ Len(v) = Len(w) + 1 /\ v[Len(w) + 1] = o[h] /\ \A i \in 1..Len(w) : v[i] = w[i]
    BY <1>1, <1>6
<1>9. ASSUME NEW e \in Entry PROVE Occurrences(t, e) + Occurrences(v, e) = Occurrences(list, e)
    <2>1. Occurrences(v, e) = Occurrences(w, e) + (IF o[h] = e THEN 1 ELSE 0)
        <3> HIDE DEF t
        <3> QED
            BY <1>1, <1>6, AppendOccurs
    <2>2. Occurrences(o, e) = Occurrences(t, e) + (IF o[h] = e THEN 1 ELSE 0)
        BY <1>1, <1>6, RemoveOccurs DEF RemoveAt
    <2> HIDE DEF t, v
    <2>3. /\ Occurrences(o, e) \in Nat /\ Occurrences(w, e) \in Nat
          /\ Occurrences(t, e) \in Nat /\ Occurrences(v, e) \in Nat
        BY <1>1, <1>7, <1>8, OccurrencesNat
    <2> QED
        BY <1>5, <2>1, <2>2, <2>3
<1> HIDE DEF t, v
<1>10. DOMAIN w = 1..Len(w) /\ DOMAIN v = 1..(Len(w) + 1) /\ DOMAIN o = 1..Len(o) /\ DOMAIN t = 1..(Len(o) - 1)
    BY <1>1, <1>7, <1>8
<1>11. \A j \in DOMAIN t : \E i \in DOMAIN o : t[j] = o[i]
    <2> SUFFICES ASSUME NEW j \in DOMAIN t PROVE \E i \in DOMAIN o : t[j] = o[i]
        OBVIOUS
    <2>1. j \in DOMAIN o /\ j + 1 \in DOMAIN o
        BY <1>2, <1>10
    <2>2. t[j] = o[j] \/ t[j] = o[j + 1]
        BY <1>7, <1>10
    <2> QED
        BY <2>1, <2>2
<1>12. \A i \in DOMAIN v : (i \in DOMAIN w /\ v[i] = w[i]) \/ (i = Len(w) + 1 /\ v[i] = o[h])
    BY <1>2, <1>8, <1>10
<1>13. \A i \in DOMAIN v : \A j \in DOMAIN t : Better(v[i], t[j])
    BY <1>5, <1>6, <1>11, <1>12
<1>14. ASSUME NEW i \in DOMAIN v, NEW j \in DOMAIN v, i < j PROVE Better(v[i], v[j])
    <2>1. i \in DOMAIN w /\ v[i] = w[i]
        BY <1>2, <1>10, <1>12, <1>14
    <2>2. h \in DOMAIN o
        BY <1>6, <1>10
    <2> QED
        BY <1>5, <1>12, <1>14, <2>1, <2>2
<1>15. Len(t) = Len(list) - k
    BY <1>1, <1>7
<1>16. SortedUpTo(list, k, [oldList |-> t, new |-> v])
    BY <1>7, <1>8, <1>9, <1>13, <1>14, <1>15 DEF SortedUpTo
<1> QED
    BY <1>2, <1>4, <1>16 DEF o

\* Nothing is moved yet.
LEMMA NoneMoved ==
    ASSUME NEW list \in Seq(Entry)
    PROVE  SortedUpTo(list, 0, [oldList |-> list, new |-> <<>>])
<1>1. Len(list) \in Nat /\ <<>> \in Seq(Entry) /\ DOMAIN <<>> = {}
    OBVIOUS
<1>2. \A e \in Entry : Occurrences(<<>>, e) = 0
    <2>1. \A e : {i \in DOMAIN <<>> : <<>>[i] = e} = {}
        BY <1>1
    <2> QED
        BY <2>1, FS_EmptySet DEF Occurrences
<1>3. \A e \in Entry : Occurrences(list, e) \in Nat
    BY OccurrencesNat
<1>4. \A e \in Entry : Occurrences(list, e) + Occurrences(<<>>, e) = Occurrences(list, e)
    BY <1>2, <1>3
<1> QED
    BY <1>1, <1>4 DEF SortedUpTo

\* In order, and of the same entries.
Sorted(s) == \A i, j \in DOMAIN s : i < j => Better(s[i], s[j])
SameEntries(s, t) == \A e \in Entry : Occurrences(s, e) = Occurrences(t, e)

\* The sorting block puts the same entries in order.
LEMMA SortSorts ==
    ASSUME NEW list \in Seq(Entry)
    PROVE  sort(list) \in Seq(Entry) /\ Sorted(sort(list)) /\ SameEntries(sort(list), list)
<1> DEFINE n == Len(list)
           base == [oldList |-> list, new |-> <<>>]
           States == [oldList : Seq(Entry), new : Seq(Entry)]
           Round(f) == [k \in 0..n |-> IF k = 0 THEN base ELSE Move(f[k - 1])]
           moved == CHOOSE f : f = Round(f)
           step == [p \in (1..n) \X States |-> IF SortedUpTo(list, p[1] - 1, p[2]) THEN Move(p[2]) ELSE p[2]]
<1>1. n \in Nat /\ base \in States
    OBVIOUS
<1>2. ASSUME NEW g, g[0] = base,
             \A k \in 1..n : SortedUpTo(list, k - 1, g[k - 1]) => g[k] = Move(g[k - 1])
      PROVE  \A k \in 0..n : SortedUpTo(list, k, g[k])
    <2> DEFINE P == {k \in 0..n : SortedUpTo(list, k, g[k])}
    <2>1. 0 \in P
        BY <1>1, <1>2, NoneMoved
    <2>2. \A k \in 1..n : k - 1 \in P => k \in P
        <3> SUFFICES ASSUME NEW k \in 1..n, SortedUpTo(list, k - 1, g[k - 1])
                     PROVE  SortedUpTo(list, k, g[k])
            BY <1>1
        <3> HIDE DEF n
        <3> QED
            BY <1>2, MoveSorts DEF n
    <2>3. \A k \in 0..n : k \in P
        <3> HIDE DEF P, n
        <3> QED
            BY <1>1, <2>1, <2>2, Upwards
    <2> QED
        BY <2>3
<1>3. moved = Round(moved)
    <2>1. step \in [(1..n) \X States -> States]
        <3>1. ASSUME NEW p \in (1..n) \X States PROVE step[p] \in States
            <4>1. CASE SortedUpTo(list, p[1] - 1, p[2])
                <5>1. p[1] \in 1..n
                    OBVIOUS
                <5>2. SortedUpTo(list, p[1], Move(p[2]))
                    BY <4>1, <5>1, MoveSorts
                <5>3. Move(p[2]) \in States
                    BY <5>2 DEF SortedUpTo
                <5> QED
                    BY <4>1, <5>3
            <4>2. CASE ~SortedUpTo(list, p[1] - 1, p[2])
                BY <4>2
            <4> QED
                BY <4>1, <4>2
        <3> HIDE DEF States
        <3> QED
            BY <3>1
    <2>2. PICK f : Runs(f, n, States, base, step)
        <3>1. IsLoop(n, States, base, step)
            BY <1>1, <2>1 DEF IsLoop
        <3> HIDE DEF step, n, States, base
        <3> QED
            BY <3>1, LoopExists
    <2>3. f \in [0..n -> States] /\ f[0] = base
        BY <2>2 DEF Runs
    <2>4. ASSUME NEW k \in 1..n, SortedUpTo(list, k - 1, f[k - 1]) PROVE f[k] = Move(f[k - 1])
        <3>1. f[k] = step[<<k, f[k - 1]>>]
            BY <2>2 DEF Runs
        <3>2. <<k, f[k - 1]>> \in (1..n) \X States
            <4> HIDE DEF States
            <4> QED
                BY <1>1, <2>3
        <3> QED
            BY <2>4, <3>1, <3>2
    <2>5. \A k \in 0..n : SortedUpTo(list, k, f[k])
        <3> HIDE DEF base, n
        <3> QED
            BY <1>2, <2>3, <2>4
    <2>6. \A k \in 1..n : f[k] = Move(f[k - 1])
        BY <1>1, <2>4, <2>5
    <2>7. \A k \in 0..n : f[k] = Round(f)[k]
        BY <2>3, <2>6
    <2>8. f = Round(f)
        BY <2>3, <2>7
    <2> HIDE DEF Round
    <2> QED
        BY <2>8
<1>4. sort(list) = moved[n].new
    BY DEF sort, Move
<1>5. moved[0] = base /\ \A k \in 1..n : moved[k] = Move(moved[k - 1])
    <2>1. 0 \in 0..n /\ \A k \in 1..n : k \in 0..n /\ k # 0
        BY <1>1
    <2> HIDE DEF moved, base, n
    <2>2. \A k \in 0..n : moved[k] = IF k = 0 THEN base ELSE Move(moved[k - 1])
        BY <1>3
    <2> QED
        BY <2>1, <2>2
<1>6. SortedUpTo(list, n, moved[n])
    <2>1. \A k \in 0..n : SortedUpTo(list, k, moved[k])
        <3> HIDE DEF moved, base, n
        <3> QED
            BY <1>2, <1>5
    <2> HIDE DEF moved
    <2> QED
        BY <1>1, <2>1
<1> DEFINE m == moved[n]
<1> HIDE DEF moved, m
<1>7. SortedUpTo(list, n, m) /\ sort(list) = m.new
    BY <1>4, <1>6 DEF m
<1>8. m.oldList \in Seq(Entry) /\ Len(m.oldList) = 0 /\ m.new \in Seq(Entry)
    BY <1>1, <1>7 DEF SortedUpTo
<1>9. \A e \in Entry : Occurrences(m.oldList, e) = 0 /\ Occurrences(m.new, e) \in Nat
    <2>1. DOMAIN m.oldList = {}
        BY <1>8
    <2>2. \A e : {i \in DOMAIN m.oldList : m.oldList[i] = e} = {}
        BY <2>1
    <2> QED
        <3>1. \A e : Occurrences(m.oldList, e) = 0
            BY <2>2, FS_EmptySet DEF Occurrences
        <3>2. \A e \in Entry : Occurrences(m.new, e) \in Nat
            BY <1>8, OccurrencesNat
        <3> QED
            BY <3>1, <3>2
<1>10. SameEntries(m.new, list)
    BY <1>7, <1>9 DEF SortedUpTo, SameEntries
<1>11. Sorted(m.new)
    BY <1>7 DEF SortedUpTo, Sorted
<1> QED
    BY <1>7, <1>8, <1>10, <1>11

\* Joining lists of entries is a list of entries.
LEMMA FlattenTyped ==
    ASSUME NEW S, NEW s \in Seq(Seq(S))
    PROVE  FlattenSeq(s) \in Seq(S) /\ (s = <<>> => FlattenSeq(s) = <<>>)
<1> DEFINE n == Len(s)
           T == Seq(S)
           Joined(f) == [i \in 1..n |-> IF i = 1 THEN s[i] ELSE f[i - 1] \o s[i]]
           flatten == CHOOSE f : f = Joined(f)
           step == [p \in (1..(n - 1)) \X T |-> p[2] \o s[p[1] + 1]]
           P == {k \in 0..(n - 1) : flatten[k + 1] \in T}
<1>1. CASE s = <<>>
    BY <1>1 DEF FlattenSeq
<1>2. CASE s # <<>>
    <2>1. n \in Nat /\ n # 0 /\ n - 1 \in Nat /\ DOMAIN s = 1..n /\ \A i \in 1..n : s[i] \in T
        BY <1>2
    <2>2. \A a, b \in T : a \o b \in T
        OBVIOUS
    <2> HIDE DEF n, T
    <2>3. flatten = Joined(flatten)
        <3>1. step \in [(1..(n - 1)) \X T -> T]
            <4>1. ASSUME NEW p \in (1..(n - 1)) \X T PROVE p[2] \o s[p[1] + 1] \in T
                <5>1. p[2] \in T /\ p[1] + 1 \in 1..n
                    BY <2>1
                <5> QED
                    BY <2>1, <2>2, <5>1
            <4> QED
                BY <4>1
        <3>2. PICK f : Runs(f, n - 1, T, s[1], step)
            <4>1. 1 \in 1..n
                BY <2>1
            <4>2. IsLoop(n - 1, T, s[1], step)
                BY <2>1, <3>1, <4>1 DEF IsLoop
            <4> HIDE DEF step
            <4> QED
                BY <4>2, LoopExists
        <3>3. f \in [0..(n - 1) -> T] /\ f[0] = s[1]
            BY <3>2 DEF Runs
        <3>4. ASSUME NEW k \in 1..(n - 1) PROVE f[k] = f[k - 1] \o s[k + 1]
            <4>1. k - 1 \in 0..(n - 1)
                BY <2>1
            <4>2. <<k, f[k - 1]>> \in (1..(n - 1)) \X T
                BY <3>3, <4>1
            <4>3. f[k] = step[<<k, f[k - 1]>>]
                BY <3>2 DEF Runs
            <4> QED
                BY <4>2, <4>3
        <3> DEFINE g == [i \in 1..n |-> f[i - 1]]
        <3>5. ASSUME NEW i \in 1..n PROVE g[i] = IF i = 1 THEN s[i] ELSE g[i - 1] \o s[i]
            <4>1. CASE i = 1
                BY <3>3, <4>1
            <4>2. CASE i # 1
                <5>1. i - 1 \in 1..(n - 1) /\ i - 1 \in 1..n /\ (i - 1) + 1 = i
                    BY <2>1, <4>2
                <5>2. f[i - 1] = f[(i - 1) - 1] \o s[i] /\ g[i] = f[i - 1] /\ g[i - 1] = f[(i - 1) - 1]
                    BY <3>4, <5>1
                <5> QED
                    BY <4>2, <5>2
            <4> QED
                BY <4>1, <4>2
        <3>6. g = Joined(g)
            <4> HIDE DEF g
            <4>1. g = [i \in 1..n |-> g[i]]
                BY DEF g
            <4> QED
                BY <3>5, <4>1
        <3> HIDE DEF Joined, g
        <3> QED
            BY <3>6
    <2>4. FlattenSeq(s) = flatten[n]
        BY <2>1 DEF FlattenSeq, n
    <2> HIDE DEF flatten
    <2>5. flatten[1] = s[1] /\ \A k \in 1..(n - 1) : flatten[k + 1] = flatten[k] \o s[k + 1]
        <3>1. 1 \in 1..n /\ \A k \in 1..(n - 1) : k + 1 \in 1..n /\ k + 1 # 1 /\ (k + 1) - 1 = k
            BY <2>1
        <3>2. \A i \in 1..n : flatten[i] = IF i = 1 THEN s[i] ELSE flatten[i - 1] \o s[i]
            BY <2>3
        <3> QED
            BY <3>1, <3>2
    <2>6. 0 \in P
        BY <2>1, <2>5
    <2>7. \A k \in 1..(n - 1) : k - 1 \in P => k \in P
        <3> SUFFICES ASSUME NEW k \in 1..(n - 1), k - 1 \in P PROVE k \in P
            OBVIOUS
        <3>1. flatten[k] \in T
            BY <2>1
        <3>2. s[k + 1] \in T
            BY <2>1
        <3>3. flatten[k + 1] \in T
            BY <2>2, <2>5, <3>1, <3>2, Zenon
        <3> QED
            BY <2>1, <3>3
    <2>8. \A k \in 0..(n - 1) : k \in P
        <3> HIDE DEF P
        <3> QED
            BY <2>1, <2>6, <2>7, Upwards
    <2>9. n - 1 \in 0..(n - 1) /\ (n - 1) + 1 = n
        BY <2>1
    <2>10. flatten[n] \in T
        BY <2>8, <2>9
    <2> QED
        BY <1>2, <2>4, <2>10 DEF T
<1> QED
    BY <1>1, <1>2

\* The loops of reload() make entries with both prices.
LEMMA EntriesTyped ==
    ASSUME XPlatAssumption, NEW list \in Seq(decodingitem), NEW platforms \in Platforms \X Platforms
    PROVE  entries(list, platforms) \in Seq(Entry) /\ (list = <<>> => entries(list, platforms) = <<>>)
<1> DEFINE of(item, colour) ==
               [itemName |-> item.itemName, itemColour |-> colour,
                platform1Price |-> getColourPrice(item, colour, platforms[1]),
                platform2Price |-> getColourPrice(item, colour, platforms[2])]
           coloured(item) ==
               LET p == Ascending({c \in DOMAIN ColourOrder : Priced(item, ColourOrder[c], platforms)})
               IN  [k \in DOMAIN p |-> of(item, ColourOrder[p[k]])]
           lists == [i \in DOMAIN list |-> coloured(list[i])]
<1>1. entries(list, platforms) = FlattenSeq(lists)
    BY DEF entries
<1>2. ASSUME NEW item \in decodingitem PROVE coloured(item) \in Seq(Entry)
    <2> DEFINE S == {c \in DOMAIN ColourOrder : Priced(item, ColourOrder[c], platforms)}
               p == Ascending(S)
    <2>1. ColourOrder \in Seq(Colours) /\ S \in SUBSET DOMAIN ColourOrder
        BY DEF XPlatAssumption
    <2>2. IsFiniteSet(S) /\ Cardinality(S) \in Nat
        <3>1. IsFiniteSet(DOMAIN ColourOrder)
            BY <2>1, FS_Interval
        <3> HIDE DEF S
        <3> QED
            BY <2>1, <3>1, FS_Subset, FS_CardinalityType
    <2>3. p \in [1..Cardinality(S) -> S]
        <3> HIDE DEF S
        <3> QED
            BY <2>1, SelectedInOrder
    <2>4. ASSUME NEW c \in S PROVE of(item, ColourOrder[c]) \in Entry
        <3>1. ColourOrder[c] \in Colours /\ Priced(item, ColourOrder[c], platforms)
            BY <2>1
        <3>2. \A i \in 1..2 : getColourPrice(item, ColourOrder[c], platforms[i]) \in PriceRanges
            <4> SUFFICES ASSUME NEW i \in 1..2
                         PROVE  getColourPrice(item, ColourOrder[c], platforms[i]) \in PriceRanges
                OBVIOUS
            <4>1. platforms[i] \in Platforms
                OBVIOUS
            <4>2. item.itemPriceRange[<<ColourOrder[c], platforms[i]>>] \in PriceRanges \cup {NoPrice}
                BY <3>1, <4>1 DEF decodingitem, prices
            <4> QED
                BY <3>1, <4>1, <4>2 DEF Priced, getColourPrice
        <3> QED
            BY <3>1, <3>2 DEF decodingitem, Entry
    <2>5. coloured(item) = [k \in DOMAIN p |-> of(item, ColourOrder[p[k]])]
        OBVIOUS
    <2> HIDE DEF p, S, of, coloured
    <2>6. \A k \in DOMAIN p : of(item, ColourOrder[p[k]]) \in Entry
        BY <2>3, <2>4
    <2> QED
        BY <2>2, <2>3, <2>5, <2>6
<1> HIDE DEF coloured
<1>3. lists \in Seq(Seq(Entry)) /\ (list = <<>> => lists = <<>>)
    <2> DEFINE T == Seq(Entry)
    <2>1. \A i \in DOMAIN list : coloured(list[i]) \in T
        BY <1>2
    <2>2. DOMAIN list = 1..Len(list) /\ Len(list) \in Nat
        OBVIOUS
    <2> HIDE DEF T
    <2>3. lists \in Seq(T)
        BY <2>1, <2>2
    <2>4. list = <<>> => lists = <<>>
        BY <2>2
    <2> QED
        BY <2>3, <2>4 DEF T
<1> HIDE DEF lists
<1> QED
    BY <1>1, <1>3, FlattenTyped

\* What is in a list occurs in it, and a list of the same entries has it too.
LEMMA OccursInRange ==
    ASSUME NEW s \in Seq(Entry), NEW e \in Entry
    PROVE  e \in Range(s) <=> Occurrences(s, e) # 0
<1>1. Occurrences(s, e) = 0 <=> {i \in DOMAIN s : s[i] = e} = {}
    BY OccurrencesNat, FS_EmptySet DEF Occurrences
<1>2. e \in Range(s) <=> {i \in DOMAIN s : s[i] = e} # {}
    BY DEF Range
<1> QED
    BY <1>1, <1>2

\* Lists of the same entries have the same range.
LEMMA SameRange ==
    ASSUME NEW s \in Seq(Entry), NEW t \in Seq(Entry), SameEntries(s, t)
    PROVE  Range(s) = Range(t) /\ (s = <<>> <=> t = <<>>)
<1>1. Range(s) \subseteq Entry /\ Range(t) \subseteq Entry
    BY DEF Range
<1>2. Range(s) = Range(t)
    BY <1>1, OccursInRange DEF SameEntries
<1>3. \A r \in Seq(Entry) : r = <<>> <=> Range(r) = {}
    <2> SUFFICES ASSUME NEW r \in Seq(Entry) PROVE r = <<>> <=> Range(r) = {}
        OBVIOUS
    <2>1. r # <<>> => 1 \in DOMAIN r
        OBVIOUS
    <2>2. r = <<>> => DOMAIN r = {}
        OBVIOUS
    <2> QED
        BY <2>1, <2>2 DEF Range
<1> QED
    BY <1>2, <1>3

\* A choice on the settings sheet is a pair of platforms again.
LEMMA ChoiceTyped ==
    ASSUME NEW d \in Platforms \X Platforms, NEW i \in 1..2, NEW p \in Platforms
    PROVE  [d EXCEPT ![i] = p] \in Platforms \X Platforms
<1>1. CASE i = 1
    <2>1. [d EXCEPT ![i] = p] = <<p, d[2]>>
        BY <1>1
    <2> QED
        BY <2>1
<1>2. CASE i = 2
    <2>1. [d EXCEPT ![i] = p] = <<d[1], p>>
        BY <1>2
    <2> QED
        BY <2>1
<1> QED
    BY <1>1, <1>2

-----------------------------------------------------------------------------
(* The invariant.  BestFirst and RowsOfCatalogue speak of a table that is    *)
(* shown; a block may sort and show the table whenever one is queued, so     *)
(* what is hidden has to be right before.                                    *)

\* Before the tab was opened there is nothing to show, and no block that shows it
\* (viewDidLoad, ReloadItems).
Unopened ==
    ~loaded => xPlatItems = <<>> /\ hidden /\ \A i \in 1..Len(queue) : queue[i] = "reloadItems"

\* The catalogue is not there before it is read, and is announced by a block.
Unread == load = "reading" => items = <<>>
Unannounced == haveLoaded \/ Queued("reloadItems") \/ items = <<>>

\* A table that is shown has been sorted since it was computed.
Ordered == ~hidden => Sorted(xPlatItems)

\* The table is empty or the catalogue's, and empty only until the catalogue is announced.
RowsInv ==
    /\ xPlatItems = <<>> \/ SameEntries(xPlatItems, entries(items, from))
    /\ Queued("reloadItems") \/ ~loaded \/ SameEntries(xPlatItems, entries(items, from))

XInv ==
    /\ TypeOK /\ Observing /\ Unopened /\ Unread /\ Unannounced /\ Ordered /\ RowsInv
    /\ CrashOnZero

Blocks == {"reloadItems", "reloadPlatforms", "sort"}

\* What reload() leaves is typed and the catalogue's.
LEMMA ReloadEffect ==
    ASSUME XPlatAssumption, TypeOK, NEW q \in Seq(Blocks), reload(q)
    PROVE  /\ xPlatItems' = entries(items, from') /\ xPlatItems' \in Seq(Entry)
           /\ SameEntries(xPlatItems', entries(items, from'))
           /\ queue' \in Seq(Blocks) /\ from' \in Platforms \X Platforms
           /\ hidden' = TRUE /\ swiped' = FALSE
<1>1. xPlatItems' = entries(items, from') /\ from' = xPlatData /\ hidden' = TRUE /\ swiped' = FALSE
      /\ queue' = Append(q, "sort")
    BY DEF reload
<1>2. entries(items, xPlatData) \in Seq(Entry) /\ xPlatData \in Platforms \X Platforms
    BY EntriesTyped DEF TypeOK
<1>3. Append(q, "sort") \in Seq(Blocks)
    BY DEF Blocks
<1> QED
    BY <1>1, <1>2, <1>3 DEF SameEntries

\* Every step leaves the variables typed.
LEMMA TypeStep ==
    ASSUME XPlatAssumption, TypeOK, [Next]_vars
    PROVE  TypeOK'
<1> USE DEF TypeOK
<1>1. CASE UNCHANGED vars
    BY <1>1 DEF vars, view, catalogue
<1>2. ASSUME NEW list \in Catalogues, CatalogueArrives(list) PROVE TypeOK'
    <2>1. list \in Seq(decodingitem)
        BY DEF XPlatAssumption
    <2>2. queue' \in Seq({"reloadItems", "reloadPlatforms", "sort"})
        BY <1>2 DEF CatalogueArrives, post
    <2> QED
        BY <1>2, <2>1, <2>2 DEF CatalogueArrives, view
<1>3. CASE LoadFails \/ Leave \/ settingsButton \/ SwipeSettings \/ CloseAlert
    BY <1>3 DEF LoadFails, Leave, settingsButton, SwipeSettings, CloseAlert, view, catalogue
<1>4. CASE ReloadItems
    <2>1. Tail(queue) \in Seq(Blocks)
        BY <1>4 DEF ReloadItems, Blocks
    <2>2. CASE loaded /\ reload(Tail(queue))
        <3>1. /\ xPlatItems' \in Seq(Entry) /\ queue' \in Seq(Blocks)
              /\ from' \in Platforms \X Platforms /\ hidden' = TRUE /\ swiped' = FALSE
            BY <2>1, <2>2, ReloadEffect
        <3> QED
            BY <1>4, <3>1 DEF ReloadItems, Blocks
    <2>3. CASE ~loaded /\ queue' = Tail(queue) /\ UNCHANGED <<xPlatItems, hidden, from, swiped>>
        BY <1>4, <2>1, <2>3 DEF ReloadItems, Blocks
    <2> QED
        BY <1>4, <2>2, <2>3 DEF ReloadItems
<1>5. CASE ReloadPlatforms
    <2>1. Tail(queue) \in Seq(Blocks)
        BY <1>5 DEF ReloadPlatforms, Blocks
    <2>2. /\ xPlatItems' \in Seq(Entry) /\ queue' \in Seq(Blocks)
          /\ from' \in Platforms \X Platforms /\ hidden' = TRUE /\ swiped' = FALSE
        BY <1>5, <2>1, ReloadEffect DEF ReloadPlatforms
    <2> QED
        BY <1>5, <2>2 DEF ReloadPlatforms, catalogue, Blocks
<1>6. CASE SortBlock
    <2>1. Tail(queue) \in Seq({"reloadItems", "reloadPlatforms", "sort"})
        BY <1>6 DEF SortBlock
    <2>2. sort(xPlatItems) \in Seq(Entry)
        BY SortSorts
    <2>3. trap' \in {"none", "rate"} /\ title' \in Platforms \X Platforms
        BY <1>6 DEF SortBlock
    <2> QED
        BY <1>6, <2>1, <2>2, <2>3 DEF SortBlock, catalogue
<1>7. CASE Appear
    <2>1. queue \in Seq(Blocks)
        BY DEF Blocks
    <2>2. title' \in Platforms \X Platforms
        BY <1>7 DEF Appear
    <2>3. CASE reload(queue)
        <3>1. /\ xPlatItems' \in Seq(Entry) /\ queue' \in Seq(Blocks)
              /\ from' \in Platforms \X Platforms /\ hidden' = TRUE /\ swiped' = FALSE
            BY <2>1, <2>3, ReloadEffect
        <3> QED
            BY <1>7, <2>2, <3>1 DEF Appear, catalogue, Blocks
    <2>4. CASE hidden' = TRUE /\ UNCHANGED <<xPlatItems, queue, from, swiped>>
        BY <1>7, <2>2, <2>4 DEF Appear, catalogue
    <2> QED
        BY <1>7, <2>3, <2>4 DEF Appear
<1>8. ASSUME NEW i \in 1..2, NEW p \in Platforms, ChoosePlatform(i, p) PROVE TypeOK'
    <2>1. xPlatData' \in Platforms \X Platforms
        BY <1>8, ChoiceTyped DEF ChoosePlatform
    <2> QED
        BY <1>8, <2>1 DEF ChoosePlatform, view, catalogue
<1>9. CASE doneButton
    <2>1. queue' \in Seq({"reloadItems", "reloadPlatforms", "sort"})
        BY <1>9 DEF doneButton, post
    <2> QED
        BY <1>9, <2>1 DEF doneButton, view, catalogue
<1>10. ASSUME NEW r \in DOMAIN xPlatItems, SelectRow(r) PROVE TypeOK'
    <2>1. alert' \in [row : Entry, platforms : Platforms \X Platforms]
        BY <1>10 DEF SelectRow
    <2> QED
        BY <1>10, <2>1 DEF SelectRow, view, catalogue
<1>11. CASE Relaunch
    <2>1. /\ <<>> \in Seq(decodingitem) /\ <<>> \in Seq(Entry)
          /\ <<>> \in Seq({"reloadItems", "reloadPlatforms", "sort"})
        OBVIOUS
    <2>2. /\ items' \in Seq(decodingitem) /\ xPlatItems' \in Seq(Entry)
          /\ queue' \in Seq({"reloadItems", "reloadPlatforms", "sort"})
        BY <1>11, <2>1 DEF Relaunch
    <2>3. saved \in Platforms \X Platforms
        OBVIOUS
    <2>4. {xPlatData', saved', title', from'} \subseteq Platforms \X Platforms
        BY <1>11, <2>3 DEF Relaunch
    <2> QED
        BY <1>11, <2>2, <2>4 DEF Relaunch
<1> QED
    BY <1>1, <1>2, <1>3, <1>4, <1>5, <1>6, <1>7, <1>8, <1>9, <1>10, <1>11 DEF Next

\* Only a catalogue that was announced has a tab to wait for it: what is queued on a tab
\* that was not opened is its announcement.
LEMMA OpenedIfQueued ==
    ASSUME TypeOK, Unopened, queue # <<>>, Head(queue) # "reloadItems"
    PROVE  loaded
<1>1. 1 \in 1..Len(queue) /\ queue[1] = Head(queue)
    BY DEF TypeOK
<1> QED
    BY <1>1 DEF Unopened

\* A new table satisfies all that is said of tables.
LEMMA ReloadKeeps ==
    ASSUME XPlatAssumption, TypeOK, NEW q \in Seq(Blocks), reload(q), UNCHANGED items
    PROVE  Ordered' /\ RowsInv'
<1>1. hidden' = TRUE /\ SameEntries(xPlatItems', entries(items', from'))
    BY ReloadEffect
<1> QED
    BY <1>1 DEF Ordered, RowsInv

\* Without a catalogue there are no entries.
LEMMA NoEntries ==
    ASSUME XPlatAssumption, TypeOK, items = <<>>
    PROVE  /\ entries(items, from) = <<>>
           /\ xPlatItems = <<>> => SameEntries(xPlatItems, entries(items, from))
           /\ RowsInv => xPlatItems = <<>>
<1>1. entries(items, from) = <<>> /\ from \in Platforms \X Platforms
    BY EntriesTyped DEF TypeOK
<1>2. SameEntries(xPlatItems, <<>>) => xPlatItems = <<>>
    <2>1. xPlatItems \in Seq(Entry) /\ <<>> \in Seq(Entry)
        BY DEF TypeOK
    <2> QED
        BY <2>1, SameRange
<1> QED
    BY <1>1, <1>2 DEF RowsInv, SameEntries

\* The sorting block shows the same entries, in order.
LEMMA SortBlockKeeps ==
    ASSUME XPlatAssumption, XInv, SortBlock
    PROVE  Unopened' /\ Unread' /\ Unannounced' /\ Ordered' /\ RowsInv' /\ CrashOnZero'
<1> USE DEF XInv
<1>1. /\ queue # <<>> /\ Head(queue) = "sort" /\ queue' = Tail(queue) /\ xPlatItems' = sort(xPlatItems)
      /\ UNCHANGED <<items, haveLoaded, load, from, loaded>>
    BY DEF SortBlock, catalogue
<1>2. loaded
    BY <1>1, OpenedIfQueued
<1>3. Queued("reloadItems") => Queued("reloadItems")'
    BY <1>1, SortKeeps DEF TypeOK, QueueOK
<1>4. xPlatItems \in Seq(Entry) /\ entries(items, from) \in Seq(Entry)
    BY EntriesTyped DEF TypeOK
<1>5. xPlatItems' \in Seq(Entry) /\ Sorted(xPlatItems') /\ SameEntries(xPlatItems', xPlatItems)
    BY <1>1, <1>4, SortSorts
<1>6. \A t \in Seq(Entry) : SameEntries(xPlatItems, t) => SameEntries(xPlatItems', t)
    BY <1>5 DEF SameEntries
<1>7. xPlatItems = <<>> => xPlatItems' = <<>>
    BY <1>4, <1>5, SameRange
<1>8. RowsInv'
    BY <1>1, <1>3, <1>4, <1>6, <1>7 DEF RowsInv
<1>9. CrashOnZero'
    <2>1. trap' = "rate" => \E e \in Range(xPlatItems) : cellTraps(e)
        BY DEF SortBlock
    <2>2. \A e \in Range(xPlatItems) : cellTraps(e) => price(e.platform1Price) = 0
        BY DEF cellTraps, percentageIncrease
    <2>3. Range(xPlatItems) \subseteq Range(entries(items, from))
        <3>1. xPlatItems = <<>> => Range(xPlatItems) = {}
            BY DEF Range
        <3> QED
            BY <1>4, <3>1, SameRange DEF RowsInv
    <2> QED
        BY <1>1, <2>1, <2>2, <2>3 DEF CrashOnZero
<1> QED
    BY <1>1, <1>2, <1>3, <1>5, <1>8, <1>9 DEF Unopened, Unread, Unannounced, Ordered

\* The announcement of the catalogue, before and after the tab was opened.
LEMMA ReloadItemsKeeps ==
    ASSUME XPlatAssumption, XInv, ReloadItems
    PROVE  Unopened' /\ Unread' /\ Unannounced' /\ Ordered' /\ RowsInv'
<1> USE DEF XInv
<1>1. /\ queue # <<>> /\ haveLoaded' = TRUE /\ UNCHANGED <<items, load, loaded>>
    BY DEF ReloadItems
<1>2. Tail(queue) \in Seq(Blocks)
    BY <1>1 DEF TypeOK, Blocks
<1>3. CASE loaded /\ reload(Tail(queue))
    <2>1. Ordered' /\ RowsInv'
        BY <1>1, <1>2, <1>3, ReloadKeeps
    <2> QED
        BY <1>1, <1>3, <2>1 DEF Unopened, Unread, Unannounced
<1>4. CASE ~loaded /\ queue' = Tail(queue) /\ UNCHANGED <<xPlatItems, hidden, from>>
    <2>1. \A i \in 1..Len(queue') : queue'[i] = queue[i + 1] /\ i + 1 \in 1..Len(queue)
        BY <1>1, <1>4 DEF TypeOK
    <2>2. Unopened'
        BY <1>4, <2>1 DEF Unopened
    <2> QED
        BY <1>1, <1>4, <2>2 DEF Unread, Unannounced, Ordered, RowsInv
<1> QED
    BY <1>3, <1>4 DEF ReloadItems

\* The reload that the settings sheet asked for.
LEMMA ReloadPlatformsKeeps ==
    ASSUME XPlatAssumption, XInv, ReloadPlatforms
    PROVE  Unopened' /\ Unread' /\ Unannounced' /\ Ordered' /\ RowsInv'
<1> USE DEF XInv
<1>1. /\ queue # <<>> /\ Head(queue) = "reloadPlatforms" /\ reload(Tail(queue))
      /\ UNCHANGED <<items, haveLoaded, load, loaded>>
    BY DEF ReloadPlatforms, catalogue
<1>2. loaded
    BY <1>1, OpenedIfQueued
<1>3. queue \in Seq(Blocks) /\ Tail(queue) \in Seq(Blocks)
    BY <1>1 DEF TypeOK, Blocks
<1>4. Queued("reloadItems") => Queued("reloadItems")'
    <2> SUFFICES ASSUME NEW i \in 1..Len(queue), queue[i] = "reloadItems" PROVE Queued("reloadItems")'
        BY DEF Queued
    <2>1. i # 1 /\ Head(queue) = queue[1]
        BY <1>1, <1>3
    <2>2. i - 1 \in 1..Len(Tail(queue)) /\ Tail(queue)[i - 1] = "reloadItems"
        BY <1>1, <2>1, OthersStay DEF TypeOK
    <2>3. queue' = Append(Tail(queue), "sort")
        BY <1>1 DEF reload
    <2>4. i - 1 \in 1..Len(queue') /\ queue'[i - 1] = "reloadItems"
        BY <1>3, <2>2, <2>3, PostedIsQueued DEF Blocks
    <2> QED
        BY <2>4 DEF Queued
<1>5. Ordered' /\ RowsInv'
    BY <1>1, <1>3, ReloadKeeps
<1> QED
    BY <1>1, <1>2, <1>4, <1>5 DEF Unopened, Unread, Unannounced

\* The tab comes on the screen: it computes its table if the catalogue is announced, and
\* else its empty table is right until that.
LEMMA AppearKeeps ==
    ASSUME XPlatAssumption, XInv, Appear
    PROVE  Unopened' /\ Unread' /\ Unannounced' /\ Ordered' /\ RowsInv'
<1> USE DEF XInv
<1>1. loaded' = TRUE /\ UNCHANGED <<items, haveLoaded, load>>
    BY DEF Appear, catalogue
<1>2. CASE haveLoaded /\ reload(queue)
    <2>1. queue \in Seq(Blocks)
        BY DEF TypeOK, Blocks
    <2>2. Ordered' /\ RowsInv'
        BY <1>1, <1>2, <2>1, ReloadKeeps
    <2> QED
        BY <1>1, <1>2, <2>2 DEF Unopened, Unread, Unannounced
<1>3. CASE ~haveLoaded /\ hidden' = TRUE /\ UNCHANGED <<xPlatItems, queue, from>>
    <2>1. Queued("reloadItems")' <=> Queued("reloadItems")
        BY <1>3 DEF Queued
    <2>2. Queued("reloadItems") \/ SameEntries(xPlatItems, entries(items, from))
        <3>1. CASE loaded
            BY <3>1 DEF RowsInv
        <3>2. CASE ~loaded
            BY <1>3, <3>2, NoEntries DEF Unopened, Unannounced
        <3> QED
            BY <3>1, <3>2
    <2> QED
        BY <1>1, <1>3, <2>1, <2>2 DEF Unopened, Unread, Unannounced, Ordered, RowsInv
<1> QED
    BY <1>2, <1>3 DEF Appear

\* The catalogue arrives at a table that is still empty, and its announcement is queued.
LEMMA ArrivalKeeps ==
    ASSUME XPlatAssumption, XInv, NEW list \in Catalogues, CatalogueArrives(list)
    PROVE  Unopened' /\ Unread' /\ Unannounced' /\ Ordered' /\ RowsInv' /\ CrashOnZero'
<1> USE DEF XInv
<1>1. /\ load = "reading" /\ load' = "applied" /\ queue' = Append(queue, "reloadItems") /\ trap' = "none"
      /\ UNCHANGED <<haveLoaded, xPlatItems, hidden, loaded>>
    BY DEF CatalogueArrives, post, view, Running
<1>2. xPlatItems = <<>>
    BY <1>1, NoEntries DEF Unread
<1>3. Queued("reloadItems")'
    BY <1>1, PostKeeps DEF TypeOK, QueueOK
<1>4. Unopened'
    <2> SUFFICES ASSUME ~loaded, NEW i \in 1..Len(queue') PROVE queue'[i] = "reloadItems"
        BY <1>1, <1>2 DEF Unopened
    <2>1. \A j \in 1..Len(queue) : queue[j] = "reloadItems"
        BY DEF Unopened
    <2> QED
        BY <1>1, <2>1 DEF TypeOK
<1> QED
    BY <1>1, <1>2, <1>3, <1>4 DEF Unread, Unannounced, Ordered, RowsInv, CrashOnZero

\* The other steps leave the table, its catalogue and its platforms alone.
Aside == UNCHANGED <<items, haveLoaded, xPlatItems, hidden, loaded, from>> /\ (load' = "reading" => load = "reading")

\* Such a step keeps what is said of the table.
LEMMA AsideKeeps ==
    ASSUME XInv, Aside, UNCHANGED queue
    PROVE  Unopened' /\ Unread' /\ Unannounced' /\ Ordered' /\ RowsInv'
BY DEF XInv, Aside, Unopened, Unread, Unannounced, Ordered, RowsInv, Queued

\* Done queues a reload behind the others (doneButton).
LEMMA DoneKeeps ==
    ASSUME XInv, doneButton
    PROVE  Unopened' /\ Unread' /\ Unannounced' /\ Ordered' /\ RowsInv'
<1> USE DEF XInv
<1>1. /\ loaded /\ queue' = Append(queue, "reloadPlatforms")
      /\ UNCHANGED <<items, haveLoaded, load, xPlatItems, hidden, loaded, from>>
    BY DEF doneButton, post, catalogue, view, Observing
<1>2. Queued("reloadItems") => Queued("reloadItems")'
    BY <1>1, PostKeeps DEF TypeOK, QueueOK
<1> QED
    BY <1>1, <1>2 DEF Unopened, Unread, Unannounced, Ordered, RowsInv

\* A new process has no table, no catalogue and no queue.
LEMMA RelaunchKeeps ==
    ASSUME XInv, Relaunch
    PROVE  Unopened' /\ Unread' /\ Unannounced' /\ Ordered' /\ RowsInv' /\ CrashOnZero'
<1>1. /\ items' = <<>> /\ queue' = <<>> /\ xPlatItems' = <<>> /\ loaded' = FALSE /\ hidden' = TRUE
      /\ trap' = "none"
    BY DEF Relaunch
<1> QED
    BY <1>1 DEF Unopened, Unread, Unannounced, Ordered, RowsInv, CrashOnZero

\* A step that ends in no trap says nothing of one, and after a trap there is only a launch.
LEMMA TrapKeeps ==
    ASSUME CrashOnZero, trap' = "none" \/ UNCHANGED <<trap, items, from>>
    PROVE  CrashOnZero'
BY DEF CrashOnZero

\* Every step keeps the invariant.
LEMMA XStep ==
    ASSUME XPlatAssumption, XInv, [Next]_vars
    PROVE  XInv'
<1>1. TypeOK'
    BY TypeStep DEF XInv
<1>2. CASE UNCHANGED vars
    <2>1. Aside /\ UNCHANGED <<queue, screen, loaded, trap>>
        BY <1>2 DEF vars, view, catalogue, Aside
    <2>2. Observing' /\ CrashOnZero'
        BY <2>1, TrapKeeps DEF XInv, Observing, Aside
    <2> QED
        BY <1>1, <2>1, <2>2, AsideKeeps DEF XInv
<1>3. ASSUME NEW list \in Catalogues, CatalogueArrives(list) PROVE XInv'
    <2>1. Observing'
        BY <1>3 DEF CatalogueArrives, XInv, Observing
    <2> QED
        BY <1>1, <1>3, <2>1, ArrivalKeeps DEF XInv
<1>4. ASSUME LoadFails \/ Leave \/ settingsButton \/ SwipeSettings \/ CloseAlert
             \/ (\E i \in 1..2, p \in Platforms : ChoosePlatform(i, p))
             \/ (\E r \in DOMAIN xPlatItems : SelectRow(r))
      PROVE  XInv'
    <2>1. Aside /\ UNCHANGED <<queue, trap>> /\ (screen' = screen \/ screen \in {"tab", "settings"})
        BY <1>4 DEF LoadFails, Leave, settingsButton, SwipeSettings, CloseAlert, ChoosePlatform, SelectRow,
                    view, catalogue, Aside, Running, Free
    <2>2. Observing' /\ CrashOnZero'
        BY <2>1, TrapKeeps DEF XInv, Observing, Aside
    <2> QED
        BY <1>1, <2>1, <2>2, AsideKeeps DEF XInv
<1>5. CASE ReloadItems
    <2>1. Observing' /\ CrashOnZero'
        BY <1>5, TrapKeeps DEF ReloadItems, Running, XInv, Observing
    <2> QED
        BY <1>1, <1>5, <2>1, ReloadItemsKeeps DEF XInv
<1>6. CASE ReloadPlatforms
    <2>1. Observing' /\ CrashOnZero'
        BY <1>6, TrapKeeps DEF ReloadPlatforms, Running, XInv, Observing
    <2> QED
        BY <1>1, <1>6, <2>1, ReloadPlatformsKeeps DEF XInv
<1>7. CASE SortBlock
    <2>1. Observing'
        BY <1>7 DEF SortBlock, XInv, Observing
    <2> QED
        BY <1>1, <1>7, <2>1, SortBlockKeeps DEF XInv
<1>8. CASE Appear
    <2>1. Observing' /\ CrashOnZero'
        BY <1>8, TrapKeeps DEF Appear, Free, Running, XInv, Observing
    <2> QED
        BY <1>1, <1>8, <2>1, AppearKeeps DEF XInv
<1>9. CASE doneButton
    <2>1. Observing' /\ CrashOnZero'
        BY <1>9, TrapKeeps DEF doneButton, Running, XInv, Observing
    <2> QED
        BY <1>1, <1>9, <2>1, DoneKeeps DEF XInv
<1>10. CASE Relaunch
    <2>1. Observing'
        BY <1>10 DEF Relaunch, Observing
    <2> QED
        BY <1>1, <1>10, <2>1, RelaunchKeeps DEF XInv
<1> QED
    BY <1>2, <1>3, <1>4, <1>5, <1>6, <1>7, <1>8, <1>9, <1>10 DEF Next

\* The first launch.
LEMMA XInit == ASSUME XPlatAssumption, Init PROVE XInv
<1>1. /\ <<>> \in Seq(decodingitem) /\ <<>> \in Seq(Entry)
      /\ <<>> \in Seq({"reloadItems", "reloadPlatforms", "sort"})
    OBVIOUS
<1>2. {xPlatData, saved, title, from} \subseteq Platforms \X Platforms
    BY DEF Init, XPlatAssumption
<1>3. TypeOK
    BY <1>1, <1>2 DEF Init, TypeOK
<1> QED
    BY <1>3 DEF Init, XInv, Observing, Unopened, Unread, Unannounced, Ordered, RowsInv, CrashOnZero

\* The invariant of the tab.
LEMMA XInvariance == ASSUME XPlatAssumption PROVE Spec => []XInv
<1>1. Init => XInv
    BY XInit
<1>2. XInv /\ [Next]_vars => XInv'
    BY XStep
<1> QED
    BY <1>1, <1>2, PTL DEF Spec

\* The tab's variables have the types the code declares, and an entry of the table always
\* has both of its prices, whatever is loaded, chosen and sorted (reload).
THEOREM TabTyped == ASSUME XPlatAssumption PROVE Spec => []TypeOK
<1>1. XInv => TypeOK
    BY DEF XInv
<1> QED
    BY <1>1, XInvariance, PTL

\* A table that is shown is in the order of the rates that are defined, whatever reloads
\* and sorting blocks ran into each other (reload and its block, Float's >=).
THEOREM TabInOrder == ASSUME XPlatAssumption PROVE Spec => []BestFirst
<1>1. XInv => BestFirst
    BY DEF XInv, Ordered, Sorted, Better, BestFirst
<1> QED
    BY <1>1, XInvariance, PTL

\* A table that is shown has every entry of the catalogue for its platforms as often as the
\* catalogue has it: the sorting block, which empties one list into another, loses none
\* and doubles none (reload and its block, reloadItems).
THEOREM TabIsCatalogue == ASSUME XPlatAssumption PROVE Spec => []RowsOfCatalogue
<1>1. XInv => RowsOfCatalogue
    <2> SUFFICES ASSUME XInv, ~hidden, ~Contains(queue, "reloadItems"),
                        NEW e \in Range(xPlatItems) \cup Range(entries(items, from))
                 PROVE  Occurrences(xPlatItems, e) = Occurrences(entries(items, from), e)
        BY DEF RowsOfCatalogue, Occurrences
    <2>1. SameEntries(xPlatItems, entries(items, from))
        BY DEF XInv, Unopened, RowsInv, Contains, Queued
    <2>2. xPlatItems \in Seq(Entry) /\ entries(items, from) \in Seq(Entry)
        BY EntriesTyped DEF XInv, TypeOK
    <2>3. e \in Entry
        BY <2>2 DEF Range
    <2> QED
        BY <2>1, <2>3 DEF SameEntries
<1> QED
    BY <1>1, XInvariance, PTL

\* The tab ends the process only when an entry of the catalogue costs nothing on the first
\* platform (cellForRowAt, Int(round(...))).
THEOREM TabTrapsOnZero == ASSUME XPlatAssumption PROVE Spec => []CrashOnZero
<1>1. XInv => CrashOnZero
    BY DEF XInv
<1> QED
    BY <1>1, XInvariance, PTL
=============================================================================
