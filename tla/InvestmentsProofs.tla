------------------------- MODULE InvestmentsProofs -------------------------
(***************************************************************************)
(* Proofs about Investments, for any item names, colours, platforms, price *)
(* lists, search texts and bounds.                                         *)
(***************************************************************************)
EXTENDS Investments, ListLemmas

-----------------------------------------------------------------------------
(* What the helpers on lists of investments return *)

\* The scan for an id finds a position that has it, or returns 0 when no
\* position has (cellForRowAt, deleteItems).
LEMMA PositionProperties ==
    ASSUME NEW invs \in Seq(investmentItem), NEW id
    PROVE  /\ Position(invs, id) \in 0..Len(invs)
           /\ Position(invs, id) = 0 <=> id \notin IDs(invs)
           /\ Position(invs, id) # 0 => invs[Position(invs, id)].id = id
<1> DEFINE at == {i \in DOMAIN invs : invs[i].id = id}
<1>1. DOMAIN invs = 1..Len(invs) /\ Len(invs) \in Nat
    OBVIOUS
<1>2. at = {} <=> id \notin IDs(invs)
    BY DEF IDs
<1>3. CASE at = {}
    BY <1>1, <1>2, <1>3 DEF Position
<1>4. CASE at # {}
    <2>1. at \subseteq Nat /\ \A i \in at : i <= Len(invs)
        BY <1>1
    <2>2. \E i \in at : \A j \in at : j <= i
        BY <1>1, <1>4, <2>1, GreatestNatural
    <2>3. Position(invs, id) = CHOOSE i \in at : \A j \in at : j <= i
        BY <1>4 DEF Position
    <2>4. Position(invs, id) \in at
        BY <2>2, <2>3
    <2> QED
        BY <1>1, <1>2, <1>4, <2>4
<1> QED
    BY <1>3, <1>4

\* A new id is above every id in use (investmentID).
LEMMA InvestmentIDProperties ==
    ASSUME NEW invs \in Seq(investmentItem)
    PROVE  /\ investmentID(invs) \in Nat
           /\ \A n \in IDs(invs) : n \in Nat /\ n < investmentID(invs)
<1>1. DOMAIN invs = 1..Len(invs) /\ Len(invs) \in Nat
    OBVIOUS
<1>2. \A i \in 1..Len(invs) : invs[i].id \in Nat
    <2>1. \A v \in investmentItem : v.id \in Nat
        BY DEF investmentItem
    <2> QED
        BY <2>1
<1>3. IDs(invs) \subseteq Nat
    BY <1>1, <1>2 DEF IDs
<1>4. CASE invs = <<>>
    BY <1>4 DEF investmentID, IDs
<1>5. CASE invs # <<>>
    <2>1. IDs(invs) # {}
        <3>1. invs[1].id \in IDs(invs)
            BY <1>5 DEF IDs
        <3> QED
            BY <3>1
    <2>2. [i \in 1..Len(invs) |-> invs[i].id] \in [1..Len(invs) -> Nat]
        BY <1>2
    <2>3. PICK u \in Nat : \A i \in 1..Len(invs) : invs[i].id <= u
        BY <1>1, <2>2, ListBounded
    <2>4. \A n \in IDs(invs) : n <= u
        BY <1>1, <2>3 DEF IDs
    <2>5. \E m \in IDs(invs) : \A n \in IDs(invs) : n <= m
        BY <1>3, <2>1, <2>4, GreatestNatural
    <2> DEFINE m == CHOOSE m \in IDs(invs) : \A n \in IDs(invs) : n <= m
    <2>6. m \in IDs(invs) /\ \A n \in IDs(invs) : n <= m
        BY <2>5
    <2>7. investmentID(invs) = 1 + m
        BY <1>5 DEF investmentID
    <2> HIDE DEF m
    <2> QED
        BY <1>3, <2>6, <2>7
<1> QED
    BY <1>4, <1>5

\* What the search leaves are investments of the list (textDidChange).
LEMMA FilterProperties ==
    ASSUME NEW text \in SearchTexts, NEW invs \in Seq(investmentItem)
    PROVE  /\ Filter(text, invs) \in Seq(investmentItem)
           /\ \A i \in DOMAIN Filter(text, invs) :
                  \E j \in DOMAIN invs : Filter(text, invs)[i] = invs[j]
<1>1. CASE text = NoText
    BY <1>1 DEF Filter
<1>2. CASE text # NoText
    <2> DEFINE S == {i \in DOMAIN invs : invs[i].item.itemName \in Hits[text]}
               p == Ascending(S)
               f == [j \in DOMAIN p |-> invs[p[j]]]
    <2>1. S \in SUBSET DOMAIN invs
        OBVIOUS
    <2>2. Filter(text, invs) = f
        BY <1>2 DEF Filter
    <2> HIDE DEF S
    <2>3. p \in [1..Cardinality(S) -> S] /\ f \in Seq(investmentItem)
        BY <2>1, SelectedInOrder
    <2>4. \A i \in DOMAIN f : \E j \in DOMAIN invs : f[i] = invs[j]
        <3> HIDE DEF p
        <3> QED
            BY <2>1, <2>3
    <2> QED
        BY <2>2, <2>3, <2>4
<1> QED
    BY <1>1, <1>2

\* An item of the catalogue, or one whose name is not in it.
CurrentIn(item, cat) ==
    \/ item \in Range(cat)
    \/ \A a \in DOMAIN cat : cat[a].itemName # item.itemName

\* The same investment, with such an item of the same name.
Repriced(old, new, cat) ==
    /\ new = [old EXCEPT !.item = new.item]
    /\ new.item.itemName = old.item.itemName
    /\ CurrentIn(new.item, cat)

\* Repricing keeps every investment in its place, with all but its item
\* (initializeData).
LEMMA RefreshProperties ==
    ASSUME NEW invs \in Seq(investmentItem), NEW cat \in Seq(decodingitem)
    PROVE  /\ Refresh(invs, cat) \in Seq(investmentItem)
           /\ DOMAIN Refresh(invs, cat) = DOMAIN invs
           /\ \A i \in DOMAIN invs :
                  /\ Refresh(invs, cat)[i].id = invs[i].id
                  /\ Repriced(invs[i], Refresh(invs, cat)[i], cat)
<1> DEFINE named(i) == {a \in DOMAIN cat : cat[a].itemName = invs[i].item.itemName}
           last(i) == CHOOSE a \in named(i) : \A b \in named(i) : b <= a
           new(i) == IF named(i) = {} THEN invs[i] ELSE [invs[i] EXCEPT !.item = cat[last(i)]]
           Right(i, v) ==
               v \in investmentItem /\ v.id = invs[i].id /\ Repriced(invs[i], v, cat)
<1>1. DOMAIN invs = 1..Len(invs) /\ Len(invs) \in Nat
    OBVIOUS
<1>2. DOMAIN cat = 1..Len(cat) /\ Len(cat) \in Nat
    OBVIOUS
<1>3. ASSUME NEW i \in DOMAIN invs PROVE Right(i, new(i))
    <2>1. invs[i] \in investmentItem
        BY <1>1
    <2>2. CASE named(i) = {}
        <3>1. new(i) = invs[i]
            BY <2>2
        <3>2. \A a \in DOMAIN cat : cat[a].itemName # invs[i].item.itemName
            BY <2>2
        <3>3. invs[i] = [invs[i] EXCEPT !.item = invs[i].item]
            BY <2>1 DEF investmentItem
        <3> HIDE DEF new, named, last
        <3> QED
            BY <2>1, <3>1, <3>2, <3>3 DEF Repriced, CurrentIn
    <2>3. CASE named(i) # {}
        <3>1. named(i) \subseteq Nat /\ \A a \in named(i) : a <= Len(cat)
            BY <1>2
        <3>2. \E a \in named(i) : \A b \in named(i) : b <= a
            <4> HIDE DEF named
            <4> QED
                BY <1>2, <2>3, <3>1, GreatestNatural
        <3>3. last(i) \in named(i)
            BY <3>2
        <3>4. cat[last(i)] \in decodingitem /\ cat[last(i)] \in Range(cat)
            <4>1. last(i) \in DOMAIN cat
                BY <3>3
            <4> HIDE DEF last
            <4> QED
                BY <1>2, <4>1 DEF Range
        <3>5. cat[last(i)].itemName = invs[i].item.itemName
            BY <3>3
        <3>6. new(i) = [invs[i] EXCEPT !.item = cat[last(i)]]
            BY <2>3
        <3> HIDE DEF new, last, named
        <3>7. /\ new(i) \in investmentItem /\ new(i).item = cat[last(i)]
              /\ new(i).id = invs[i].id
            BY <2>1, <3>4, <3>6 DEF investmentItem
        <3>8. new(i) = [invs[i] EXCEPT !.item = new(i).item]
            BY <3>6, <3>7
        <3> QED
            BY <3>4, <3>5, <3>7, <3>8 DEF Repriced, CurrentIn
    <2> QED
        BY <2>2, <2>3
<1>4. Refresh(invs, cat) = [i \in 1..Len(invs) |-> new(i)]
    BY <1>1 DEF Refresh
<1> HIDE DEF new
<1>5. \A i \in DOMAIN invs : Right(i, Refresh(invs, cat)[i])
    BY <1>1, <1>3, <1>4
<1>6. Refresh(invs, cat) \in [1..Len(invs) -> investmentItem]
    BY <1>1, <1>4, <1>5
<1>7. Refresh(invs, cat) \in Seq(investmentItem) /\ DOMAIN Refresh(invs, cat) = DOMAIN invs
    BY <1>1, <1>6
<1> QED
    BY <1>5, <1>7

-----------------------------------------------------------------------------
(* Laying out the table *)

\* Every row is a row of the list.
Within(f, invs) == \A i \in DOMAIN f : \E j \in DOMAIN invs : f[i] = invs[j]

\* A cell of an investment is a cell.
LEMMA CellType ==
    ASSUME NEW f, NEW r, f[r] \in investmentItem, NEW invs \in Seq(investmentItem)
    PROVE  cellForRowAt(f, r, invs) \in Cell
<1>1. Position(invs, f[r].id) \in Nat
    BY PositionProperties
<1>2. f[r].id \in Nat /\ f[r].quantity \in 1..MaxAmount
    BY DEF investmentItem
<1> QED
    BY <1>1, <1>2 DEF cellForRowAt, Cell

\* Laying out one row may trap, but never because the position of its
\* investment is not found (investmentPosition!).
LEMMA RowTrapType ==
    ASSUME NEW f, NEW r, NEW invs \in Seq(investmentItem), Within(f, invs)
    PROVE  /\ RowTrap(f, r, invs) \in Traps \ {"position"}
           /\ RowTrap(f, r, invs) = "none" => r \in DOMAIN f
<1>1. CASE r \notin DOMAIN f
    BY <1>1 DEF RowTrap, Traps
<1>2. CASE r \in DOMAIN f
    <2>1. f[r].id \in IDs(invs)
        BY <1>2 DEF Within, IDs
    <2>2. Position(invs, f[r].id) # 0
        BY <2>1, PositionProperties
    <2> QED
        BY <1>2, <2>2 DEF RowTrap, Traps
<1> QED
    BY <1>1, <1>2

\* What a reload of the table leaves.
LEMMA ReloadType ==
    ASSUME NEW f \in Seq(investmentItem), NEW invs \in Seq(investmentItem),
           NEW shown \in BOOLEAN, Within(f, invs), reloadData(f, invs, shown)
    PROVE  rows' \in Seq(Cell) /\ trap' \in Traps \ {"position"}
<1> DEFINE bad == {r \in DOMAIN f : RowTrap(f, r, invs) # "none"}
           first == CHOOSE r \in bad : \A q \in bad : r <= q
<1>1. CASE rows' = <<>> /\ trap' = "none"
    BY <1>1 DEF Traps
<1>2. CASE /\ rows' = [r \in DOMAIN f |-> cellForRowAt(f, r, invs)]
           /\ trap' = "none"
    <2>1. DOMAIN f = 1..Len(f) /\ Len(f) \in Nat /\ \A r \in 1..Len(f) : f[r] \in investmentItem
        OBVIOUS
    <2>2. \A r \in 1..Len(f) : cellForRowAt(f, r, invs) \in Cell
        BY <2>1, CellType
    <2>3. rows' \in [1..Len(f) -> Cell]
        BY <1>2, <2>1, <2>2
    <2> QED
        BY <1>2, <2>1, <2>3 DEF Traps
<1>3. CASE rows' = <<>> /\ trap' = RowTrap(f, first, invs)
    <2>1. trap' \in Traps \ {"position"}
        <3> HIDE DEF first
        <3> QED
            BY <1>3, RowTrapType
    <2> QED
        BY <1>3, <2>1
<1> QED
    BY <1>1, <1>2, <1>3 DEF reloadData

\* What removing a member leaves of a list, in terms of RemoveAt.
LEMMA RemoveAtProperties ==
    ASSUME NEW S, NEW s \in Seq(S), NEW k \in DOMAIN s
    PROVE  /\ RemoveAt(s, k) \in Seq(S)
           /\ Len(RemoveAt(s, k)) = Len(s) - 1
           /\ \A i \in 1..(Len(s) - 1) : RemoveAt(s, k)[i] = IF i < k THEN s[i] ELSE s[i + 1]
<1>1. k \in 1..Len(s)
    OBVIOUS
<1> DEFINE t == SubSeq(s, 1, k - 1) \o SubSeq(s, k + 1, Len(s))
<1>2. /\ t \in Seq(S)
      /\ Len(t) = Len(s) - 1
      /\ \A i \in 1..(Len(s) - 1) : t[i] = IF i < k THEN s[i] ELSE s[i + 1]
    BY <1>1, RemoveProperties, Zenon
<1>3. RemoveAt(s, k) = t
    BY DEF RemoveAt
<1> HIDE DEF t
<1> QED
    BY <1>2, <1>3

-----------------------------------------------------------------------------
(* The inductive invariant *)

\* The sheet on screen has its fields.
SheetFilled == SheetOpen => form \in Form

\* The rows the data source answers with are investments of the portfolio.
FilteredWithin == Within(investmentFilteredData, investments)

\* TypeOK is not inductive: a step of the sheet is only well typed when the
\* sheet is open, a reload only when every row's investment is found.  The ids
\* stay distinct because the sheet's own id is fresh, or that at cellTag.
IInv ==
    /\ TypeOK
    /\ SheetFilled
    /\ FilteredWithin
    /\ UniqueIDs
    /\ Durable
    /\ EditTarget
    /\ trap # "position"

\* The launch establishes it.
LEMMA InitIInv == Init => IInv
<1> SUFFICES ASSUME Init PROVE IInv
    OBVIOUS
<1>1. TypeOK
    <2>1. /\ saved \in Seq(investmentItem) /\ investments \in Seq(investmentItem)
          /\ investmentFilteredData \in Seq(investmentItem)
          /\ items \in Seq(decodingitem) /\ rows \in Seq(Cell)
        BY DEF Init
    <2>2. /\ cellTag \in Nat /\ delayed \in Nat /\ tableShown \in BOOLEAN
          /\ screen \in Screens /\ trap \in Traps
          /\ load \in {"waiting", "posting", "done", "failed"}
        BY DEF Init, Screens, Traps
    <2>3. /\ searchText \in SearchTexts
          /\ form \in Form \cup {NoForm}
          /\ total \in [spent : Int64, lower : Int64, upper : Int64] \cup {NoTotal}
          /\ aim \in [id : Nat, settled : BOOLEAN] \cup {NoAim}
        BY SearchAssumption DEF Init
    <2> QED
        BY <2>1, <2>2, <2>3 DEF TypeOK
<1>2. SheetFilled /\ FilteredWithin /\ UniqueIDs /\ Durable /\ EditTarget /\ trap # "position"
    BY DEF Init, SheetFilled, SheetOpen, FilteredWithin, Within, UniqueIDs, IDs, Durable, EditTarget
<1> QED
    BY <1>1, <1>2 DEF IInv

\* The steps that change neither the portfolio nor what is shown of it.
LEMMA QuietStep ==
    ASSUME IInv, UNCHANGED <<disk, model>>, TypeOK', SheetFilled',
           SheetOpen' => SheetOpen /\ form'.editing = form.editing
                                   /\ form'.id = form.id /\ UNCHANGED cellTag,
           trap' # "position"
    PROVE  IInv'
<1>1. UNCHANGED <<saved, investments, investmentFilteredData>>
    BY DEF disk, model
<1>2. FilteredWithin' /\ Durable'
    BY <1>1 DEF IInv, FilteredWithin, Within, Durable
<1>3. UniqueIDs'
    BY <1>1 DEF IInv, UniqueIDs, IDs
<1>4. EditTarget'
    BY <1>1 DEF IInv, EditTarget
<1> QED
    BY <1>2, <1>3, <1>4 DEF IInv

\* Loading, laying out and the dialogs of the list.
LEMMA QuietSteps ==
    ASSUME IInv,
           \/ LoadFails \/ LoadNotString
           \/ TraitChange \/ DelayedReload
           \/ \E r \in DOMAIN rows : Scroll(r) \/ TapDelete(r) \/ TapChart(r)
           \/ CancelDelete \/ ConfirmDeleteTraps
           \/ CloseChart \/ ShowTotal \/ CloseTotal
           \/ AddButtonRefused \/ DismissRefusal \/ CancelForm
    PROVE  IInv'
<1> USE DEF disk, model, table, dialog, queue
<1>0. TypeOK /\ SheetFilled /\ FilteredWithin /\ trap # "position"
    BY DEF IInv
<1>1. CASE LoadFails
    <2>1. TypeOK' /\ SheetFilled' /\ (SheetOpen' => SheetOpen)
        BY <1>0, <1>1 DEF LoadFails, TypeOK, SheetFilled, SheetOpen
    <2> QED
        BY <1>0, <1>1, <2>1, QuietStep DEF LoadFails
<1>2. CASE LoadNotString
    <2>1. TypeOK' /\ SheetFilled' /\ (SheetOpen' => SheetOpen)
        BY <1>0, <1>2 DEF LoadNotString, TypeOK, SheetFilled, SheetOpen, Traps
    <2> QED
        BY <1>0, <1>2, <2>1, QuietStep DEF LoadNotString
<1>3. CASE TraitChange
    <2>1. rows' \in Seq(Cell) /\ trap' \in Traps \ {"position"}
        BY <1>0, <1>3, ReloadType DEF TraitChange, TypeOK, FilteredWithin
    <2>2. TypeOK' /\ SheetFilled' /\ (SheetOpen' => SheetOpen)
        BY <1>0, <1>3, <2>1 DEF TraitChange, TypeOK, SheetFilled, SheetOpen
    <2> QED
        BY <1>0, <1>3, <2>1, <2>2, QuietStep DEF TraitChange
<1>4. CASE DelayedReload
    <2>1. rows' \in Seq(Cell) /\ trap' \in Traps \ {"position"}
        BY <1>0, <1>4, ReloadType DEF DelayedReload, TypeOK, FilteredWithin
    <2>2. TypeOK' /\ SheetFilled' /\ (SheetOpen' => SheetOpen)
        BY <1>0, <1>4, <2>1 DEF DelayedReload, TypeOK, SheetFilled, SheetOpen
    <2> QED
        BY <1>0, <1>4, <2>1, <2>2, QuietStep DEF DelayedReload
<1>5. ASSUME NEW r \in DOMAIN rows, Scroll(r) PROVE IInv'
    <2>1. trap' \in Traps \ {"position"} /\ (trap' = "none" => r \in DOMAIN investmentFilteredData)
        BY <1>0, <1>5, RowTrapType DEF Scroll, TypeOK, FilteredWithin
    <2>2. rows' \in Seq(Cell)
        <3>1. CASE trap' # "none"
            BY <1>5, <3>1 DEF Scroll
        <3>2. CASE trap' = "none"
            <4>1. investmentFilteredData[r] \in investmentItem
                BY <1>0, <2>1, <3>2 DEF TypeOK
            <4>2. cellForRowAt(investmentFilteredData, r, investments) \in Cell
                BY <1>0, <4>1, CellType DEF TypeOK
            <4> QED
                BY <1>0, <1>5, <3>2, <4>2 DEF Scroll, TypeOK
        <3> QED
            BY <3>1, <3>2
    <2>3. TypeOK' /\ SheetFilled' /\ (SheetOpen' => SheetOpen)
        BY <1>0, <1>5, <2>1, <2>2 DEF Scroll, TypeOK, SheetFilled, SheetOpen
    <2> QED
        BY <1>0, <1>5, <2>1, <2>3, QuietStep DEF Scroll
<1>6. ASSUME NEW r \in DOMAIN rows, TapDelete(r) PROVE IInv'
    <2>1. rows[r] \in Cell
        BY <1>0 DEF TypeOK
    <2>2. cellTag' \in Nat /\ aim' \in [id : Nat, settled : BOOLEAN] \cup {NoAim}
        BY <1>6, <2>1 DEF TapDelete, Press, AimAt, Cell
    <2>3. TypeOK' /\ SheetFilled' /\ ~SheetOpen'
        BY <1>0, <1>6, <2>2 DEF TapDelete, TypeOK, SheetFilled, SheetOpen, Screens
    <2> QED
        BY <1>0, <1>6, <2>3, QuietStep DEF TapDelete
<1>7. ASSUME NEW r \in DOMAIN rows, TapChart(r) PROVE IInv'
    <2>1. rows[r] \in Cell
        BY <1>0 DEF TypeOK
    <2>2. /\ cellTag' \in Nat
          /\ [id |-> rows[r].id, settled |-> delayed = 0] \in [id : Nat, settled : BOOLEAN]
        BY <1>7, <2>1 DEF TapChart, Press, Cell
    <2>3. /\ rows' \in Seq(Cell) /\ trap' \in Traps \ {"position"}
          /\ screen' \in Screens /\ ~SheetOpen'
          /\ aim' \in [id : Nat, settled : BOOLEAN] \cup {NoAim}
        <3>1. CASE screen' = "chart" /\ AimAt(r) /\ UNCHANGED <<rows, trap>>
            BY <1>0, <2>2, <3>1 DEF AimAt, TypeOK, SheetOpen, Screens
        <3>2. CASE /\ trap' \in {"index", "url"} /\ rows' = <<>> /\ UNCHANGED <<screen, aim>>
                   /\ screen = "list"
            BY <1>0, <3>2 DEF TypeOK, SheetOpen, Traps
        <3> QED
            BY <1>7, <3>1, <3>2 DEF TapChart, Press
    <2>4. TypeOK' /\ SheetFilled'
        BY <1>0, <1>7, <2>2, <2>3 DEF TapChart, TypeOK, SheetFilled
    <2> QED
        BY <1>0, <1>7, <2>3, <2>4, QuietStep DEF TapChart
<1>8. CASE CancelDelete
    <2>1. TypeOK' /\ SheetFilled' /\ ~SheetOpen'
        BY <1>0, <1>8 DEF CancelDelete, TypeOK, SheetFilled, SheetOpen, Screens
    <2> QED
        BY <1>0, <1>8, <2>1, QuietStep DEF CancelDelete
<1>9. CASE ConfirmDeleteTraps
    <2>1. CorrectedTag \in Nat
        BY <1>0 DEF TypeOK, CorrectedTag
    <2>2. TypeOK' /\ SheetFilled' /\ ~SheetOpen' /\ trap' # "position"
        BY <1>0, <1>9, <2>1 DEF ConfirmDeleteTraps, TypeOK, SheetFilled, SheetOpen, Screens, Traps
    <2> QED
        BY <1>0, <1>9, <2>2, QuietStep DEF ConfirmDeleteTraps
<1>10. CASE CloseChart
    <2>1. TypeOK' /\ SheetFilled' /\ ~SheetOpen'
        BY <1>0, <1>10 DEF CloseChart, TypeOK, SheetFilled, SheetOpen, Screens
    <2> QED
        BY <1>0, <1>10, <2>1, QuietStep DEF CloseChart
<1>11. CASE ShowTotal
    <2>1. /\ rows' \in Seq(Cell) /\ trap' \in Traps \ {"position"}
          /\ screen' \in Screens /\ ~SheetOpen'
        <3>1. CASE screen' = "total" /\ UNCHANGED <<rows, trap>>
            BY <1>0, <3>1 DEF TypeOK, SheetOpen, Screens
        <3>2. ASSUME NEW i, trap' = TotalRowTrap(investmentFilteredData, i), rows' = <<>>,
                     UNCHANGED screen, screen = "list"
              PROVE  /\ rows' \in Seq(Cell) /\ trap' \in Traps \ {"position"}
                     /\ screen' \in Screens /\ ~SheetOpen'
            BY <1>0, <3>2 DEF TotalRowTrap, TypeOK, SheetOpen, Traps
        <3> QED
            BY <1>11, <3>1, <3>2 DEF ShowTotal
    <2>2. total' \in [spent : Int64, lower : Int64, upper : Int64] \cup {NoTotal}
        <3>1. CASE UNCHANGED total
            BY <1>0, <3>1 DEF TypeOK
        <3>2. CASE Summable(investmentFilteredData) /\ total' = Totals(investmentFilteredData)
            <4>1. Len(investmentFilteredData) \in 0..Len(investmentFilteredData)
                BY <1>0 DEF TypeOK
            <4> QED
                BY <3>2, <4>1 DEF Summable, Totals, Fits
        <3> QED
            BY <1>11, <3>1, <3>2 DEF ShowTotal
    <2>3. TypeOK' /\ SheetFilled'
        BY <1>0, <1>11, <2>1, <2>2 DEF ShowTotal, TypeOK, SheetFilled
    <2> QED
        BY <1>0, <1>11, <2>1, <2>3, QuietStep DEF ShowTotal
<1>12. CASE CloseTotal
    <2>1. TypeOK' /\ SheetFilled' /\ ~SheetOpen'
        BY <1>0, <1>12 DEF CloseTotal, TypeOK, SheetFilled, SheetOpen, Screens
    <2> QED
        BY <1>0, <1>12, <2>1, QuietStep DEF CloseTotal
<1>13. CASE AddButtonRefused
    <2>1. TypeOK' /\ SheetFilled' /\ (SheetOpen' => SheetOpen)
        BY <1>0, <1>13 DEF AddButtonRefused, TypeOK, SheetFilled, SheetOpen, Screens
    <2> QED
        BY <1>0, <1>13, <2>1, QuietStep DEF AddButtonRefused
<1>14. CASE DismissRefusal
    <2>1. TypeOK' /\ SheetFilled' /\ (SheetOpen' => SheetOpen)
        BY <1>0, <1>14 DEF DismissRefusal, TypeOK, SheetFilled, SheetOpen, Screens
    <2> QED
        BY <1>0, <1>14, <2>1, QuietStep DEF DismissRefusal
<1>15. CASE CancelForm
    <2>1. TypeOK' /\ SheetFilled' /\ ~SheetOpen'
        BY <1>0, <1>15 DEF CancelForm, TypeOK, SheetFilled, SheetOpen, Screens
    <2> QED
        BY <1>0, <1>15, <2>1, QuietStep DEF CancelForm
<1> QED
    BY <1>1, <1>2, <1>3, <1>4, <1>5, <1>6, <1>7, <1>8, <1>9, <1>10, <1>11, <1>12, <1>13,
       <1>14, <1>15

\* The steps of the open sheet keep its id and whether it edits.
LEMMA SheetSteps ==
    ASSUME IInv,
           \/ \E platform \in Platforms : PickPlatform(platform)
           \/ \E i \in DOMAIN items : PickItem(items[i])
           \/ \E colour \in Colours : PickColour(colour)
           \/ \E n \in 1..MaxAmount : StepAmount(n)
           \/ \E text \in TypedPrices : TypePrice(text)
    PROVE  IInv'
<1> USE DEF disk, model, table, dialog, queue
<1>0. TypeOK /\ SheetFilled /\ trap # "position"
    BY DEF IInv
<1>1. ASSUME NEW f, EditForm(f),
             form \in Form => f \in Form /\ f.editing = form.editing /\ f.id = form.id
      PROVE  IInv'
    <2>1. form \in Form /\ SheetOpen
        BY <1>0, <1>1 DEF EditForm, SheetFilled, SheetOpen
    <2>2. f \in Form /\ f.editing = form.editing /\ f.id = form.id
        BY <1>1, <2>1
    <2>3. TypeOK' /\ SheetFilled'
        BY <1>0, <1>1, <2>2 DEF EditForm, TypeOK, SheetFilled
    <2> QED
        BY <1>0, <1>1, <2>1, <2>2, <2>3, QuietStep DEF EditForm
<1>2. ASSUME NEW platform \in Platforms, PickPlatform(platform) PROVE IInv'
    <2>1. form \in Form => /\ [form EXCEPT !.platform = platform] \in Form
                           /\ [form EXCEPT !.platform = platform].editing = form.editing
                           /\ [form EXCEPT !.platform = platform].id = form.id
        BY DEF Form
    <2> QED
        BY <1>1, <1>2, <2>1 DEF PickPlatform
<1>3. ASSUME NEW i \in DOMAIN items, PickItem(items[i]) PROVE IInv'
    <2> DEFINE f == [form EXCEPT !.item = items[i], !.colour = DefaultColour, !.blank = FALSE]
    <2>1. items[i] \in decodingitem
        BY <1>0 DEF TypeOK
    <2>2. form \in Form => f \in Form /\ f.editing = form.editing /\ f.id = form.id
        BY <2>1, PricesAssumption DEF Form
    <2> QED
        BY <1>1, <1>3, <2>2 DEF PickItem
<1>4. ASSUME NEW colour \in Colours, PickColour(colour) PROVE IInv'
    <2> DEFINE f == [form EXCEPT !.colour = colour, !.blank = FALSE]
    <2>1. form \in Form => f \in Form /\ f.editing = form.editing /\ f.id = form.id
        BY DEF Form
    <2> QED
        BY <1>1, <1>4, <2>1 DEF PickColour
<1>5. ASSUME NEW n \in 1..MaxAmount, StepAmount(n) PROVE IInv'
    <2> DEFINE f == [form EXCEPT !.amount = n]
    <2>1. form \in Form => f \in Form /\ f.editing = form.editing /\ f.id = form.id
        BY DEF Form
    <2> QED
        BY <1>1, <1>5, <2>1 DEF StepAmount
<1>6. ASSUME NEW text \in TypedPrices, TypePrice(text) PROVE IInv'
    <2> DEFINE f == [form EXCEPT !.boughtFor = integerValue(text), !.blank = text = Blank]
    <2>1. integerValue(text) \in 0..MaxInt
        BY NumbersAssumption DEF integerValue
    <2>2. (text = Blank) \in BOOLEAN
        OBVIOUS
    <2>3. form \in Form => f \in Form /\ f.editing = form.editing /\ f.id = form.id
        BY <2>1, <2>2 DEF Form
    <2> QED
        BY <1>1, <1>6, <2>3 DEF TypePrice
<1> QED
    BY <1>2, <1>3, <1>4, <1>5, <1>6

\* Opening the sheet: a fresh id to add under, or the id at cellTag to edit.
LEMMA OpenSheetSteps ==
    ASSUME IInv,
           \/ \E platform \in Platforms : AddNew(platform)
           \/ \E r \in DOMAIN rows : TapEdit(r)
    PROVE  IInv'
<1> USE DEF disk, model, table, dialog, queue
<1>0. TypeOK /\ FilteredWithin /\ UniqueIDs /\ Durable /\ trap # "position"
    BY DEF IInv
<1>1. ASSUME NEW platform \in Platforms, AddNew(platform) PROVE IInv'
    <2>1. /\ investmentID(investments) \in Nat
          /\ investmentID(investments) \notin IDs(investments)
        BY <1>0, InvestmentIDProperties DEF TypeOK
    <2>2. form' \in Form /\ ~form'.editing /\ form'.id = investmentID(investments)
        BY <1>1, <2>1, PricesAssumption, NumbersAssumption DEF AddNew, Form
    <2>3. TypeOK' /\ SheetFilled'
        BY <1>0, <1>1, <2>2 DEF AddNew, TypeOK, SheetFilled, Screens
    <2>4. FilteredWithin' /\ Durable' /\ trap' # "position"
        BY <1>0, <1>1 DEF AddNew, FilteredWithin, Within, Durable
    <2>5. UniqueIDs'
        BY <1>0, <1>1, <2>1, <2>2 DEF AddNew, UniqueIDs, IDs
    <2>6. EditTarget'
        BY <2>2 DEF EditTarget
    <2> QED
        BY <2>3, <2>4, <2>5, <2>6 DEF IInv
<1>2. ASSUME NEW r \in DOMAIN rows, TapEdit(r) PROVE IInv'
    <2> DEFINE t == rows[r].tag
    <2>1. rows[r] \in Cell
        BY <1>0 DEF TypeOK
    <2>2. /\ t \in Nat /\ cellTag' = t /\ screen = "list"
          /\ [id |-> rows[r].id, settled |-> delayed = 0] \in [id : Nat, settled : BOOLEAN]
        BY <1>2, <2>1 DEF TapEdit, Press, Cell
    <2>3. CASE t \in DOMAIN investments
        <3> DEFINE v == investments[t]
        <3>1. v \in investmentItem
            BY <1>0, <2>3 DEF TypeOK
        <3>2. form' = editInvestment(v)
            BY <1>2, <2>3 DEF TapEdit
        <3>3. form' \in Form /\ form'.editing /\ form'.id = v.id
            <4> HIDE DEF v
            <4> QED
                BY <3>1, <3>2 DEF editInvestment, Form, investmentItem
        <3>4. /\ screen' = "form" /\ AimAt(r)
              /\ UNCHANGED <<disk, model, table, total, queue, trap>>
            BY <1>2, <2>3 DEF TapEdit
        <3>5. TypeOK' /\ SheetFilled'
            BY <1>0, <2>2, <3>3, <3>4 DEF AimAt, TypeOK, SheetFilled, Screens
        <3>6. FilteredWithin' /\ Durable' /\ trap' # "position"
            BY <1>0, <3>4 DEF FilteredWithin, Within, Durable
        <3>7. UniqueIDs'
            BY <1>0, <3>3, <3>4 DEF UniqueIDs, IDs
        <3>8. EditTarget'
            BY <2>2, <2>3, <3>3, <3>4 DEF EditTarget
        <3> QED
            BY <3>5, <3>6, <3>7, <3>8 DEF IInv
    <2>4. CASE t \notin DOMAIN investments
        <3>1. /\ trap' = "index" /\ rows' = <<>> /\ UNCHANGED <<form, screen, aim>>
              /\ UNCHANGED <<disk, model, searchText, tableShown, total, queue>>
            BY <1>2, <2>4 DEF TapEdit
        <3>2. TypeOK' /\ SheetFilled' /\ ~SheetOpen'
            BY <1>0, <2>2, <3>1 DEF TypeOK, SheetFilled, SheetOpen, Traps
        <3> QED
            BY <3>1, <3>2, QuietStep
    <2> QED
        BY <2>3, <2>4
<1> QED
    BY <1>1, <1>2

\* Two lists with the same ids in the same places.
LEMMA SameIDs ==
    ASSUME NEW a, NEW b, DOMAIN a = DOMAIN b, \A i \in DOMAIN a : a[i].id = b[i].id
    PROVE  IDs(a) = IDs(b)
    BY DEF IDs

\* Every row of the whole list is a row of it.
LEMMA WithinItself ==
    ASSUME NEW invs
    PROVE  Within(invs, invs)
    BY DEF Within

\* A step that leaves every investment its place and its id, and the sheet
\* alone, keeps the ids distinct and the sheet's target.
LEMMA IDsKept ==
    ASSUME IInv, DOMAIN investments' = DOMAIN investments,
           \A i \in DOMAIN investments : investments'[i].id = investments[i].id,
           \/ ~SheetOpen'
           \/ SheetOpen /\ UNCHANGED <<form, cellTag>>
    PROVE  UniqueIDs' /\ EditTarget'
<1>1. UniqueIDs /\ EditTarget
    BY DEF IInv
<1>2. IDs(investments') = IDs(investments)
    BY SameIDs
<1>3. \A i, j \in DOMAIN investments' : investments'[i].id = investments'[j].id => i = j
    BY <1>1 DEF UniqueIDs
<1>4. CASE ~SheetOpen'
    BY <1>3, <1>4 DEF UniqueIDs, EditTarget
<1>5. CASE SheetOpen /\ UNCHANGED <<form, cellTag>>
    <2>1. UniqueIDs'
        BY <1>1, <1>2, <1>3, <1>5 DEF UniqueIDs
    <2>2. EditTarget'
        BY <1>1, <1>5 DEF EditTarget
    <2> QED
        BY <2>1, <2>2
<1> QED
    BY <1>4, <1>5

\* The load, a launch, the search and the stepper.
LEMMA ListSteps ==
    ASSUME IInv,
           \/ \E cat \in Catalogues : ApplyPrices(cat)
           \/ PostReloadItems
           \/ Relaunch
           \/ \E text \in SearchTexts : Search(text)
           \/ \E r \in DOMAIN rows, n \in 1..MaxAmount : TapStepper(r, n)
    PROVE  IInv'
<1> USE DEF disk, model, table, dialog, queue
<1>0. TypeOK /\ SheetFilled /\ FilteredWithin /\ UniqueIDs /\ Durable /\ trap # "position"
    BY DEF IInv
<1>1. ASSUME NEW cat \in Catalogues, ApplyPrices(cat) PROVE IInv'
    <2>1. cat \in Seq(decodingitem)
        BY CataloguesAssumption
    <2>2. /\ investments' \in Seq(investmentItem)
          /\ DOMAIN investments' = DOMAIN investments
          /\ \A i \in DOMAIN investments : investments'[i].id = investments[i].id
        BY <1>0, <1>1, <2>1, RefreshProperties DEF ApplyPrices, saveInvestmentsData, TypeOK
    <2>3. saved' = investments' /\ investmentFilteredData' = investments'
        BY <1>1 DEF ApplyPrices, saveInvestmentsData
    <2>4. TypeOK' /\ SheetFilled'
        BY <1>0, <1>1, <2>1, <2>2, <2>3 DEF ApplyPrices, TypeOK, SheetFilled, SheetOpen
    <2>5. UniqueIDs' /\ EditTarget'
        BY <1>0, <1>1, <2>2, IDsKept DEF ApplyPrices, SheetOpen
    <2>6. FilteredWithin' /\ Durable' /\ trap' # "position"
        BY <1>0, <1>1, <2>3, WithinItself DEF ApplyPrices, FilteredWithin, Durable
    <2> QED
        BY <2>4, <2>5, <2>6 DEF IInv
<1>2. CASE PostReloadItems
    <2>1. /\ UNCHANGED <<disk, investments, searchText, dialog, items, delayed>>
          /\ investmentFilteredData' = investments /\ tableShown' = TRUE /\ load' = "done"
          /\ reloadData(investments, investments, TRUE)
        BY <1>2 DEF PostReloadItems, reloadTableView
    <2>2. rows' \in Seq(Cell) /\ trap' \in Traps \ {"position"}
        BY <1>0, <2>1, ReloadType, WithinItself DEF TypeOK
    <2>3. TypeOK' /\ SheetFilled'
        BY <1>0, <2>1, <2>2 DEF TypeOK, SheetFilled, SheetOpen
    <2>4. UniqueIDs' /\ EditTarget'
        BY <1>0, <2>1, IDsKept DEF SheetOpen
    <2>5. FilteredWithin' /\ Durable'
        BY <1>0, <2>1, WithinItself DEF FilteredWithin, Durable
    <2> QED
        BY <2>2, <2>3, <2>4, <2>5 DEF IInv
<1>3. CASE Relaunch
    <2>1. /\ saved' = saved /\ investments' = saved /\ investmentFilteredData' = <<>>
          /\ items' = <<>> /\ rows' = <<>> /\ cellTag' = 1 /\ tableShown' = FALSE
          /\ searchText' = NoText /\ screen' = "list" /\ form' = NoForm
          /\ total' = NoTotal /\ aim' = NoAim /\ load' = "waiting" /\ delayed' = 0
          /\ trap' = "none"
        BY <1>3 DEF Relaunch
    <2>2. saved = investments
        BY <1>0 DEF Durable
    <2>3. /\ saved' \in Seq(investmentItem) /\ investments' \in Seq(investmentItem)
          /\ investmentFilteredData' \in Seq(investmentItem)
          /\ items' \in Seq(decodingitem) /\ rows' \in Seq(Cell)
        BY <1>0, <2>1 DEF TypeOK
    <2>4. TypeOK'
        BY <2>1, <2>3, SearchAssumption DEF TypeOK, Screens, Traps
    <2>5. SheetFilled' /\ ~SheetOpen'
        BY <2>1 DEF SheetFilled, SheetOpen
    <2>6. UniqueIDs' /\ EditTarget'
        BY <2>1, <2>2, <2>5, IDsKept
    <2>7. FilteredWithin' /\ Durable' /\ trap' # "position"
        BY <2>1, <2>2 DEF FilteredWithin, Within, Durable
    <2> QED
        BY <2>4, <2>5, <2>6, <2>7 DEF IInv
<1>4. ASSUME NEW text \in SearchTexts, Search(text) PROVE IInv'
    <2>1. /\ UNCHANGED <<disk, investments, tableShown, dialog, queue>>
          /\ searchText' = text
          /\ investmentFilteredData' = Filter(text, investments)
          /\ reloadData(investmentFilteredData', investments, tableShown)
        BY <1>4 DEF Search
    <2>2. /\ investmentFilteredData' \in Seq(investmentItem)
          /\ Within(investmentFilteredData', investments)
        BY <1>0, <2>1, FilterProperties DEF TypeOK, Within
    <2>3. rows' \in Seq(Cell) /\ trap' \in Traps \ {"position"}
        BY <1>0, <2>1, <2>2, ReloadType DEF TypeOK
    <2>4. TypeOK' /\ SheetFilled'
        BY <1>0, <2>1, <2>2, <2>3 DEF TypeOK, SheetFilled, SheetOpen
    <2>5. UniqueIDs' /\ EditTarget'
        BY <1>0, <2>1, IDsKept DEF SheetOpen
    <2>6. FilteredWithin' /\ Durable'
        BY <1>0, <2>1, <2>2 DEF FilteredWithin, Durable
    <2> QED
        BY <2>3, <2>4, <2>5, <2>6 DEF IInv
<1>5. ASSUME NEW r \in DOMAIN rows, NEW n \in 1..MaxAmount, TapStepper(r, n) PROVE IInv'
    <2> DEFINE t == rows[r].tag
               invs == [investments EXCEPT ![t].quantity = n]
    <2>1. rows[r] \in Cell
        BY <1>0 DEF TypeOK
    <2>2. /\ t \in Nat /\ cellTag' = t /\ screen = "list"
          /\ UNCHANGED <<searchText, tableShown, screen, form, total, aim, queue>>
        BY <1>5, <2>1 DEF TapStepper, Press, Cell
    <2>3. CASE t \in DOMAIN investments
        <3>1. /\ investments' = invs /\ saved' = invs
              /\ investmentFilteredData' = Filter(searchText, invs)
              /\ reloadData(investmentFilteredData', investments', tableShown)
            BY <1>5, <2>3 DEF TapStepper, saveInvestmentsData
        <3>2. investments[t] \in investmentItem
            BY <1>0, <2>3 DEF TypeOK
        <3>3. /\ [investments[t] EXCEPT !.quantity = n] \in investmentItem
              /\ [investments[t] EXCEPT !.quantity = n].id = investments[t].id
            BY <3>2 DEF investmentItem
        <3>4. invs = [investments EXCEPT ![t] = [investments[t] EXCEPT !.quantity = n]]
            OBVIOUS
        <3>5. invs \in Seq(investmentItem)
            <4> HIDE DEF invs
            <4> QED
                BY <1>0, <2>3, <3>3, <3>4 DEF TypeOK
        <3>6. DOMAIN invs = DOMAIN investments /\ \A i \in DOMAIN investments : invs[i].id = investments[i].id
            BY <3>3, <3>4
        <3> HIDE DEF invs
        <3>7. /\ investmentFilteredData' \in Seq(investmentItem)
              /\ Within(investmentFilteredData', invs)
            BY <1>0, <3>1, <3>5, FilterProperties DEF TypeOK, Within
        <3>8. rows' \in Seq(Cell) /\ trap' \in Traps \ {"position"}
            BY <1>0, <3>1, <3>5, <3>7, ReloadType DEF TypeOK
        <3>9. TypeOK' /\ SheetFilled' /\ ~SheetOpen'
            BY <1>0, <2>2, <3>1, <3>5, <3>7, <3>8 DEF TypeOK, SheetFilled, SheetOpen
        <3>10. UniqueIDs' /\ EditTarget'
            BY <3>1, <3>6, <3>9, IDsKept
        <3>11. FilteredWithin' /\ Durable'
            BY <3>1, <3>7 DEF FilteredWithin, Durable
        <3> QED
            BY <3>8, <3>9, <3>10, <3>11 DEF IInv
    <2>4. CASE t \notin DOMAIN investments
        <3>1. trap' = "index" /\ rows' = <<>> /\ UNCHANGED <<disk, model>>
            BY <1>5, <2>4 DEF TapStepper
        <3>2. TypeOK' /\ SheetFilled' /\ ~SheetOpen'
            BY <1>0, <2>2, <3>1 DEF TypeOK, SheetFilled, SheetOpen, Traps
        <3> QED
            BY <3>1, <3>2, QuietStep
    <2> QED
        BY <2>3, <2>4
<1> QED
    BY <1>1, <1>2, <1>3, <1>4, <1>5

\* A deletion leaves the other investments, under the ids they had.
LEMMA DeleteStep ==
    ASSUME IInv, ConfirmDelete
    PROVE  IInv'
<1> USE DEF disk, model, table, dialog, queue
<1>0. TypeOK /\ UniqueIDs
    BY DEF IInv
<1> DEFINE k == CorrectedTag
           invs == RemoveAt(investments, k)
<1>1. /\ k \in DOMAIN investments /\ cellTag' = k
      /\ investments' = invs /\ saved' = invs /\ investmentFilteredData' = invs
      /\ delayed' = delayed + 1 /\ screen' = "list" /\ aim' = NoAim
      /\ UNCHANGED <<tableShown, form, total, load, items>>
      /\ \/ UNCHANGED searchText /\ deleteRows(FilteredCellTag(k), invs)
         \/ searchText' = NoText /\ reloadData(invs, invs, tableShown)
    BY DEF ConfirmDelete, saveInvestmentsData, reloadItemsDelay
<1> HIDE DEF k
<1>2. DOMAIN investments = 1..Len(investments) /\ Len(investments) \in Nat /\ k \in Nat
    BY <1>0, <1>1 DEF TypeOK
<1>3. /\ invs \in Seq(investmentItem) /\ Len(invs) = Len(investments) - 1
      /\ \A i \in 1..(Len(investments) - 1) :
             invs[i] = IF i < k THEN investments[i] ELSE investments[i + 1]
    <2>1. investments \in Seq(investmentItem)
        BY <1>0 DEF TypeOK
    <2> HIDE DEF invs
    <2>2. invs = RemoveAt(investments, k)
        BY DEF invs
    <2> QED
        BY <1>1, <2>1, <2>2, RemoveAtProperties
<1> HIDE DEF invs
<1>4. rows' \in Seq(Cell) /\ trap' \in Traps \ {"position"}
    <2>1. CASE reloadData(invs, invs, tableShown)
        BY <1>0, <1>3, <2>1, ReloadType, WithinItself DEF TypeOK
    <2>2. CASE deleteRows(FilteredCellTag(k), invs)
        <3> DEFINE q == FilteredCellTag(k)
        <3>1. CASE q \in DOMAIN rows /\ rows' = RemoveAt(rows, q) /\ trap' = "none"
            <4> HIDE DEF q
            <4>1. rows \in Seq(Cell)
                BY <1>0 DEF TypeOK
            <4>2. RemoveAt(rows, q) \in Seq(Cell)
                BY <3>1, <4>1, RemoveAtProperties
            <4> QED
                BY <3>1, <4>2 DEF Traps
        <3>2. CASE rows' = <<>> /\ trap' = "rows"
            BY <3>2 DEF Traps
        <3> QED
            BY <2>2, <3>1, <3>2 DEF deleteRows
    <2> QED
        BY <1>1, <2>1, <2>2
<1>5. searchText' \in SearchTexts
    BY <1>0, <1>1, SearchAssumption DEF TypeOK
<1>6. TypeOK'
    BY <1>0, <1>1, <1>2, <1>3, <1>4, <1>5 DEF TypeOK, Screens
<1>7. SheetFilled' /\ EditTarget' /\ ~SheetOpen'
    BY <1>1 DEF SheetFilled, EditTarget, SheetOpen
<1>8. FilteredWithin' /\ Durable'
    BY <1>1, WithinItself DEF FilteredWithin, Durable
<1>9. \A i, j \in DOMAIN invs : invs[i].id = invs[j].id => i = j
    <2> DEFINE at(i) == IF i < k THEN i ELSE i + 1
    <2>1. ASSUME NEW i \in DOMAIN invs
          PROVE  /\ i \in Nat /\ at(i) \in DOMAIN investments /\ invs[i] = investments[at(i)]
        BY <1>2, <1>3
    <2>2. ASSUME NEW i \in DOMAIN invs, NEW j \in DOMAIN invs, at(i) = at(j)
          PROVE  i = j
        BY <1>2, <2>1, <2>2
    <2> HIDE DEF at
    <2> QED
        BY <1>0, <2>1, <2>2 DEF UniqueIDs
<1>10. UniqueIDs'
    BY <1>1, <1>7, <1>9 DEF UniqueIDs
<1> QED
    BY <1>4, <1>6, <1>7, <1>8, <1>10 DEF IInv

\* The Add button appends under an id not in use, the Done button writes
\* under the id that is there.
LEMMA AddStep ==
    ASSUME IInv, AddButton
    PROVE  IInv'
<1> USE DEF disk, model, table, dialog, queue
<1>0. TypeOK /\ UniqueIDs /\ EditTarget /\ SheetFilled
    BY DEF IInv
<1> DEFINE v == [item |-> form.item, colour |-> form.colour, quantity |-> form.amount,
                 boughtFor |-> form.boughtFor, platform |-> form.platform, id |-> form.id]
<1>1. /\ SheetOpen /\ form \in Form /\ form.item # NoItem
      /\ screen' = "list" /\ form' = NoForm /\ aim' = NoAim
      /\ saved' = investments' /\ investmentFilteredData' = investments'
      /\ tableShown' = TRUE /\ reloadData(investments', investments', TRUE)
      /\ UNCHANGED <<searchText, total, cellTag, queue>>
    BY <1>0 DEF AddButton, Refused, SheetFilled, SheetOpen, reloadTableView, saveInvestmentsData
<1>2. \/ form.editing /\ investments' = [investments EXCEPT ![cellTag] = v]
      \/ ~form.editing /\ investments' = Append(investments, v)
    BY DEF AddButton, saveInvestmentsData
<1>3. v \in investmentItem /\ v.id = form.id
    BY <1>1 DEF Form, investmentItem
<1> HIDE DEF v
<1>4. DOMAIN investments = 1..Len(investments) /\ Len(investments) \in Nat
    BY <1>0 DEF TypeOK
<1>5. investments' \in Seq(investmentItem)
    <2>1. investments \in Seq(investmentItem)
        BY <1>0 DEF TypeOK
    <2>2. CASE form.editing
        <3>1. cellTag \in DOMAIN investments /\ investments' = [investments EXCEPT ![cellTag] = v]
            BY <1>0, <1>1, <1>2, <2>2 DEF EditTarget
        <3> QED
            BY <1>3, <2>1, <3>1
    <2>3. CASE ~form.editing
        BY <1>2, <1>3, <2>1, <2>3
    <2> QED
        BY <2>2, <2>3
<1>6. rows' \in Seq(Cell) /\ trap' \in Traps \ {"position"}
    BY <1>1, <1>5, ReloadType, WithinItself
<1>7. TypeOK'
    BY <1>0, <1>1, <1>5, <1>6 DEF TypeOK, Screens
<1>8. SheetFilled' /\ EditTarget' /\ ~SheetOpen'
    BY <1>1 DEF SheetFilled, EditTarget, SheetOpen
<1>9. FilteredWithin' /\ Durable'
    BY <1>1, WithinItself DEF FilteredWithin, Durable
<1>10. UniqueIDs'
    <2>1. CASE form.editing
        <3>1. /\ DOMAIN investments' = DOMAIN investments
              /\ \A i \in DOMAIN investments : investments'[i].id = investments[i].id
            BY <1>0, <1>1, <1>2, <1>3, <2>1 DEF EditTarget
        <3> QED
            BY <1>8, <3>1, IDsKept
    <2>2. CASE ~form.editing
        <3>1. /\ investments' = Append(investments, v)
              /\ \A i \in DOMAIN investments : investments[i].id # v.id
            BY <1>0, <1>1, <1>2, <1>3, <2>2 DEF UniqueIDs, IDs
        <3>2. /\ DOMAIN investments' = 1..(Len(investments) + 1)
              /\ investments'[Len(investments) + 1] = v
              /\ \A i \in 1..Len(investments) : investments'[i] = investments[i]
            BY <1>0, <3>1 DEF TypeOK
        <3>3. \A i, j \in DOMAIN investments' : investments'[i].id = investments'[j].id => i = j
            BY <1>0, <1>4, <3>1, <3>2 DEF UniqueIDs
        <3> QED
            BY <1>8, <3>3 DEF UniqueIDs
    <2> QED
        BY <2>1, <2>2
<1> QED
    BY <1>6, <1>7, <1>8, <1>9, <1>10 DEF IInv

\* Every step keeps it.
LEMMA NextIInv == IInv /\ [Next]_vars => IInv'
<1> SUFFICES ASSUME IInv, [Next]_vars PROVE IInv'
    OBVIOUS
<1>1. CASE System
    BY <1>1, QuietSteps, ListSteps DEF System
<1>2. CASE List
    BY <1>2, QuietSteps, ListSteps, OpenSheetSteps, DeleteStep DEF List
<1>3. CASE Sheet
    BY <1>3, QuietSteps, SheetSteps, OpenSheetSteps, AddStep DEF Sheet
<1>4. CASE UNCHANGED vars
    <2>1. /\ UNCHANGED <<saved, investments, investmentFilteredData, items, cellTag, searchText>>
          /\ UNCHANGED <<rows, tableShown, screen, form, total, load, delayed, trap, aim>>
        BY <1>4 DEF vars, disk, model, table, dialog, queue
    <2>2. TypeOK' /\ SheetFilled' /\ (SheetOpen' => SheetOpen) /\ trap' # "position"
        BY <2>1 DEF IInv, TypeOK, SheetFilled, SheetOpen
    <2> QED
        BY <2>1, <2>2, QuietStep DEF disk, model
<1> QED
    BY <1>1, <1>2, <1>3, <1>4 DEF Next

-----------------------------------------------------------------------------
(* More about the helpers: what the table is laid out from and looks like *)

\* Some entries of a list, in its order, none twice.
View(f, invs) ==
    \E p \in [DOMAIN f -> DOMAIN invs] :
        /\ \A i, j \in DOMAIN f : i < j => p[i] < p[j]
        /\ \A i \in DOMAIN f : f[i] = invs[p[i]]

\* The whole list and the empty list are views of a list.
LEMMA TrivialViews ==
    ASSUME NEW invs \in Seq(investmentItem)
    PROVE  View(invs, invs) /\ View(<<>>, invs)
<1>1. View(invs, invs)
    <2> DEFINE p == [i \in DOMAIN invs |-> i]
    <2>1. p \in [DOMAIN invs -> DOMAIN invs]
        OBVIOUS
    <2>2. \A i \in DOMAIN invs : p[i] = i
        OBVIOUS
    <2> HIDE DEF p
    <2> QED
        BY <2>1, <2>2 DEF View
<1>2. View(<<>>, invs)
    <2> DEFINE p == [i \in {} |-> i]
    <2>1. DOMAIN <<>> = {} /\ p \in [{} -> DOMAIN invs]
        OBVIOUS
    <2> QED
        BY <2>1 DEF View
<1> QED
    BY <1>1, <1>2

\* What the search leaves is a view of the list (textDidChange).
LEMMA FilterIsView ==
    ASSUME NEW text \in SearchTexts, NEW invs \in Seq(investmentItem)
    PROVE  View(Filter(text, invs), invs)
<1>1. CASE text = NoText
    BY <1>1, TrivialViews DEF Filter
<1>2. CASE text # NoText
    <2> DEFINE S == {i \in DOMAIN invs : invs[i].item.itemName \in Hits[text]}
               p == Ascending(S)
               f == [j \in DOMAIN p |-> invs[p[j]]]
    <2>1. S \in SUBSET DOMAIN invs
        OBVIOUS
    <2>2. Filter(text, invs) = f
        BY <1>2 DEF Filter
    <2> HIDE DEF S
    <2>3. /\ p \in [1..Cardinality(S) -> S]
          /\ \A i, j \in 1..Cardinality(S) : i < j => p[i] < p[j]
        BY <2>1, SelectedInOrder
    <2> HIDE DEF p
    <2>4. DOMAIN f = DOMAIN p /\ DOMAIN p = 1..Cardinality(S)
        BY <2>3
    <2>5. p \in [DOMAIN f -> DOMAIN invs] /\ \A i \in DOMAIN f : f[i] = invs[p[i]]
        BY <2>1, <2>3, <2>4
    <2>6. \A i, j \in DOMAIN f : i < j => p[i] < p[j]
        BY <2>3, <2>4
    <2> HIDE DEF f
    <2> QED
        BY <2>2, <2>5, <2>6 DEF View
<1> QED
    BY <1>1, <1>2

\* A view as long as the list is the list.
LEMMA FullView ==
    ASSUME NEW f \in Seq(investmentItem), NEW invs \in Seq(investmentItem),
           View(f, invs), Len(f) = Len(invs)
    PROVE  f = invs
<1> DEFINE n == Len(invs)
<1>1. n \in Nat /\ DOMAIN f = 1..n /\ DOMAIN invs = 1..n
    OBVIOUS
<1>2. PICK p \in [1..n -> 1..n] :
          /\ \A i, j \in 1..n : i < j => p[i] < p[j]
          /\ \A i \in 1..n : f[i] = invs[p[i]]
    BY <1>1 DEF View
<1> HIDE DEF n
<1>3. \A i \in 1..n : i <= p[i]
    <2> DEFINE T == {i \in 1..n : p[i] < i}
    <2> SUFFICES ASSUME T # {} PROVE FALSE
        BY <1>1, <1>2
    <2>1. T \subseteq Nat
        BY <1>1
    <2> HIDE DEF T
    <2>2. PICK m \in T : \A k \in T : m <= k
        BY <2>1, LeastNatural
    <2>3. m \in 1..n /\ p[m] \in 1..n /\ p[m] < m
        BY <1>2, <2>2 DEF T
    <2>4. p[p[m]] < p[m] /\ p[p[m]] \in 1..n
        BY <1>2, <2>3
    <2>5. p[m] \in T
        BY <2>3, <2>4 DEF T
    <2> QED
        BY <1>1, <2>2, <2>3, <2>5
<1>4. \A i \in 1..n : p[i] <= i
    <2> DEFINE T == {i \in 1..n : i < p[i]}
    <2> SUFFICES ASSUME T # {} PROVE FALSE
        BY <1>1, <1>2
    <2>1. T \subseteq Nat /\ \A k \in T : k <= n
        BY <1>1
    <2> HIDE DEF T
    <2>2. PICK m \in T : \A k \in T : k <= m
        BY <1>1, <2>1, GreatestNatural
    <2>3. m \in 1..n /\ p[m] \in 1..n /\ m < p[m]
        BY <1>2, <2>2 DEF T
    <2>4. p[m] < p[p[m]] /\ p[p[m]] \in 1..n
        BY <1>2, <2>3
    <2>5. p[m] \in T
        BY <2>3, <2>4 DEF T
    <2> QED
        BY <1>1, <2>2, <2>3, <2>5
<1>5. \A i \in 1..n : p[i] = i
    BY <1>1, <1>2, <1>3, <1>4
<1>6. \A i \in 1..n : f[i] = invs[i]
    BY <1>2, <1>5
<1> QED
    BY <1>1, <1>6

\* No two entries have one id.
Distinct(invs) == \A i, j \in DOMAIN invs : invs[i].id = invs[j].id => i = j

\* Where ids are distinct, the scan for an entry's id finds the entry.
LEMMA PositionOf ==
    ASSUME NEW invs \in Seq(investmentItem), Distinct(invs), NEW i \in DOMAIN invs
    PROVE  Position(invs, invs[i].id) = i
<1> DEFINE k == Position(invs, invs[i].id)
<1>1. invs[i].id \in IDs(invs)
    BY DEF IDs
<1>2. k \in 0..Len(invs) /\ k # 0 /\ invs[k].id = invs[i].id
    BY <1>1, PositionProperties
<1>3. k \in DOMAIN invs
    BY <1>2
<1> QED
    BY <1>2, <1>3 DEF Distinct

\* A reload lays out every row, or stops at one that traps (reloadData).
LEMMA Reloaded ==
    ASSUME NEW f \in Seq(investmentItem), NEW invs, NEW shown \in BOOLEAN,
           reloadData(f, invs, shown)
    PROVE  \/ /\ trap' = "none"
              /\ rows' = IF shown THEN [r \in DOMAIN f |-> cellForRowAt(f, r, invs)] ELSE <<>>
           \/ /\ rows' = <<>> /\ trap' # "none"
              /\ \E r \in DOMAIN f : trap' = RowTrap(f, r, invs)
<1> DEFINE bad == {r \in DOMAIN f : RowTrap(f, r, invs) # "none"}
           first == CHOOSE r \in bad : \A q \in bad : r <= q
<1>1. CASE ~shown /\ rows' = <<>> /\ trap' = "none"
    BY <1>1
<1>2. CASE /\ shown /\ trap' = "none"
           /\ rows' = [r \in DOMAIN f |-> cellForRowAt(f, r, invs)]
    BY <1>2
<1>3. CASE bad # {} /\ rows' = <<>> /\ trap' = RowTrap(f, first, invs)
    <2>1. DOMAIN f \subseteq Nat
        OBVIOUS
    <2>2. bad \subseteq Nat
        BY <2>1
    <2>3. \E r \in bad : \A q \in bad : r <= q
        <3> HIDE DEF bad
        <3> QED
            BY <1>3, <2>2, LeastNatural
    <2>4. first \in bad
        BY <2>3
    <2>5. first \in DOMAIN f /\ RowTrap(f, first, invs) # "none"
        BY <2>4
    <2> HIDE DEF first, bad
    <2> QED
        BY <1>3, <2>5
<1> QED
    BY <1>1, <1>2, <1>3 DEF reloadData

-----------------------------------------------------------------------------
(* The second inductive invariant: the table, the prices and what was pressed *)

\* The item is as current as the loaded catalogue allows.
Current(item) == CurrentIn(item, items)

\* Before the catalogue is there, no row is shown and no item can be picked.
NothingYet ==
    load \in {"waiting", "failed"} =>
        /\ items = <<>> /\ ~tableShown
        /\ SheetOpen => form.item = NoItem

\* A hidden table has no rows to press.
HiddenEmpty == ~tableShown => rows = <<>> /\ screen # "confirm"

\* The item of an open sheet is as current as those of the portfolio.
FormCurrent ==
    load \in {"posting", "done"} /\ SheetOpen => form.item = NoItem \/ Current(form.item)

\* The id of the investment being added is above all in use, not only new.
FreshID == SheetOpen /\ ~form.editing => \A n \in IDs(investments) : n < form.id

\* Nothing is aimed at unless a dialog of a row is open, and the dialog of a
\* deletion that was pressed on a settled table has the right tag.
NoneAimed == screen \in {"list", "total"} => aim = NoAim
Aimed ==
    screen = "confirm" =>
        /\ aim # NoAim
        /\ aim.settled => /\ cellTag \in DOMAIN investments
                          /\ investments[cellTag].id = aim.id
                          /\ investmentFilteredData # <<>>

\* TagsDrift after a deletion needs that the rows are those of the data source
\* (TableInSync), that a data source as long as the portfolio is the portfolio
\* (FilteredIsView), and that a hidden table has no rows.  That an edit brings
\* back no old price needs the same of the sheet, and nothing to edit before
\* the load.
JInv ==
    /\ FilteredIsView
    /\ TableInSync
    /\ TagsDrift
    /\ ListComplete
    /\ PricesCurrent
    /\ NothingYet
    /\ HiddenEmpty
    /\ FormCurrent
    /\ FreshID
    /\ NoneAimed
    /\ Aimed

Inv == IInv /\ JInv

\* The launch establishes it.
LEMMA InitJInv == Init => JInv
<1> SUFFICES ASSUME Init PROVE JInv
    OBVIOUS
<1>1. FilteredIsView
    <2>1. investments = <<>> /\ investmentFilteredData = <<>> /\ investments \in Seq(investmentItem)
        BY DEF Init
    <2>2. View(investmentFilteredData, investments)
        BY <2>1, TrivialViews
    <2> QED
        BY <2>2 DEF FilteredIsView, View
<1>2. TableInSync /\ TagsDrift /\ ListComplete /\ PricesCurrent
    BY DEF Init, TableInSync, TagsDrift, ListComplete, PricesCurrent
<1>3. /\ NothingYet /\ HiddenEmpty /\ FormCurrent /\ FreshID /\ NoneAimed /\ Aimed
    BY DEF Init, NothingYet, HiddenEmpty, FormCurrent, FreshID, NoneAimed, Aimed, SheetOpen
<1> QED
    BY <1>1, <1>2, <1>3 DEF JInv

\* The steps of dialogs, which touch no list and no row.
DialogStep ==
    \/ LoadNotString
    \/ \E r \in DOMAIN rows : TapDelete(r)
    \/ \E r \in DOMAIN rows : TapEdit(r) /\ rows[r].tag \in DOMAIN investments
    \/ \E r \in DOMAIN rows : TapChart(r) /\ screen' = "chart"
    \/ CancelDelete \/ CloseChart \/ CloseTotal
    \/ ShowTotal /\ screen' = "total"
    \/ \E platform \in Platforms : AddNew(platform) \/ PickPlatform(platform)
    \/ \E i \in DOMAIN items : PickItem(items[i])
    \/ \E colour \in Colours : PickColour(colour)
    \/ \E n \in 1..MaxAmount : StepAmount(n)
    \/ \E text \in TypedPrices : TypePrice(text)
    \/ AddButtonRefused \/ DismissRefusal \/ CancelForm

\* The steps that end in a trap before they change anything.
TrapStep ==
    \/ \E r \in DOMAIN rows :
        TapEdit(r) \/ TapChart(r) \/ \E n \in 1..MaxAmount : TapStepper(r, n)
    \/ ConfirmDeleteTraps
    \/ ShowTotal

\* The steps that lay out the whole table.
ReloadStep ==
    \/ PostReloadItems \/ TraitChange \/ DelayedReload
    \/ \E text \in SearchTexts : Search(text)
    \/ \E r \in DOMAIN rows, n \in 1..MaxAmount :
        TapStepper(r, n) /\ rows[r].tag \in DOMAIN investments
    \/ AddButton
    \/ ConfirmDelete

\* Every step, by what it does to the lists and the rows.
LEMMA StepKinds ==
    ASSUME IInv, Next
    PROVE  \/ /\ DialogStep /\ Running
              /\ UNCHANGED <<saved, investments, investmentFilteredData, rows, tableShown>>
              /\ UNCHANGED <<searchText, load, items, delayed>>
              /\ trap' \in {"none", "cast"}
           \/ /\ TrapStep /\ Running
              /\ UNCHANGED <<saved, investments, investmentFilteredData, tableShown>>
              /\ UNCHANGED <<searchText, load, items, delayed>>
              /\ rows' = <<>> /\ trap' # "none"
           \/ LoadFails
           \/ Relaunch
           \/ \E cat \in Catalogues : ApplyPrices(cat)
           \/ \E r \in DOMAIN rows : Scroll(r)
           \/ /\ ReloadStep /\ Running
              /\ reloadData(investmentFilteredData', investments', tableShown')
              /\ tableShown' \in {tableShown, TRUE}
           \/ /\ ConfirmDelete /\ UNCHANGED searchText
              /\ deleteRows(FilteredCellTag(CorrectedTag), investments')
<1> USE DEF disk, model, table, dialog, queue, Running
<1>0. TypeOK
    BY DEF IInv
<1>1. CASE LoadNotString
    BY <1>1 DEF LoadNotString, DialogStep
<1>2. CASE PostReloadItems
    BY <1>2 DEF PostReloadItems, reloadTableView, ReloadStep
<1>3. CASE TraitChange
    BY <1>3 DEF TraitChange, ReloadStep
<1>4. CASE DelayedReload
    BY <1>4 DEF DelayedReload, ReloadStep
<1>5. ASSUME NEW text \in SearchTexts, Search(text)
      PROVE  /\ ReloadStep /\ Running
             /\ reloadData(investmentFilteredData', investments', tableShown')
             /\ tableShown' \in {tableShown, TRUE}
    BY <1>5 DEF Search, ReloadStep
<1>6. CASE \E r \in DOMAIN rows : TapDelete(r)
    BY <1>6 DEF TapDelete, Press, DialogStep
<1>7. CASE \E r \in DOMAIN rows : TapEdit(r)
    BY <1>7 DEF TapEdit, Press, DialogStep, TrapStep
<1>8. CASE \E r \in DOMAIN rows : TapChart(r)
    BY <1>8 DEF TapChart, Press, DialogStep, TrapStep
<1>9. CASE \E r \in DOMAIN rows, n \in 1..MaxAmount : TapStepper(r, n)
    BY <1>9 DEF TapStepper, Press, ReloadStep, TrapStep
<1>10. CASE ConfirmDelete
    BY <1>10 DEF ConfirmDelete, saveInvestmentsData, ReloadStep
<1>11. CASE ConfirmDeleteTraps
    BY <1>11 DEF ConfirmDeleteTraps, TrapStep
<1>12. CASE CancelDelete \/ CloseChart \/ CloseTotal
    BY <1>12 DEF CancelDelete, CloseChart, CloseTotal, DialogStep
<1>13. CASE ShowTotal
    <2>1. CASE screen' = "total" /\ UNCHANGED <<rows, trap>>
        BY <1>13, <2>1 DEF ShowTotal, DialogStep
    <2>2. ASSUME NEW i, trap' = TotalRowTrap(investmentFilteredData, i), rows' = <<>>
          PROVE  trap' # "none"
        BY <2>2 DEF TotalRowTrap
    <2> QED
        BY <1>13, <2>1, <2>2 DEF ShowTotal, TrapStep
<1>14. CASE \E platform \in Platforms : AddNew(platform)
    BY <1>14 DEF AddNew, DialogStep
<1>15. CASE \/ \E platform \in Platforms : PickPlatform(platform)
            \/ \E i \in DOMAIN items : PickItem(items[i])
            \/ \E colour \in Colours : PickColour(colour)
            \/ \E n \in 1..MaxAmount : StepAmount(n)
            \/ \E text \in TypedPrices : TypePrice(text)
    <2>1. DialogStep
        BY <1>15 DEF DialogStep
    <2>2. \E f : EditForm(f)
        BY <1>15 DEF PickPlatform, PickItem, PickColour, StepAmount, TypePrice
    <2> QED
        BY <2>1, <2>2 DEF EditForm
<1>16. CASE AddButton
    BY <1>16 DEF AddButton, reloadTableView, saveInvestmentsData, ReloadStep
<1>17. CASE AddButtonRefused \/ DismissRefusal \/ CancelForm
    BY <1>17 DEF AddButtonRefused, DismissRefusal, CancelForm, DialogStep
<1> QED
    BY <1>1, <1>2, <1>3, <1>4, <1>5, <1>6, <1>7, <1>8, <1>9, <1>10, <1>11, <1>12, <1>13,
       <1>14, <1>15, <1>16, <1>17 DEF Next, System, List, Sheet

\* Where the data source of a table that is laid out comes from.
LEMMA ReloadedList ==
    ASSUME IInv, ReloadStep
    PROVE  \/ UNCHANGED <<investments, investmentFilteredData, searchText, load>>
           \/ investmentFilteredData' = investments'
           \/ /\ searchText' \in SearchTexts /\ UNCHANGED load
              /\ investmentFilteredData' = Filter(searchText', investments')
<1> USE DEF disk, model, table, dialog, queue
<1>1. CASE PostReloadItems
    BY <1>1 DEF PostReloadItems, reloadTableView
<1>2. CASE TraitChange \/ DelayedReload
    BY <1>2 DEF TraitChange, DelayedReload
<1>3. CASE \E text \in SearchTexts : Search(text)
    BY <1>3 DEF Search
<1>4. ASSUME NEW r \in DOMAIN rows, NEW n \in 1..MaxAmount, TapStepper(r, n),
             rows[r].tag \in DOMAIN investments
      PROVE  /\ searchText' \in SearchTexts /\ UNCHANGED load
             /\ investmentFilteredData' = Filter(searchText', investments')
    BY <1>4 DEF TapStepper, IInv, TypeOK
<1>5. CASE AddButton
    BY <1>5 DEF AddButton, reloadTableView
<1>6. CASE ConfirmDelete
    BY <1>6 DEF ConfirmDelete
<1> QED
    BY <1>1, <1>2, <1>3, <1>4, <1>5, <1>6 DEF ReloadStep

\* The data source stays a view of the portfolio.
LEMMA ViewStep ==
    ASSUME Inv, IInv', Next
    PROVE  FilteredIsView'
<1> USE DEF disk, model, table, dialog, queue
<1>0. IInv /\ FilteredIsView /\ investments' \in Seq(investmentItem)
    BY DEF Inv, IInv, JInv, TypeOK
<1>1. \/ UNCHANGED <<investments, investmentFilteredData>>
      \/ investmentFilteredData' = investments'
      \/ investmentFilteredData' = <<>>
      \/ \E text \in SearchTexts : investmentFilteredData' = Filter(text, investments')
    <2>1. CASE LoadFails
        BY <2>1 DEF LoadFails
    <2>2. CASE Relaunch
        BY <2>2 DEF Relaunch
    <2>3. CASE \E cat \in Catalogues : ApplyPrices(cat)
        BY <2>3 DEF ApplyPrices
    <2>4. CASE \E r \in DOMAIN rows : Scroll(r)
        BY <2>4 DEF Scroll
    <2>5. CASE ReloadStep
        BY <1>0, <2>5, ReloadedList
    <2>6. CASE ConfirmDelete
        BY <2>6 DEF ConfirmDelete
    <2> QED
        BY <1>0, <2>1, <2>2, <2>3, <2>4, <2>5, <2>6, StepKinds
<1>2. CASE UNCHANGED <<investments, investmentFilteredData>>
    BY <1>0, <1>2 DEF FilteredIsView
<1>3. ASSUME View(investmentFilteredData', investments') PROVE FilteredIsView'
    BY <1>3 DEF View, FilteredIsView
<1> QED
    BY <1>0, <1>1, <1>2, <1>3, TrivialViews, FilterIsView

\* With an empty search bar the list stays complete.
LEMMA CompleteStep ==
    ASSUME Inv, Next
    PROVE  ListComplete'
<1> USE DEF disk, model, table, dialog, queue, Running
<1>0. IInv /\ ListComplete
    BY DEF Inv, JInv
<1>1. CASE UNCHANGED <<investments, investmentFilteredData, searchText, load>> /\ Running
    BY <1>0, <1>1 DEF ListComplete
<1>2. CASE trap' # "none"
    BY <1>2 DEF ListComplete
<1>3. CASE LoadFails
    BY <1>3 DEF LoadFails, ListComplete
<1>4. CASE Relaunch
    BY <1>4 DEF Relaunch, ListComplete
<1>5. CASE \E cat \in Catalogues : ApplyPrices(cat)
    BY <1>5 DEF ApplyPrices, ListComplete
<1>6. CASE \E r \in DOMAIN rows : Scroll(r)
    BY <1>1, <1>6 DEF Scroll
<1>7. CASE ReloadStep /\ Running
    <2>1. CASE investmentFilteredData' = investments'
        BY <2>1 DEF ListComplete
    <2>2. CASE UNCHANGED load /\ investmentFilteredData' = Filter(searchText', investments')
        BY <2>2 DEF Filter, ListComplete
    <2> QED
        BY <1>0, <1>1, <1>7, <2>1, <2>2, ReloadedList
<1>8. CASE ConfirmDelete
    BY <1>8 DEF ConfirmDelete, ListComplete
<1> QED
    BY <1>0, <1>1, <1>2, <1>3, <1>4, <1>5, <1>6, <1>7, <1>8, StepKinds

\* A deletion that takes one row from the table found the whole portfolio in
\* it, and takes the row of the investment that goes.
LEMMA DeletedRow ==
    ASSUME Inv, ConfirmDelete, UNCHANGED searchText,
           deleteRows(FilteredCellTag(CorrectedTag), investments'), trap' = "none"
    PROVE  /\ tableShown /\ CorrectedTag \in DOMAIN investments
           /\ investmentFilteredData = investments
           /\ Len(rows) = Len(investments)
           /\ investments' = RemoveAt(investments, CorrectedTag)
           /\ rows' = RemoveAt(rows, CorrectedTag)
<1> DEFINE k == CorrectedTag
           q == FilteredCellTag(k)
<1>0. /\ IInv /\ FilteredIsView /\ TableInSync /\ HiddenEmpty /\ Running
      /\ k \in DOMAIN investments /\ investments' = RemoveAt(investments, k)
      /\ screen = "confirm"
    BY DEF Inv, JInv, ConfirmDelete, saveInvestmentsData
<1>1. /\ q \in DOMAIN rows /\ Len(investments') = Len(rows) - 1 /\ rows' = RemoveAt(rows, q)
    BY DEF deleteRows
<1> HIDE DEF k, q
<1>2. /\ investments \in Seq(investmentItem) /\ investmentFilteredData \in Seq(investmentItem)
      /\ rows \in Seq(Cell) /\ Distinct(investments)
    BY <1>0 DEF IInv, TypeOK, UniqueIDs, Distinct
<1>3. tableShown /\ DOMAIN rows = DOMAIN investmentFilteredData
    BY <1>0 DEF HiddenEmpty, TableInSync
<1>4. Len(investments') = Len(investments) - 1
    BY <1>0, <1>2, RemoveAtProperties
<1>5. Len(rows) = Len(investments) /\ Len(investmentFilteredData) = Len(investments)
    BY <1>1, <1>2, <1>3, <1>4
<1>6. investmentFilteredData = investments
    <2>1. View(investmentFilteredData, investments)
        BY <1>0 DEF FilteredIsView, View
    <2> QED
        BY <1>2, <1>5, <2>1, FullView
<1>7. q = k
    <2>1. Position(investments, investments[k].id) = k
        BY <1>0, <1>2, PositionOf
    <2>2. k # 0
        BY <1>0, <1>2
    <2> QED
        BY <1>6, <2>1, <2>2 DEF FilteredCellTag, q
<1> QED
    BY <1>0, <1>1, <1>3, <1>5, <1>6, <1>7 DEF k

\* The rows stay those of the data source.
LEMMA SyncStep ==
    ASSUME Inv, IInv', Next
    PROVE  TableInSync'
<1> USE DEF disk, model, table, dialog, queue, Running
<1>0. /\ IInv /\ TableInSync /\ NothingYet
      /\ investments \in Seq(investmentItem) /\ investmentFilteredData \in Seq(investmentItem)
      /\ rows \in Seq(Cell)
      /\ investmentFilteredData' \in Seq(investmentItem) /\ tableShown' \in BOOLEAN
    BY DEF Inv, JInv, IInv, TypeOK
<1>1. CASE UNCHANGED <<investmentFilteredData, rows, tableShown>> /\ Running
    BY <1>0, <1>1 DEF TableInSync
<1>2. CASE trap' # "none" \/ ~tableShown'
    BY <1>2 DEF TableInSync
<1>3. CASE LoadFails
    BY <1>1, <1>3 DEF LoadFails
<1>4. CASE Relaunch
    BY <1>2, <1>4 DEF Relaunch
<1>5. CASE \E cat \in Catalogues : ApplyPrices(cat)
    BY <1>0, <1>2, <1>5 DEF ApplyPrices, NothingYet
<1>6. ASSUME NEW r \in DOMAIN rows, Scroll(r), trap' = "none", tableShown'
      PROVE  TableInSync'
    <2>1. /\ UNCHANGED <<investmentFilteredData, tableShown>> /\ Running
          /\ rows' = [rows EXCEPT ![r] = cellForRowAt(investmentFilteredData, r, investments)]
        BY <1>6 DEF Scroll
    <2>2. DOMAIN rows' = DOMAIN investmentFilteredData
        BY <1>0, <1>6, <2>1 DEF TableInSync
    <2>3. ASSUME NEW q \in DOMAIN rows'
          PROVE  /\ rows'[q].id = investmentFilteredData[q].id
                 /\ rows'[q].quantity = investmentFilteredData[q].quantity
        BY <1>0, <1>6, <2>1, <2>2, <2>3 DEF TableInSync, cellForRowAt
    <2> QED
        BY <2>1, <2>2, <2>3 DEF TableInSync
<1>7. ASSUME reloadData(investmentFilteredData', investments', tableShown'),
             trap' = "none", tableShown'
      PROVE  TableInSync'
    <2>1. rows' = [r \in DOMAIN investmentFilteredData' |->
                      cellForRowAt(investmentFilteredData', r, investments')]
        BY <1>0, <1>7, Reloaded
    <2> QED
        BY <2>1 DEF TableInSync, cellForRowAt
<1>8. ASSUME ConfirmDelete, UNCHANGED searchText, trap' = "none",
             deleteRows(FilteredCellTag(CorrectedTag), investments')
      PROVE  TableInSync'
    <2> DEFINE k == CorrectedTag
    <2>1. /\ tableShown /\ k \in DOMAIN investments
          /\ investmentFilteredData = investments /\ Len(rows) = Len(investments)
          /\ investments' = RemoveAt(investments, k) /\ rows' = RemoveAt(rows, k)
        BY <1>8, DeletedRow
    <2>2. investmentFilteredData' = RemoveAt(investments, k)
        BY <1>8, <2>1 DEF ConfirmDelete
    <2> HIDE DEF k
    <2>3. /\ Len(investments) \in Nat /\ DOMAIN investments = 1..Len(investments)
          /\ DOMAIN rows = 1..Len(investments) /\ k \in 1..Len(investments)
        BY <1>0, <2>1
    <2>4. /\ Len(RemoveAt(investments, k)) = Len(investments) - 1
          /\ RemoveAt(investments, k) \in Seq(investmentItem)
          /\ \A i \in 1..(Len(investments) - 1) :
                RemoveAt(investments, k)[i] = IF i < k THEN investments[i] ELSE investments[i + 1]
        BY <1>0, <2>1, RemoveAtProperties
    <2>5. /\ Len(RemoveAt(rows, k)) = Len(investments) - 1
          /\ RemoveAt(rows, k) \in Seq(Cell)
          /\ \A i \in 1..(Len(investments) - 1) :
                RemoveAt(rows, k)[i] = IF i < k THEN rows[i] ELSE rows[i + 1]
        <3>1. rows \in Seq(Cell) /\ k \in DOMAIN rows
            BY <1>0, <2>3
        <3>2. /\ Len(RemoveAt(rows, k)) = Len(rows) - 1
              /\ RemoveAt(rows, k) \in Seq(Cell)
              /\ \A i \in 1..(Len(rows) - 1) :
                    RemoveAt(rows, k)[i] = IF i < k THEN rows[i] ELSE rows[i + 1]
            BY <3>1, RemoveAtProperties
        <3> QED
            BY <2>1, <3>2
    <2>6. \A i \in 1..Len(investments) : rows[i].id = investments[i].id
                                         /\ rows[i].quantity = investments[i].quantity
        BY <1>0, <1>8, <2>1, <2>3 DEF TableInSync, ConfirmDelete
    <2>7. DOMAIN rows' = 1..(Len(investments) - 1)
          /\ DOMAIN investmentFilteredData' = 1..(Len(investments) - 1)
        BY <2>1, <2>2, <2>4, <2>5
    <2>8. ASSUME NEW i \in 1..(Len(investments) - 1)
          PROVE  /\ rows'[i].id = investmentFilteredData'[i].id
                 /\ rows'[i].quantity = investmentFilteredData'[i].quantity
        <3>1. i \in 1..Len(investments) /\ i + 1 \in 1..Len(investments)
            BY <2>3
        <3> QED
            BY <2>1, <2>2, <2>4, <2>5, <2>6, <3>1
    <2> QED
        BY <2>7, <2>8 DEF TableInSync
<1> QED
    BY <1>0, <1>1, <1>2, <1>3, <1>4, <1>5, <1>6, <1>7, <1>8, StepKinds

\* A tag is never below its investment's position, and above it by no more
\* than the reloads to come.
LEMMA DriftStep ==
    ASSUME Inv, IInv', Next
    PROVE  TagsDrift'
<1> USE DEF disk, model, table, dialog, queue
<1>0. /\ IInv /\ TagsDrift /\ TableInSync /\ NothingYet /\ HiddenEmpty
      /\ investments \in Seq(investmentItem) /\ rows \in Seq(Cell) /\ delayed \in Nat
      /\ investments' \in Seq(investmentItem) /\ investmentFilteredData' \in Seq(investmentItem)
      /\ tableShown' \in BOOLEAN /\ delayed' \in Nat
      /\ Distinct(investments) /\ Distinct(investments')
    BY DEF Inv, JInv, IInv, TypeOK, UniqueIDs, Distinct
<1>1. CASE UNCHANGED <<investments, rows, delayed>>
    BY <1>0, <1>1 DEF TagsDrift
<1>2. CASE rows' = <<>>
    BY <1>2 DEF TagsDrift
<1>3. CASE LoadFails
    BY <1>1, <1>3 DEF LoadFails
<1>4. CASE Relaunch
    BY <1>2, <1>4 DEF Relaunch
<1>5. CASE \E cat \in Catalogues : ApplyPrices(cat)
    BY <1>0, <1>2, <1>5 DEF ApplyPrices, NothingYet, HiddenEmpty
<1>6. ASSUME NEW f, NEW r PROVE LET c == cellForRowAt(f, r, investments')
                                IN  c.tag - Position(investments', c.id) \in 0..delayed'
    <2>1. Position(investments', f[r].id) \in Nat
        BY <1>0, PositionProperties
    <2> QED
        BY <1>0, <2>1 DEF cellForRowAt
<1>7. ASSUME NEW r \in DOMAIN rows, Scroll(r), rows' # <<>> PROVE TagsDrift'
    <2>1. /\ rows' = [rows EXCEPT ![r] = cellForRowAt(investmentFilteredData, r, investments')]
          /\ UNCHANGED <<investments, delayed>>
        BY <1>7 DEF Scroll
    <2> QED
        BY <1>0, <1>6, <2>1 DEF TagsDrift
<1>8. CASE reloadData(investmentFilteredData', investments', tableShown')
    <2>1. \/ rows' = <<>>
          \/ rows' = [r \in DOMAIN investmentFilteredData' |->
                         cellForRowAt(investmentFilteredData', r, investments')]
        BY <1>0, <1>8, Reloaded
    <2> QED
        BY <1>2, <1>6, <2>1 DEF TagsDrift
<1>9. ASSUME ConfirmDelete, UNCHANGED searchText, trap' = "none",
             deleteRows(FilteredCellTag(CorrectedTag), investments')
      PROVE  TagsDrift'
    <2> DEFINE k == CorrectedTag
               n == Len(investments)
               at(i) == IF i < k THEN i ELSE i + 1
    <2>1. /\ tableShown /\ k \in DOMAIN investments
          /\ investmentFilteredData = investments /\ Len(rows) = n
          /\ investments' = RemoveAt(investments, k) /\ rows' = RemoveAt(rows, k)
        BY <1>9, DeletedRow
    <2>2. delayed' = delayed + 1 /\ Running
        BY <1>9 DEF ConfirmDelete, reloadItemsDelay
    <2> HIDE DEF k
    <2>3. /\ n \in Nat /\ k \in 1..n /\ DOMAIN rows = 1..n /\ DOMAIN investments = 1..n
        BY <1>0, <2>1
    <2>4. /\ Len(investments') = n - 1
          /\ \A i \in 1..(n - 1) : investments'[i] = investments[at(i)]
        BY <1>0, <2>1, RemoveAtProperties
    <2>5. /\ rows' \in Seq(Cell) /\ Len(rows') = n - 1
          /\ \A i \in 1..(n - 1) : rows'[i] = rows[at(i)]
        <3>1. k \in DOMAIN rows
            BY <2>3
        <3>2. /\ RemoveAt(rows, k) \in Seq(Cell) /\ Len(RemoveAt(rows, k)) = Len(rows) - 1
              /\ \A i \in 1..(Len(rows) - 1) :
                    RemoveAt(rows, k)[i] = IF i < k THEN rows[i] ELSE rows[i + 1]
            BY <1>0, <3>1, RemoveAtProperties
        <3> HIDE DEF n
        <3> QED
            BY <2>1, <3>2
    <2>6. \A i \in 1..n : rows[i].id = investments[i].id
        BY <1>0, <2>1, <2>2, <2>3 DEF TableInSync
    <2>7. \A i \in 1..n : rows[i].tag - i \in 0..delayed /\ rows[i].tag \in Nat
        <3>1. \A i \in 1..n : Position(investments, rows[i].id) = i
            BY <1>0, <2>3, <2>6, PositionOf
        <3>2. \A i \in 1..n : rows[i] \in Cell
            BY <1>0, <2>3
        <3> QED
            BY <1>0, <2>3, <3>1, <3>2 DEF TagsDrift, Cell
    <2>8. \A i \in 1..(n - 1) : at(i) \in 1..n /\ at(i) \in {i, i + 1}
        BY <2>3
    <2> HIDE DEF n, at
    <2>9. DOMAIN rows' = 1..(n - 1) /\ DOMAIN investments' = 1..(n - 1)
        BY <1>0, <2>4, <2>5
    <2>10. ASSUME NEW i \in 1..(n - 1)
           PROVE  rows'[i].tag - Position(investments', rows'[i].id) \in 0..delayed'
        <3>1. rows'[i].id = investments'[i].id /\ rows'[i].tag = rows[at(i)].tag
            BY <2>4, <2>5, <2>6, <2>8
        <3>2. Position(investments', rows'[i].id) = i
            BY <1>0, <2>9, <3>1, PositionOf
        <3>3. rows[at(i)].tag - at(i) \in 0..delayed /\ rows[at(i)].tag \in Nat
            BY <2>7, <2>8
        <3>4. rows[at(i)].tag - i \in 0..(delayed + 1)
            <4>1. i \in Nat /\ (at(i) = i \/ at(i) = i + 1)
                BY <2>8
            <4>2. \A x, j, d \in Nat : \A a \in {j, j + 1} : x - a \in 0..d => x - j \in 0..(d + 1)
                OBVIOUS
            <4> QED
                BY <1>0, <3>3, <4>1, <4>2
        <3> QED
            BY <2>2, <3>1, <3>2, <3>4
    <2> QED
        BY <2>9, <2>10 DEF TagsDrift
<1>10. ASSUME deleteRows(FilteredCellTag(CorrectedTag), investments')
       PROVE  trap' = "none" \/ rows' = <<>>
    BY <1>10 DEF deleteRows
<1> QED
    BY <1>0, <1>1, <1>2, <1>3, <1>4, <1>5, <1>7, <1>8, <1>9, <1>10, StepKinds

\* Where an investment's item comes from: the catalogue that arrives, an
\* investment that was there, or the sheet.
LEMMA Origin ==
    ASSUME Inv, IInv', Next, NEW i \in DOMAIN investments'
    PROVE  \/ \E cat \in Catalogues : ApplyPrices(cat)
           \/ \E j \in DOMAIN investments :
                 /\ investments'[i].item = investments[j].item
                 /\ Price(investments'[i]) = Price(investments[j])
           \/ /\ AddButton
              /\ investments'[i].item = form.item /\ Price(investments'[i]) = Price(form)
<1> USE DEF disk, model, table, dialog, queue
<1>0. /\ IInv /\ investments \in Seq(investmentItem) /\ Durable /\ EditTarget
    BY DEF Inv, IInv, TypeOK
<1>1. CASE UNCHANGED investments
    BY <1>1
<1>2. CASE Relaunch
    BY <1>0, <1>2 DEF Relaunch, Durable
<1>3. CASE LoadFails \/ \E r \in DOMAIN rows : Scroll(r)
    BY <1>1, <1>3 DEF LoadFails, Scroll
<1>4. CASE PostReloadItems \/ TraitChange \/ DelayedReload \/ \E text \in SearchTexts : Search(text)
    BY <1>1, <1>4 DEF PostReloadItems, TraitChange, DelayedReload, Search
<1>5. ASSUME NEW r \in DOMAIN rows, NEW n \in 1..MaxAmount, TapStepper(r, n),
             rows[r].tag \in DOMAIN investments
      PROVE  \E j \in DOMAIN investments :
                 /\ investments'[i].item = investments[j].item
                 /\ Price(investments'[i]) = Price(investments[j])
    <2> DEFINE t == rows[r].tag
    <2>1. investments' = [investments EXCEPT ![t].quantity = n]
        BY <1>5 DEF TapStepper, saveInvestmentsData
    <2>2. i \in DOMAIN investments /\ investments[i] \in investmentItem
        BY <1>0, <2>1
    <2>3. /\ investments'[i].item = investments[i].item
          /\ investments'[i].colour = investments[i].colour
          /\ investments'[i].platform = investments[i].platform
        BY <2>1, <2>2 DEF investmentItem
    <2> QED
        BY <2>2, <2>3 DEF Price
<1>6. CASE AddButton
    <2> DEFINE v == [item |-> form.item, colour |-> form.colour, quantity |-> form.amount,
                     boughtFor |-> form.boughtFor, platform |-> form.platform, id |-> form.id]
    <2>1. \/ form.editing /\ investments' = [investments EXCEPT ![cellTag] = v]
          \/ ~form.editing /\ investments' = Append(investments, v)
        BY <1>6 DEF AddButton, saveInvestmentsData
    <2>2. v.item = form.item /\ Price(v) = Price(form)
        BY DEF Price
    <2> HIDE DEF v
    <2>3. investments'[i] = v \/ (i \in DOMAIN investments /\ investments'[i] = investments[i])
        BY <1>0, <2>1
    <2> QED
        BY <1>6, <2>2, <2>3
<1>7. CASE ConfirmDelete
    <2>1. CorrectedTag \in DOMAIN investments /\ investments' = RemoveAt(investments, CorrectedTag)
        BY <1>7 DEF ConfirmDelete, saveInvestmentsData
    <2>2. PICK k \in DOMAIN investments : investments' = RemoveAt(investments, k)
        BY <2>1
    <2>3. /\ investments' \in Seq(investmentItem) /\ Len(investments') = Len(investments) - 1
          /\ \A j \in 1..(Len(investments) - 1) :
                investments'[j] = IF j < k THEN investments[j] ELSE investments[j + 1]
        BY <1>0, <2>2, RemoveAtProperties
    <2>4. /\ Len(investments) \in Nat /\ DOMAIN investments = 1..Len(investments)
          /\ i \in 1..(Len(investments) - 1)
        BY <1>0, <2>3
    <2>5. i \in DOMAIN investments /\ i + 1 \in DOMAIN investments
        BY <2>4
    <2> QED
        BY <2>3, <2>4, <2>5
<1> QED
    BY <1>0, <1>1, <1>2, <1>3, <1>4, <1>5, <1>6, <1>7, StepKinds DEF ReloadStep

\* The prices of the portfolio stay those of the catalogue.
LEMMA PricesStep ==
    ASSUME Inv, IInv', Next
    PROVE  PricesCurrent'
<1> USE DEF disk, model, table, dialog, queue
<1>0. /\ IInv /\ PricesCurrent /\ FormCurrent /\ NothingYet
      /\ investments \in Seq(investmentItem)
    BY DEF Inv, JInv, IInv, TypeOK
<1>1. ASSUME NEW cat \in Catalogues, ApplyPrices(cat) PROVE PricesCurrent'
    <2>1. cat \in Seq(decodingitem)
        BY CataloguesAssumption
    <2>2. items' = cat /\ investments' = Refresh(investments, cat)
        BY <1>1 DEF ApplyPrices, saveInvestmentsData
    <2>3. /\ DOMAIN investments' = DOMAIN investments
          /\ \A i \in DOMAIN investments : CurrentIn(investments'[i].item, cat)
        BY <1>0, <2>1, <2>2, RefreshProperties DEF Repriced
    <2> QED
        BY <2>2, <2>3 DEF PricesCurrent, CurrentIn
<1>2. CASE Relaunch \/ LoadFails
    BY <1>2 DEF Relaunch, LoadFails, PricesCurrent
<1>3. CASE /\ items' = items /\ (load' \in {"posting", "done"} => load \in {"posting", "done"})
           /\ ~\E cat \in Catalogues : ApplyPrices(cat)
    <2> SUFFICES ASSUME load' \in {"posting", "done"}, NEW i \in DOMAIN investments'
                 PROVE  Current(investments'[i].item)
        BY <1>3 DEF PricesCurrent, Current, CurrentIn
    <2>1. load \in {"posting", "done"}
        BY <1>3
    <2>2. ASSUME NEW j \in DOMAIN investments PROVE Current(investments[j].item)
        BY <1>0, <2>1 DEF PricesCurrent, Current, CurrentIn
    <2>3. ASSUME AddButton PROVE Current(form.item)
        BY <1>0, <2>1, <2>3 DEF AddButton, Refused, FormCurrent, SheetOpen
    <2> QED
        BY <1>3, <2>2, <2>3, Origin
<1>4. \/ Relaunch \/ LoadFails
      \/ \E cat \in Catalogues : ApplyPrices(cat)
      \/ items' = items /\ (load' \in {"posting", "done"} => load \in {"posting", "done"})
    <2>1. CASE ReloadStep
        <3>1. CASE PostReloadItems
            BY <3>1 DEF PostReloadItems
        <3>2. CASE TraitChange \/ DelayedReload \/ \E text \in SearchTexts : Search(text)
            BY <3>2 DEF TraitChange, DelayedReload, Search
        <3>3. CASE \E r \in DOMAIN rows, n \in 1..MaxAmount : TapStepper(r, n)
            BY <3>3 DEF TapStepper
        <3>4. CASE AddButton \/ ConfirmDelete
            BY <3>4 DEF AddButton, ConfirmDelete
        <3> QED
            BY <2>1, <3>1, <3>2, <3>3, <3>4 DEF ReloadStep
    <2>2. CASE \E r \in DOMAIN rows : Scroll(r)
        BY <2>2 DEF Scroll
    <2>3. CASE ConfirmDelete
        BY <2>3 DEF ConfirmDelete
    <2> QED
        BY <1>0, <2>1, <2>2, <2>3, StepKinds
<1> QED
    BY <1>1, <1>2, <1>3, <1>4

\* The conjuncts of JInv about the sheet and the dialogs.
DialogInv == NothingYet /\ HiddenEmpty /\ FormCurrent /\ FreshID /\ NoneAimed /\ Aimed

\* The row pressed on a settled table is that of the investment at its tag.
LEMMA SettledPress ==
    ASSUME Inv, Running, NEW r \in DOMAIN rows, delayed = 0
    PROVE  /\ r \in DOMAIN investmentFilteredData
           /\ rows[r].tag \in DOMAIN investments
           /\ investments[rows[r].tag].id = rows[r].id
           /\ rows[r].quantity = investmentFilteredData[r].quantity
           /\ investmentFilteredData[r] = investments[rows[r].tag]
<1>1. /\ TagsDrift /\ TableInSync /\ HiddenEmpty /\ FilteredWithin
      /\ investments \in Seq(investmentItem) /\ rows \in Seq(Cell) /\ Distinct(investments)
    BY DEF Inv, IInv, JInv, TypeOK, UniqueIDs, Distinct
<1>2. tableShown
    <2>1. rows # <<>>
        OBVIOUS
    <2> QED
        BY <1>1, <2>1 DEF HiddenEmpty
<1>3. r \in DOMAIN investmentFilteredData /\ rows[r].id = investmentFilteredData[r].id
      /\ rows[r].quantity = investmentFilteredData[r].quantity
    BY <1>1, <1>2 DEF TableInSync
<1>4. PICK j \in DOMAIN investments : investmentFilteredData[r] = investments[j]
    BY <1>1, <1>3 DEF FilteredWithin, Within
<1>5. Position(investments, rows[r].id) = j
    BY <1>1, <1>3, <1>4, PositionOf
<1>6. rows[r] \in Cell /\ j \in Nat
    BY <1>1
<1>7. rows[r].tag - j \in 0..0 /\ rows[r].tag \in Nat
    BY <1>1, <1>5, <1>6 DEF TagsDrift, Cell
<1>8. rows[r].tag = j
    BY <1>6, <1>7
<1> QED
    BY <1>3, <1>4, <1>8

\* The steps of the dialogs.
LEMMA DialogSteps ==
    ASSUME Inv, IInv', DialogStep, Running,
           UNCHANGED <<investments, investmentFilteredData, rows, tableShown, load, items, delayed>>
    PROVE  DialogInv'
<1> USE DEF SheetOpen
<1>0. /\ IInv /\ TypeOK /\ SheetFilled /\ PricesCurrent
      /\ NothingYet /\ HiddenEmpty /\ FormCurrent /\ FreshID /\ NoneAimed /\ Aimed
    BY DEF Inv, IInv, JInv
<1>1. ASSUME ~SheetOpen', screen' # "confirm", screen' \in {"list", "total"} => aim' = NoAim
      PROVE  DialogInv'
    BY <1>0, <1>1 DEF DialogInv, NothingYet, HiddenEmpty, FormCurrent, FreshID, NoneAimed, Aimed
<1>2. ASSUME SheetOpen, SheetOpen', form'.editing = form.editing, form'.id = form.id,
             \/ form'.item = form.item
             \/ form'.item \in Range(items) /\ items # <<>>
      PROVE  DialogInv'
    <2>1. NothingYet' /\ HiddenEmpty' /\ FreshID' /\ NoneAimed' /\ Aimed'
        BY <1>0, <1>2 DEF NothingYet, HiddenEmpty, FreshID, NoneAimed, Aimed
    <2>2. FormCurrent'
        BY <1>0, <1>2 DEF FormCurrent, Current, CurrentIn
    <2> QED
        BY <2>1, <2>2 DEF DialogInv
<1>3. CASE LoadNotString
    BY <1>0, <1>3 DEF LoadNotString, dialog, queue, DialogInv, NothingYet, HiddenEmpty,
        FormCurrent, Current, CurrentIn, FreshID, NoneAimed, Aimed
<1>4. ASSUME NEW r \in DOMAIN rows, TapDelete(r) PROVE DialogInv'
    <2>1. /\ screen' = "confirm" /\ cellTag' = rows[r].tag
          /\ aim' = [id |-> rows[r].id, settled |-> delayed = 0]
        BY <1>4 DEF TapDelete, Press, AimAt
    <2>2. rows[r].id \in Nat
        <3>1. rows[r] \in Cell
            BY <1>0 DEF TypeOK
        <3> QED
            BY <3>1 DEF Cell
    <2>3. aim' # NoAim
        <3>1. (delayed = 0) \in BOOLEAN
            OBVIOUS
        <3>2. [id |-> rows[r].id, settled |-> delayed = 0] \in [id : Nat, settled : BOOLEAN]
            BY <2>2, <3>1, Zenon
        <3> QED
            BY <2>1, <3>2, AimAssumption, Zenon
    <2>4. tableShown
        <3>1. rows # <<>>
            BY <1>0 DEF TypeOK
        <3> QED
            BY <1>0, <3>1 DEF HiddenEmpty
    <2>5. aim'.settled => delayed = 0
        BY <2>1
    <2>6. ASSUME delayed = 0
          PROVE  /\ cellTag' \in DOMAIN investments /\ investments[cellTag'].id = aim'.id
                 /\ investmentFilteredData # <<>>
        <3>1. /\ rows[r].tag \in DOMAIN investments /\ investments[rows[r].tag].id = rows[r].id
              /\ r \in DOMAIN investmentFilteredData
            BY <2>6, SettledPress
        <3> QED
            BY <2>1, <3>1
    <2>7. Aimed' /\ NoneAimed' /\ HiddenEmpty'
        BY <2>1, <2>3, <2>4, <2>5, <2>6 DEF Aimed, NoneAimed, HiddenEmpty
    <2>8. NothingYet' /\ FormCurrent' /\ FreshID'
        BY <1>0, <2>1 DEF NothingYet, FormCurrent, FreshID
    <2> QED
        BY <2>7, <2>8 DEF DialogInv
<1>5. ASSUME NEW r \in DOMAIN rows, TapEdit(r), rows[r].tag \in DOMAIN investments PROVE DialogInv'
    <2> DEFINE v == investments[rows[r].tag]
    <2>1. /\ screen' = "form" /\ form' = editInvestment(v)
        BY <1>5 DEF TapEdit, Press
    <2>2. form'.editing /\ form'.item = v.item
        BY <2>1 DEF editInvestment
    <2>3. tableShown
        <3>1. rows # <<>>
            BY <1>0 DEF TypeOK
        <3> QED
            BY <1>0, <3>1 DEF HiddenEmpty
    <2>4. load \in {"posting", "done"}
        BY <1>0, <2>3 DEF NothingYet, TypeOK
    <2>5. Current(v.item)
        BY <1>0, <1>5, <2>4 DEF PricesCurrent, Current, CurrentIn
    <2>6. FormCurrent'
        BY <2>2, <2>5 DEF FormCurrent, Current, CurrentIn
    <2>7. NothingYet' /\ HiddenEmpty' /\ FreshID' /\ NoneAimed' /\ Aimed'
        BY <1>0, <2>1, <2>2, <2>3, <2>4 DEF NothingYet, HiddenEmpty, FreshID, NoneAimed, Aimed
    <2> QED
        BY <2>6, <2>7 DEF DialogInv
<1>6. ASSUME NEW r \in DOMAIN rows, TapChart(r), screen' = "chart" PROVE DialogInv'
    BY <1>1, <1>6 DEF TapChart, Press
<1>7. CASE CancelDelete \/ CloseChart
    BY <1>1, <1>7 DEF CancelDelete, CloseChart
<1>8. CASE CloseTotal \/ (ShowTotal /\ screen' = "total")
    BY <1>0, <1>1, <1>8 DEF CloseTotal, ShowTotal, NoneAimed
<1>9. ASSUME NEW platform \in Platforms, AddNew(platform) PROVE DialogInv'
    <2>1. /\ screen' = "form" /\ ~form'.editing /\ form'.item = NoItem
          /\ form'.id = investmentID(investments)
        BY <1>9 DEF AddNew
    <2>2. \A n \in IDs(investments) : n < form'.id
        BY <1>0, <2>1, InvestmentIDProperties DEF TypeOK
    <2> QED
        BY <1>0, <2>1, <2>2 DEF DialogInv, NothingYet, HiddenEmpty, FormCurrent, FreshID, NoneAimed,
            Aimed
<1>10. ASSUME NEW f, EditForm(f),
              form \in Form => /\ f.editing = form.editing /\ f.id = form.id
                               /\ \/ f.item = form.item
                                  \/ f.item \in Range(items) /\ items # <<>>
       PROVE  DialogInv'
    BY <1>0, <1>2, <1>10 DEF EditForm, SheetFilled
<1>11. CASE \E platform \in Platforms : PickPlatform(platform)
    <2>1. PICK platform \in Platforms : PickPlatform(platform)
        BY <1>11
    <2> DEFINE f == [form EXCEPT !.platform = platform]
    <2>2. form \in Form => f.editing = form.editing /\ f.id = form.id /\ f.item = form.item
        BY DEF Form
    <2>3. EditForm(f)
        BY <2>1 DEF PickPlatform
    <2> HIDE DEF f
    <2> QED
        BY <1>10, <2>2, <2>3
<1>12. ASSUME NEW i \in DOMAIN items, PickItem(items[i]) PROVE DialogInv'
    <2> DEFINE f == [form EXCEPT !.item = items[i], !.colour = DefaultColour, !.blank = FALSE]
    <2>1. form \in Form => f.editing = form.editing /\ f.id = form.id /\ f.item = items[i]
        BY DEF Form
    <2>2. items[i] \in Range(items) /\ items # <<>>
        BY <1>0 DEF Range, TypeOK
    <2>3. EditForm(f)
        BY <1>12 DEF PickItem
    <2> HIDE DEF f
    <2> QED
        BY <1>10, <2>1, <2>2, <2>3
<1>13. ASSUME NEW colour \in Colours, PickColour(colour) PROVE DialogInv'
    <2> DEFINE f == [form EXCEPT !.colour = colour, !.blank = FALSE]
    <2>1. form \in Form => f.editing = form.editing /\ f.id = form.id /\ f.item = form.item
        BY DEF Form
    <2>2. EditForm(f)
        BY <1>13 DEF PickColour
    <2> HIDE DEF f
    <2> QED
        BY <1>10, <2>1, <2>2
<1>14. ASSUME NEW n \in 1..MaxAmount, StepAmount(n) PROVE DialogInv'
    <2> DEFINE f == [form EXCEPT !.amount = n]
    <2>1. form \in Form => f.editing = form.editing /\ f.id = form.id /\ f.item = form.item
        BY DEF Form
    <2>2. EditForm(f)
        BY <1>14 DEF StepAmount
    <2> HIDE DEF f
    <2> QED
        BY <1>10, <2>1, <2>2
<1>15. ASSUME NEW text \in TypedPrices, TypePrice(text) PROVE DialogInv'
    <2> DEFINE f == [form EXCEPT !.boughtFor = integerValue(text), !.blank = text = Blank]
    <2>1. form \in Form => f.editing = form.editing /\ f.id = form.id /\ f.item = form.item
        BY DEF Form
    <2>2. EditForm(f)
        BY <1>15 DEF TypePrice
    <2> HIDE DEF f
    <2> QED
        BY <1>10, <2>1, <2>2
<1>16. CASE AddButtonRefused \/ DismissRefusal
    BY <1>2, <1>16 DEF AddButtonRefused, DismissRefusal
<1>17. CASE CancelForm
    BY <1>1, <1>17 DEF CancelForm
<1> QED
    BY <1>3, <1>4, <1>5, <1>6, <1>7, <1>8, <1>9, <1>11, <1>12, <1>13, <1>14, <1>15, <1>16, <1>17
    DEF DialogStep

\* The other steps: a trap, the load, a launch and what lays out the table.
LEMMA OtherSteps ==
    ASSUME Inv, IInv', Next, ~DialogStep
    PROVE  DialogInv'
<1> USE DEF disk, model, table, dialog, queue, SheetOpen, Running
<1>0. /\ IInv /\ TypeOK /\ SheetFilled
      /\ NothingYet /\ HiddenEmpty /\ FormCurrent /\ FreshID /\ NoneAimed /\ Aimed
      /\ investmentFilteredData' \in Seq(investmentItem) /\ tableShown' \in BOOLEAN
    BY DEF Inv, IInv, JInv, TypeOK
<1>1. ASSUME screen' = "list", aim' = NoAim, ~tableShown' => rows' = <<>>,
             load' \in {"waiting", "failed"} => items' = <<>> /\ ~tableShown'
      PROVE  DialogInv'
    BY <1>1 DEF DialogInv, NothingYet, HiddenEmpty, FormCurrent, FreshID, NoneAimed, Aimed
<1>2. CASE TrapStep /\ rows' = <<>> /\ UNCHANGED <<tableShown, load, items>>
    <2>1. CASE ConfirmDeleteTraps
        BY <1>0, <1>1, <1>2, <2>1 DEF ConfirmDeleteTraps, NothingYet
    <2>2. ASSUME screen = "list", screen' = "list", UNCHANGED aim PROVE DialogInv'
        BY <1>0, <1>1, <1>2, <2>2 DEF NothingYet, NoneAimed
    <2>3. ASSUME NEW r \in DOMAIN rows, TapEdit(r) PROVE DialogInv'
        <3>1. CASE rows[r].tag \in DOMAIN investments
            BY <2>3, <3>1 DEF DialogStep
        <3>2. CASE rows[r].tag \notin DOMAIN investments
            BY <2>2, <2>3, <3>2 DEF TapEdit, Press
        <3> QED
            BY <3>1, <3>2
    <2>4. ASSUME NEW r \in DOMAIN rows, TapChart(r) PROVE DialogInv'
        <3>1. CASE screen' = "chart"
            BY <2>4, <3>1 DEF DialogStep
        <3>2. CASE screen' # "chart"
            BY <2>2, <2>4, <3>2 DEF TapChart, Press
        <3> QED
            BY <3>1, <3>2
    <2>5. CASE \E r \in DOMAIN rows, n \in 1..MaxAmount : TapStepper(r, n)
        BY <2>2, <2>5 DEF TapStepper, Press
    <2>6. CASE ShowTotal
        <3>1. screen' # "total"
            BY <2>6 DEF DialogStep
        <3> QED
            BY <2>2, <2>6, <3>1 DEF ShowTotal
    <2> QED
        BY <1>2, <2>1, <2>3, <2>4, <2>5, <2>6 DEF TrapStep
<1>3. CASE LoadFails
    BY <1>0, <1>3 DEF LoadFails, DialogInv, NothingYet, HiddenEmpty, FormCurrent, FreshID,
        NoneAimed, Aimed
<1>4. CASE Relaunch
    BY <1>1, <1>4 DEF Relaunch
<1>5. ASSUME NEW cat \in Catalogues, ApplyPrices(cat) PROVE DialogInv'
    <2>1. /\ load = "waiting" /\ load' = "posting"
          /\ UNCHANGED <<rows, tableShown, screen, form, cellTag, aim>>
          /\ investments' = Refresh(investments, cat)
        BY <1>5 DEF ApplyPrices, saveInvestmentsData
    <2>2. cat \in Seq(decodingitem)
        BY CataloguesAssumption
    <2>3. IDs(investments') = IDs(investments)
        BY <1>0, <2>1, <2>2, RefreshProperties, SameIDs DEF TypeOK
    <2>4. NothingYet' /\ HiddenEmpty' /\ FreshID' /\ NoneAimed'
        BY <1>0, <2>1, <2>3 DEF NothingYet, HiddenEmpty, FreshID, NoneAimed
    <2>5. FormCurrent' /\ Aimed'
        BY <1>0, <2>1 DEF NothingYet, HiddenEmpty, FormCurrent, Aimed
    <2> QED
        BY <2>4, <2>5 DEF DialogInv
<1>6. ASSUME NEW r \in DOMAIN rows, Scroll(r) PROVE DialogInv'
    <2>1. /\ tableShown' = tableShown /\ screen = "list" /\ screen' = "list" /\ aim' = aim
          /\ UNCHANGED <<load, items>>
        BY <1>6 DEF Scroll
    <2>2. tableShown
        <3>1. rows # <<>>
            BY <1>0 DEF TypeOK
        <3> QED
            BY <1>0, <3>1 DEF HiddenEmpty
    <2> QED
        BY <1>0, <1>1, <2>1, <2>2 DEF NothingYet, NoneAimed
<1>7. ASSUME ReloadStep, reloadData(investmentFilteredData', investments', tableShown')
      PROVE  DialogInv'
    <2>0. ~tableShown' => rows' = <<>>
        BY <1>0, <1>7, Reloaded
    <2>1. CASE PostReloadItems
        <3>1. /\ load = "posting" /\ load' = "done" /\ tableShown' = TRUE
              /\ UNCHANGED <<investments, screen, form, cellTag, aim, items>>
              /\ investmentFilteredData' = investments
            BY <2>1 DEF PostReloadItems, reloadTableView
        <3>2. NothingYet' /\ HiddenEmpty' /\ FreshID' /\ NoneAimed'
            BY <1>0, <3>1 DEF NothingYet, HiddenEmpty, FreshID, NoneAimed
        <3>3. FormCurrent'
            BY <1>0, <3>1 DEF FormCurrent, Current
        <3>4. Aimed'
            BY <1>0, <3>1 DEF Aimed
        <3> QED
            BY <3>2, <3>3, <3>4 DEF DialogInv
    <2>2. CASE TraitChange \/ DelayedReload
        <3>1. UNCHANGED <<investments, investmentFilteredData, tableShown, screen, form, cellTag, aim, load, items>>
            BY <2>2 DEF TraitChange, DelayedReload
        <3>2. NothingYet' /\ HiddenEmpty' /\ FreshID' /\ NoneAimed' /\ Aimed'
            BY <1>0, <2>0, <3>1 DEF NothingYet, HiddenEmpty, FreshID, NoneAimed, Aimed
        <3>3. FormCurrent'
            BY <1>0, <3>1 DEF FormCurrent, Current
        <3> QED
            BY <3>2, <3>3 DEF DialogInv
    <2>3. ASSUME screen = "list", screen' = "list", UNCHANGED <<aim, tableShown, load, items>>
          PROVE  DialogInv'
        BY <1>0, <1>1, <2>0, <2>3 DEF NothingYet, NoneAimed
    <2>4. CASE \E text \in SearchTexts : Search(text)
        BY <2>3, <2>4 DEF Search
    <2>5. CASE \E r \in DOMAIN rows, n \in 1..MaxAmount : TapStepper(r, n)
        BY <2>3, <2>5 DEF TapStepper, Press
    <2>6. CASE AddButton
        <3>1. /\ screen' = "list" /\ aim' = NoAim /\ tableShown' /\ UNCHANGED load
              /\ SheetOpen /\ form.item # NoItem
            BY <2>6 DEF AddButton, reloadTableView, Refused
        <3> QED
            BY <1>0, <1>1, <3>1 DEF NothingYet
    <2>7. CASE ConfirmDelete
        BY <1>0, <1>1, <2>0, <2>7 DEF ConfirmDelete, NothingYet
    <2> QED
        BY <1>7, <2>1, <2>2, <2>4, <2>5, <2>6, <2>7 DEF ReloadStep
<1>8. CASE ConfirmDelete
    <2>1. /\ screen = "confirm" /\ screen' = "list" /\ aim' = NoAim
          /\ UNCHANGED <<tableShown, load, items>>
        BY <1>8 DEF ConfirmDelete
    <2> QED
        BY <1>0, <1>1, <2>1 DEF NothingYet, HiddenEmpty
<1> QED
    BY <1>0, <1>2, <1>3, <1>4, <1>5, <1>6, <1>7, <1>8, StepKinds

\* A step of a dialog leaves the lists and the rows alone.
LEMMA DialogKeeps ==
    ASSUME DialogStep
    PROVE  /\ Running
           /\ UNCHANGED <<investments, investmentFilteredData, rows, tableShown, load, items, delayed>>
           /\ trap' # "none" => load = "waiting"
<1> USE DEF disk, model, table, dialog, queue, Running
<1>1. CASE LoadNotString \/ \E r \in DOMAIN rows : TapDelete(r)
    BY <1>1 DEF LoadNotString, TapDelete, Press
<1>2. CASE \E r \in DOMAIN rows : TapEdit(r) /\ rows[r].tag \in DOMAIN investments
    BY <1>2 DEF TapEdit, Press
<1>3. CASE \E r \in DOMAIN rows : TapChart(r) /\ screen' = "chart"
    BY <1>3 DEF TapChart, Press
<1>4. CASE CancelDelete \/ CloseChart \/ CloseTotal
    BY <1>4 DEF CancelDelete, CloseChart, CloseTotal
<1>5. CASE ShowTotal /\ screen' = "total"
    BY <1>5 DEF ShowTotal
<1>6. CASE \E platform \in Platforms : AddNew(platform)
    BY <1>6 DEF AddNew
<1>7. CASE \/ \E platform \in Platforms : PickPlatform(platform)
           \/ \E i \in DOMAIN items : PickItem(items[i])
           \/ \E colour \in Colours : PickColour(colour)
           \/ \E n \in 1..MaxAmount : StepAmount(n)
           \/ \E text \in TypedPrices : TypePrice(text)
    <2>1. \E f : EditForm(f)
        BY <1>7 DEF PickPlatform, PickItem, PickColour, StepAmount, TypePrice
    <2> QED
        BY <2>1 DEF EditForm
<1>8. CASE AddButtonRefused \/ DismissRefusal \/ CancelForm
    BY <1>8 DEF AddButtonRefused, DismissRefusal, CancelForm
<1> QED
    BY <1>1, <1>2, <1>3, <1>4, <1>5, <1>6, <1>7, <1>8 DEF DialogStep

\* Every step keeps both invariants.
LEMMA NextInv == Inv /\ [Next]_vars => Inv'
<1> SUFFICES ASSUME Inv, [Next]_vars PROVE Inv'
    OBVIOUS
<1>1. IInv'
    BY NextIInv DEF Inv
<1>2. CASE Next
    <2>1. FilteredIsView' /\ TableInSync' /\ TagsDrift' /\ ListComplete' /\ PricesCurrent'
        BY <1>1, <1>2, ViewStep, SyncStep, DriftStep, CompleteStep, PricesStep
    <2>2. ASSUME DialogStep PROVE DialogInv'
        BY <1>1, <2>2, DialogKeeps, DialogSteps
    <2>3. ASSUME ~DialogStep PROVE DialogInv'
        BY <1>1, <1>2, <2>3, OtherSteps
    <2> QED
        BY <1>1, <2>1, <2>2, <2>3 DEF Inv, JInv, DialogInv
<1>3. CASE UNCHANGED vars
    <2>1. /\ UNCHANGED <<investments, investmentFilteredData, items, cellTag, searchText>>
          /\ UNCHANGED <<rows, tableShown, screen, form, load, delayed, trap, aim>>
        BY <1>3 DEF vars, disk, model, table, dialog, queue
    <2>2. FilteredIsView' /\ TableInSync' /\ TagsDrift' /\ ListComplete' /\ PricesCurrent'
        BY <2>1 DEF Inv, JInv, FilteredIsView, TableInSync, TagsDrift, ListComplete,
            PricesCurrent, Running
    <2>3. /\ NothingYet' /\ HiddenEmpty' /\ FormCurrent' /\ FreshID' /\ NoneAimed' /\ Aimed'
        BY <2>1 DEF Inv, JInv, NothingYet, HiddenEmpty, FormCurrent, Current, FreshID,
            NoneAimed, Aimed, SheetOpen
    <2> QED
        BY <1>1, <2>2, <2>3 DEF Inv, JInv
<1> QED
    BY <1>2, <1>3

-----------------------------------------------------------------------------
(* What a step may do *)

\* Removing an investment removes its id and no other.
LEMMA RemovedID ==
    ASSUME NEW invs \in Seq(investmentItem), Distinct(invs), NEW k \in DOMAIN invs
    PROVE  IDs(RemoveAt(invs, k)) = IDs(invs) \ {invs[k].id}
<1> DEFINE n == Len(invs)
           left == RemoveAt(invs, k)
<1>1. n \in Nat /\ DOMAIN invs = 1..n /\ k \in 1..n
    OBVIOUS
<1>2. /\ left \in Seq(investmentItem) /\ Len(left) = n - 1
      /\ \A i \in 1..(n - 1) : left[i] = IF i < k THEN invs[i] ELSE invs[i + 1]
    BY RemoveAtProperties
<1> HIDE DEF n, left
<1>3. DOMAIN left = 1..(n - 1)
    BY <1>2
<1>4. ASSUME NEW i \in 1..(n - 1)
      PROVE  \E j \in 1..n : j # k /\ left[i] = invs[j]
    <2>1. CASE i < k
        <3>1. i \in 1..n /\ i # k /\ left[i] = invs[i]
            BY <1>1, <1>2, <2>1
        <3> QED
            BY <3>1
    <2>2. CASE ~(i < k)
        <3>1. i + 1 \in 1..n /\ i + 1 # k /\ left[i] = invs[i + 1]
            BY <1>1, <1>2, <2>2
        <3> QED
            BY <3>1
    <2> QED
        BY <2>1, <2>2
<1>5. ASSUME NEW j \in 1..n, j # k
      PROVE  \E i \in 1..(n - 1) : left[i] = invs[j]
    <2>1. CASE j < k
        <3>1. j \in 1..(n - 1) /\ left[j] = invs[j]
            BY <1>1, <1>2, <2>1
        <3> QED
            BY <3>1
    <2>2. CASE ~(j < k)
        <3>1. j - 1 \in 1..(n - 1) /\ ~(j - 1 < k) /\ (j - 1) + 1 = j
            BY <1>1, <1>5, <2>2
        <3>2. left[j - 1] = invs[j]
            BY <1>2, <3>1
        <3> QED
            BY <3>1, <3>2
    <2> QED
        BY <2>1, <2>2
<1>6. IDs(left) \subseteq IDs(invs) \ {invs[k].id}
    BY <1>1, <1>3, <1>4 DEF IDs, Distinct
<1>7. IDs(invs) \ {invs[k].id} \subseteq IDs(left)
    BY <1>1, <1>3, <1>5 DEF IDs
<1> QED
    BY <1>6, <1>7 DEF left

\* Steps by what they do to the portfolio.
LEMMA PortfolioSteps ==
    ASSUME Inv, Next
    PROVE  \/ UNCHANGED investments
           \/ \E cat \in Catalogues : ApplyPrices(cat)
           \/ \E r \in DOMAIN rows, n \in 1..MaxAmount :
                 TapStepper(r, n) /\ rows[r].tag \in DOMAIN investments
           \/ AddButton
           \/ ConfirmDelete
<1> USE DEF disk, model, table, dialog, queue
<1>0. IInv /\ Durable
    BY DEF Inv, IInv
<1>1. CASE LoadFails \/ \E r \in DOMAIN rows : Scroll(r)
    BY <1>1 DEF LoadFails, Scroll
<1>2. CASE Relaunch
    BY <1>0, <1>2 DEF Relaunch, Durable
<1>3. CASE ReloadStep
    <2>1. CASE PostReloadItems \/ TraitChange \/ DelayedReload \/ \E text \in SearchTexts : Search(text)
        BY <2>1 DEF PostReloadItems, TraitChange, DelayedReload, Search
    <2> QED
        BY <1>3, <2>1 DEF ReloadStep
<1> QED
    BY <1>0, <1>1, <1>2, <1>3, StepKinds

\* The handler's correction leaves a tag alone that is in range.
LEMMA CorrectedTagInRange ==
    ASSUME investments \in Seq(investmentItem), cellTag \in DOMAIN investments
    PROVE  CorrectedTag = cellTag
<1>1. Len(investments) \in Nat /\ cellTag \in 1..Len(investments)
    OBVIOUS
<1> QED
    BY <1>1 DEF CorrectedTag

\* Only a confirmed deletion makes the portfolio shorter, and on a settled
\* table it takes the investment of the row pressed.
LEMMA DeletesAimedStep ==
    ASSUME Inv, IInv', Next, Settled, Len(investments') < Len(investments)
    PROVE  IDs(investments') = IDs(investments) \ {aim.id}
<1>0. /\ IInv /\ Aimed /\ EditTarget /\ SheetFilled
      /\ investments \in Seq(investmentItem) /\ Distinct(investments)
      /\ investments' \in Seq(investmentItem)
    BY DEF Inv, IInv, JInv, TypeOK, UniqueIDs, Distinct
<1>1. Len(investments) \in Nat /\ Len(investments') \in Nat
    BY <1>0
<1>2. ConfirmDelete
    <2>1. CASE DOMAIN investments' = DOMAIN investments
        <3>1. Len(investments') = Len(investments)
            BY <1>0, <2>1
        <3> QED
            BY <1>1, <3>1
    <2>2. CASE UNCHANGED investments
        BY <2>1, <2>2
    <2>3. ASSUME NEW cat \in Catalogues, ApplyPrices(cat) PROVE FALSE
        <3>1. cat \in Seq(decodingitem) /\ investments' = Refresh(investments, cat)
            BY <2>3, CataloguesAssumption DEF ApplyPrices, saveInvestmentsData
        <3>2. DOMAIN investments' = DOMAIN investments
            BY <1>0, <3>1, RefreshProperties
        <3>3. Len(investments') = Len(investments)
            BY <1>0, <3>2
        <3> QED
            BY <1>1, <3>3
    <2>4. ASSUME NEW r \in DOMAIN rows, NEW n \in 1..MaxAmount, TapStepper(r, n),
                 rows[r].tag \in DOMAIN investments
          PROVE  FALSE
        <3>1. investments' = [investments EXCEPT ![rows[r].tag].quantity = n]
            BY <2>4 DEF TapStepper, saveInvestmentsData
        <3>2. Len(investments') = Len(investments)
            BY <1>0, <3>1
        <3> QED
            BY <1>1, <3>2
    <2>5. ASSUME AddButton PROVE FALSE
        <3>1. \E v : \/ investments' = [investments EXCEPT ![cellTag] = v]
                     \/ investments' = Append(investments, v)
            BY <2>5 DEF AddButton, saveInvestmentsData
        <3>2. \/ Len(investments') = Len(investments)
              \/ Len(investments') = Len(investments) + 1
            BY <1>0, <3>1
        <3> QED
            BY <1>1, <3>2
    <2> QED
        BY <2>1, <2>2, <2>3, <2>4, <2>5, PortfolioSteps
<1>3. screen = "confirm" /\ investments' = RemoveAt(investments, CorrectedTag)
    BY <1>2 DEF ConfirmDelete, saveInvestmentsData
<1>4. cellTag \in DOMAIN investments /\ investments[cellTag].id = aim.id
    BY <1>0, <1>3 DEF Aimed, Settled
<1>5. CorrectedTag = cellTag
    BY <1>0, <1>4, CorrectedTagInRange
<1> QED
    BY <1>0, <1>3, <1>4, <1>5, RemovedID

\* On a settled table a stepper writes to the investment its row shows.
LEMMA StepsByOneStep ==
    ASSUME Inv, Next, screen = "list", Settled, load' = load,
           NEW i \in DOMAIN investments, investments'[i] # investments[i]
    PROVE  \E r \in DOMAIN rows, d \in {-1, 1} :
               /\ rows[r].id = investments[i].id
               /\ investments' = [investments EXCEPT ![i].quantity = rows[r].quantity + d]
<1>0. IInv /\ NoneAimed /\ investments \in Seq(investmentItem) /\ rows \in Seq(Cell)
    BY DEF Inv, IInv, JInv, TypeOK
<1>1. delayed = 0
    BY <1>0 DEF NoneAimed, Settled
<1>2. PICK r \in DOMAIN rows, n \in 1..MaxAmount :
          TapStepper(r, n) /\ rows[r].tag \in DOMAIN investments
    BY PortfolioSteps DEF ApplyPrices, AddButton, ConfirmDelete
<1> DEFINE t == rows[r].tag
<1>3. /\ investments' = [investments EXCEPT ![t].quantity = n] /\ trap = "none"
      /\ n \in {rows[r].quantity - 1, rows[r].quantity + 1}
    BY <1>2 DEF TapStepper, Press, saveInvestmentsData, Running
<1>4. investments[t].id = rows[r].id
    BY <1>1, <1>3, SettledPress DEF Running
<1>5. i = t
    BY <1>3
<1>6. PICK d \in {-1, 1} : n = rows[r].quantity + d
    <2>1. rows[r] \in Cell
        BY <1>0
    <2>2. rows[r].quantity \in Int
        BY <2>1, NumbersAssumption DEF Cell
    <2> QED
        BY <1>3, <2>2
<1> QED
    BY <1>2, <1>3, <1>4, <1>5, <1>6

\* Only an arriving catalogue leaves an investment without a price.
LEMMA OnlyRefreshUnpricesStep ==
    ASSUME Inv, IInv', Next, load' = load, NEW i \in Unpriced(investments')
    PROVE  \E j \in Unpriced(investments) : investments[j].item = investments'[i].item
<1>1. i \in DOMAIN investments' /\ Price(investments'[i]) = NoPrice
    BY DEF Unpriced
<1>2. ~\E cat \in Catalogues : ApplyPrices(cat)
    BY DEF ApplyPrices
<1>3. AddButton => Price(form) # NoPrice
    BY DEF AddButton, Refused
<1> QED
    BY <1>1, <1>2, <1>3, Origin DEF Unpriced

\* A missing price stops the layout only when the portfolio had one already.
LEMMA NilStep ==
    ASSUME Inv, IInv', Next, ~\E cat \in Catalogues : ApplyPrices(cat),
           NEW r \in DOMAIN investmentFilteredData', Price(investmentFilteredData'[r]) = NoPrice
    PROVE  Unpriced(investments) # {}
<1>1. FilteredWithin'
    BY DEF IInv
<1>2. PICK i \in DOMAIN investments' : investmentFilteredData'[r] = investments'[i]
    BY <1>1 DEF FilteredWithin, Within
<1>3. AddButton => Price(form) # NoPrice
    BY DEF AddButton, Refused
<1>4. PICK j \in DOMAIN investments : Price(investments[j]) = NoPrice
    BY <1>2, <1>3, Origin
<1> QED
    BY <1>4 DEF Unpriced

\* The same of a step that leaves the data source alone.
LEMMA NilRow ==
    ASSUME IInv, NEW r \in DOMAIN investmentFilteredData,
           Price(investmentFilteredData[r]) = NoPrice
    PROVE  Unpriced(investments) # {}
<1>1. PICK i \in DOMAIN investments : investmentFilteredData[r] = investments[i]
    BY DEF IInv, FilteredWithin, Within
<1> QED
    BY <1>1 DEF Unpriced

\* The traps of laying out a row the data source has.
LEMMA RowTrapKinds ==
    ASSUME NEW f, NEW r \in DOMAIN f, NEW invs
    PROVE  /\ RowTrap(f, r, invs) \notin {"index", "rows", "url", "cast"}
           /\ RowTrap(f, r, invs) = "nil" => Price(f[r]) = NoPrice
           /\ RowTrap(f, r, invs) = "overflow" => TooLarge(f[r])
    BY DEF RowTrap, TooLarge

\* A row of the data source that is too large is an investment that is.
LEMMA LargeRow ==
    ASSUME IInv', NEW r \in DOMAIN investmentFilteredData', TooLarge(investmentFilteredData'[r])
    PROVE  \E i \in DOMAIN investments' : TooLarge(investments'[i])
<1>1. PICK i \in DOMAIN investments' : investmentFilteredData'[r] = investments'[i]
    BY DEF IInv, FilteredWithin, Within
<1> QED
    BY <1>1

\* The traps of the total's loop at the first row it cannot add.
LEMMA TotalTrapKinds ==
    ASSUME NEW f \in Seq(investmentItem), NEW i \in DOMAIN f,
           Summable(SubSeq(f, 1, i - 1)), ~Summable(SubSeq(f, 1, i))
    PROVE  /\ TotalRowTrap(f, i) \in {"nil", "overflow"}
           /\ TotalRowTrap(f, i) = "nil" => Price(f[i]) = NoPrice
           /\ TotalRowTrap(f, i) = "overflow" => TotalTooLarge(f)
<1>1. TotalRowTrap(f, i) \in {"nil", "overflow"}
    BY DEF TotalRowTrap
<1>2. TotalRowTrap(f, i) = "nil" => Price(f[i]) = NoPrice
    BY DEF TotalRowTrap
<1>3. ASSUME TotalRowTrap(f, i) = "overflow" PROVE TotalTooLarge(f)
    <2>1. CASE ~Fits(Spent(f, i))
        BY <2>1 DEF TotalTooLarge
    <2>2. ASSUME Price(f[i]) # NoPrice PROVE Unpriced(SubSeq(f, 1, i)) = {}
        <3> DEFINE g == SubSeq(f, 1, i)
                   h == SubSeq(f, 1, i - 1)
        <3>1. /\ DOMAIN g = 1..i /\ DOMAIN h = 1..(i - 1)
              /\ \A k \in 1..i : g[k] = f[k]
              /\ \A k \in 1..(i - 1) : h[k] = f[k]
            OBVIOUS
        <3>2. \A k \in DOMAIN h : Price(h[k]) # NoPrice
            BY DEF Summable
        <3> HIDE DEF g, h
        <3>3. ASSUME NEW k \in DOMAIN g PROVE Price(g[k]) # NoPrice
            <4>1. CASE k = i
                BY <2>2, <3>1, <4>1
            <4>2. CASE k # i
                <5>1. i \in Nat /\ k \in 1..(i - 1)
                    BY <3>1, <3>3, <4>2
                <5>2. g[k] = h[k] /\ k \in DOMAIN h
                    BY <3>1, <3>3, <5>1
                <5> QED
                    BY <3>2, <5>2
            <4> QED
                BY <4>1, <4>2
        <3>4. Unpriced(g) = {}
            BY <3>3 DEF Unpriced
        <3> QED
            BY <3>4 DEF g
    <2>3. Fits(Spent(f, i)) => Price(f[i]) # NoPrice
        BY <1>3 DEF TotalRowTrap
    <2> QED
        BY <2>1, <2>2, <2>3 DEF TotalTooLarge
<1> QED
    BY <1>1, <1>2, <1>3

\* A deletion with no text in the search bar takes exactly one row.
LEMMA DeletesOneRow ==
    ASSUME Inv, ConfirmDelete, searchText = NoText,
           deleteRows(FilteredCellTag(CorrectedTag), investments')
    PROVE  trap' = "none"
<1> DEFINE k == CorrectedTag
           q == FilteredCellTag(k)
<1>0. /\ IInv /\ TableInSync /\ HiddenEmpty /\ NothingYet /\ ListComplete /\ Running
      /\ k \in DOMAIN investments /\ investments' = RemoveAt(investments, k)
      /\ screen = "confirm"
    BY DEF Inv, JInv, ConfirmDelete, saveInvestmentsData
<1>1. /\ investments \in Seq(investmentItem) /\ rows \in Seq(Cell) /\ Distinct(investments)
      /\ load \in {"waiting", "posting", "done", "failed"}
    BY <1>0 DEF IInv, TypeOK, UniqueIDs, Distinct
<1>2. tableShown /\ load \in {"posting", "done"}
    BY <1>0, <1>1 DEF HiddenEmpty, NothingYet
<1>3. investmentFilteredData = investments
    BY <1>0, <1>2 DEF ListComplete
<1>4. DOMAIN rows = DOMAIN investments
    BY <1>0, <1>2, <1>3 DEF TableInSync
<1> HIDE DEF k
<1>5. q = k
    <2>1. Position(investments, investments[k].id) = k /\ k # 0
        BY <1>0, <1>1, PositionOf
    <2> QED
        BY <1>3, <2>1 DEF FilteredCellTag
<1>6. Len(investments') = Len(rows) - 1
    <2>1. Len(investments') = Len(investments) - 1
        BY <1>0, <1>1, RemoveAtProperties
    <2>2. Len(rows) = Len(investments)
        BY <1>1, <1>4
    <2> QED
        BY <2>1, <2>2
<1> HIDE DEF q
<1>7. deleteRows(q, investments')
    BY DEF q, k
<1> QED
    BY <1>0, <1>4, <1>5, <1>6, <1>7 DEF deleteRows

\* How the app can crash.
LEMMA CrashCausesStep ==
    ASSUME Inv, IInv', Next
    PROVE  /\ trap' # "position"
           /\ trap' = "index" => ~Settled
           /\ trap' = "rows" => searchText # NoText
           /\ trap' = "nil" => Unpriced(investments) # {}
           /\ trap' = "url" =>
                 cellTag' \in DOMAIN investments /\ investments[cellTag'].item \in NoURL
           /\ trap' = "overflow" =>
                 \/ \E i \in DOMAIN investments' : TooLarge(investments'[i])
                 \/ TotalTooLarge(investmentFilteredData)
           /\ trap' = "cast" => load = "waiting"
<1> USE DEF disk, model, table, dialog, queue, Running
<1> DEFINE Linked == cellTag' \in DOMAIN investments /\ investments[cellTag'].item \in NoURL
           Overflows == \/ \E i \in DOMAIN investments' : TooLarge(investments'[i])
                        \/ TotalTooLarge(investmentFilteredData)
           Explained ==
              /\ trap' = "index" => ~Settled
              /\ trap' = "rows" => searchText # NoText
              /\ trap' = "nil" => Unpriced(investments) # {}
              /\ trap' = "url" => Linked
              /\ trap' = "overflow" => Overflows
              /\ trap' = "cast" => load = "waiting"
<1>0. /\ IInv /\ TableInSync /\ HiddenEmpty /\ NoneAimed /\ Aimed
      /\ rows \in Seq(Cell) /\ investments \in Seq(investmentItem)
      /\ investmentFilteredData \in Seq(investmentItem)
      /\ investmentFilteredData' \in Seq(investmentItem) /\ tableShown' \in BOOLEAN
      /\ trap' # "position"
    BY DEF Inv, IInv, JInv, TypeOK
<1> SUFFICES Explained
    BY <1>0
<1>1. CASE trap' = "none"
    BY <1>1
<1>2. ASSUME reloadData(investmentFilteredData', investments', tableShown')
      PROVE  Explained
    <2>1. CASE trap' = "none"
        BY <2>1
    <2>2. ASSUME NEW r \in DOMAIN investmentFilteredData',
                 trap' = RowTrap(investmentFilteredData', r, investments')
          PROVE  Explained
        <3>1. /\ trap' \notin {"index", "rows", "url", "cast"}
              /\ trap' = "nil" => Price(investmentFilteredData'[r]) = NoPrice
              /\ trap' = "overflow" => TooLarge(investmentFilteredData'[r])
            BY <2>2, RowTrapKinds
        <3>2. ASSUME trap' = "nil" PROVE ~\E cat \in Catalogues : ApplyPrices(cat)
            BY <3>2 DEF ApplyPrices
        <3>3. trap' = "nil" => Unpriced(investments) # {}
            BY <3>1, <3>2, NilStep
        <3>4. trap' = "overflow" => Overflows
            BY <3>1, LargeRow
        <3> QED
            BY <3>1, <3>3, <3>4
    <2> QED
        BY <1>0, <1>2, <2>1, <2>2, Reloaded
<1>3. CASE LoadFails \/ Relaunch \/ \E cat \in Catalogues : ApplyPrices(cat)
    BY <1>1, <1>3 DEF LoadFails, Relaunch, ApplyPrices
<1>4. ASSUME NEW r \in DOMAIN rows, Scroll(r) PROVE Explained
    <2>1. /\ trap' = RowTrap(investmentFilteredData, r, investments) /\ Running
          /\ UNCHANGED <<investments, investmentFilteredData>>
        BY <1>4 DEF Scroll
    <2>2. r \in DOMAIN investmentFilteredData
        <3>1. rows # <<>>
            BY <1>0
        <3> QED
            BY <1>0, <2>1, <3>1 DEF HiddenEmpty, TableInSync
    <2>3. /\ trap' \notin {"index", "rows", "url", "cast"}
          /\ trap' = "nil" => Price(investmentFilteredData[r]) = NoPrice
          /\ trap' = "overflow" => TooLarge(investmentFilteredData[r])
        BY <2>1, <2>2, RowTrapKinds
    <2>4. trap' = "nil" => Unpriced(investments) # {}
        BY <1>0, <2>2, <2>3, NilRow
    <2>5. trap' = "overflow" => Overflows
        BY <2>1, <2>2, <2>3, LargeRow
    <2> QED
        BY <2>3, <2>4, <2>5
<1>5. CASE TrapStep /\ Running /\ trap' # "none"
    <2>1. ASSUME NEW r \in DOMAIN rows, rows[r].tag \notin DOMAIN investments, screen = "list",
                 trap' = "index"
          PROVE  Explained
        <3>1. delayed # 0
            BY <1>5, <2>1, SettledPress
        <3>2. aim = NoAim
            BY <1>0, <2>1 DEF NoneAimed
        <3> QED
            BY <2>1, <3>1, <3>2 DEF Settled
    <2>2. ASSUME NEW r \in DOMAIN rows, TapEdit(r) PROVE Explained
        BY <1>5, <2>1, <2>2 DEF TapEdit, Press
    <2>3. ASSUME NEW r \in DOMAIN rows, TapChart(r) PROVE Explained
        <3>1. CASE rows[r].tag \notin DOMAIN investments
            BY <1>5, <2>1, <2>3, <3>1 DEF TapChart, Press
        <3>2. CASE rows[r].tag \in DOMAIN investments
            <4>1. trap' = "url" /\ Linked
                BY <1>5, <2>3, <3>2 DEF TapChart, Press
            <4> QED
                BY <4>1
        <3> QED
            BY <3>1, <3>2
    <2>4. ASSUME NEW r \in DOMAIN rows, NEW n \in 1..MaxAmount, TapStepper(r, n) PROVE Explained
        <3>1. CASE rows[r].tag \notin DOMAIN investments
            BY <2>1, <2>4, <3>1 DEF TapStepper, Press
        <3>2. CASE rows[r].tag \in DOMAIN investments
            BY <1>2, <2>4, <3>2 DEF TapStepper
        <3> QED
            BY <3>1, <3>2
    <2>5. ASSUME ConfirmDeleteTraps PROVE Explained
        <3>1. /\ screen = "confirm" /\ trap' = "index"
              /\ investmentFilteredData = <<>> \/ CorrectedTag \notin DOMAIN investments
            BY <2>5 DEF ConfirmDeleteTraps
        <3>2. ~Settled
            BY <1>0, <3>1, CorrectedTagInRange DEF Aimed, Settled
        <3> QED
            BY <3>1, <3>2
    <2>6. ASSUME ShowTotal PROVE Explained
        <3>1. PICK i \in DOMAIN investmentFilteredData :
                  /\ Summable(SubSeq(investmentFilteredData, 1, i - 1))
                  /\ ~Summable(SubSeq(investmentFilteredData, 1, i))
                  /\ trap' = TotalRowTrap(investmentFilteredData, i)
            BY <1>5, <2>6 DEF ShowTotal
        <3>2. /\ trap' \in {"nil", "overflow"}
              /\ trap' = "nil" => Price(investmentFilteredData[i]) = NoPrice
              /\ trap' = "overflow" => TotalTooLarge(investmentFilteredData)
            BY <1>0, <3>1, TotalTrapKinds
        <3>3. trap' = "nil" => Unpriced(investments) # {}
            BY <1>0, <3>2, NilRow
        <3> QED
            BY <3>2, <3>3
    <2> QED
        BY <1>0, <1>5, <2>2, <2>3, <2>4, <2>5, <2>6 DEF TrapStep
<1>6. ASSUME ConfirmDelete, deleteRows(FilteredCellTag(CorrectedTag), investments')
      PROVE  Explained
    BY <1>6, DeletesOneRow DEF deleteRows
<1>7. CASE DialogStep /\ trap' \in {"none", "cast"}
    BY <1>1, <1>7, DialogKeeps
<1> HIDE DEF Explained
<1>8. \/ DialogStep /\ trap' \in {"none", "cast"}
      \/ TrapStep /\ Running /\ trap' # "none"
      \/ LoadFails \/ Relaunch \/ \E cat \in Catalogues : ApplyPrices(cat)
      \/ \E r \in DOMAIN rows : Scroll(r)
      \/ reloadData(investmentFilteredData', investments', tableShown')
      \/ ConfirmDelete /\ deleteRows(FilteredCellTag(CorrectedTag), investments')
    BY <1>0, StepKinds
<1> HIDE DEF Explained
<1> QED
    BY <1>2, <1>3, <1>4, <1>5, <1>6, <1>7, <1>8

-----------------------------------------------------------------------------
(* The saved portfolio is a ledger *)

BookOf(invs) == [id \in IDs(invs) |-> invs[Position(invs, id)]]

\* The ledger has every investment, under its id.
LEMMA BookEntries ==
    ASSUME NEW invs \in Seq(investmentItem), Distinct(invs)
    PROVE  /\ DOMAIN BookOf(invs) = IDs(invs)
           /\ \A i \in DOMAIN invs : /\ invs[i].id \in IDs(invs)
                                     /\ BookOf(invs)[invs[i].id] = invs[i]
           /\ \A id \in IDs(invs) : \E i \in DOMAIN invs :
                  invs[i].id = id /\ BookOf(invs)[id] = invs[i]
<1>1. DOMAIN BookOf(invs) = IDs(invs)
    BY DEF BookOf
<1>2. ASSUME NEW i \in DOMAIN invs
      PROVE  invs[i].id \in IDs(invs) /\ BookOf(invs)[invs[i].id] = invs[i]
    <2>1. invs[i].id \in IDs(invs)
        BY DEF IDs
    <2>2. Position(invs, invs[i].id) = i
        BY PositionOf
    <2> QED
        BY <2>1, <2>2 DEF BookOf
<1>3. ASSUME NEW id \in IDs(invs)
      PROVE  \E i \in DOMAIN invs : invs[i].id = id /\ BookOf(invs)[id] = invs[i]
    <2>1. PICK i \in DOMAIN invs : invs[i].id = id
        BY DEF IDs
    <2> QED
        BY <1>2, <2>1
<1> QED
    BY <1>1, <1>2, <1>3

\* A launch for the first time opens an empty ledger.
LEMMA LedgerInit == Init => L!Init
<1> SUFFICES ASSUME Init PROVE Book = <<>>
    BY DEF L!Init
<1>1. saved = <<>>
    BY DEF Init
<1>2. IDs(saved) = {}
    BY <1>1 DEF IDs
<1> QED
    BY <1>2 DEF Book

\* A step of the app is a step of the ledger, or leaves it alone.
LEMMA LedgerStep ==
    ASSUME Inv, Inv', Next
    PROVE  L!Next \/ UNCHANGED Book
<1> DEFINE B == BookOf(investments)
           C == BookOf(investments')
<1>0. /\ IInv /\ EditTarget /\ FreshID
      /\ saved = investments /\ saved' = investments'
      /\ investments \in Seq(investmentItem) /\ Distinct(investments)
      /\ investments' \in Seq(investmentItem) /\ Distinct(investments')
    BY DEF Inv, IInv, JInv, TypeOK, UniqueIDs, Distinct, Durable
<1>1. Book = B /\ Book' = C
    BY <1>0 DEF Book, BookOf
<1>2. /\ DOMAIN B = IDs(investments)
      /\ \A i \in DOMAIN investments : /\ investments[i].id \in IDs(investments)
                                       /\ B[investments[i].id] = investments[i]
      /\ \A id \in IDs(investments) : \E i \in DOMAIN investments :
             investments[i].id = id /\ B[id] = investments[i]
    BY <1>0, BookEntries
<1>3. /\ DOMAIN C = IDs(investments')
      /\ \A i \in DOMAIN investments' : /\ investments'[i].id \in IDs(investments')
                                        /\ C[investments'[i].id] = investments'[i]
      /\ \A id \in IDs(investments') : \E i \in DOMAIN investments' :
             investments'[i].id = id /\ C[id] = investments'[i]
    BY <1>0, BookEntries
<1>4. B = [id \in DOMAIN B |-> B[id]] /\ C = [id \in DOMAIN C |-> C[id]]
    BY DEF BookOf
<1> HIDE DEF B, C
<1>5. CASE UNCHANGED investments
    BY <1>0, <1>5 DEF Book
<1>6. ASSUME NEW cat \in Catalogues, ApplyPrices(cat) PROVE L!Reprice
    <2>1. cat \in Seq(decodingitem) /\ investments' = Refresh(investments, cat)
        BY <1>6, CataloguesAssumption DEF ApplyPrices, saveInvestmentsData
    <2>2. /\ DOMAIN investments' = DOMAIN investments
          /\ \A i \in DOMAIN investments : /\ investments'[i].id = investments[i].id
                                           /\ Repriced(investments[i], investments'[i], cat)
        BY <1>0, <2>1, RefreshProperties
    <2>3. IDs(investments') = IDs(investments)
        BY <2>2, SameIDs
    <2>4. ASSUME NEW id \in DOMAIN B PROVE Repriced(B[id], C[id], cat)
        BY <1>2, <1>3, <2>2, <2>3
    <2> QED
        BY <1>1, <1>2, <1>3, <2>3, <2>4 DEF L!Reprice, Repriced
<1>7. ASSUME NEW r \in DOMAIN rows, NEW n \in 1..MaxAmount, TapStepper(r, n),
             rows[r].tag \in DOMAIN investments
      PROVE  L!SetQuantity
    <2> DEFINE t == rows[r].tag
               id == investments[t].id
    <2>1. investments' = [investments EXCEPT ![t] = [investments[t] EXCEPT !.quantity = n]]
        BY <1>7 DEF TapStepper, saveInvestmentsData
    <2>2. investments[t] \in investmentItem
        BY <1>0, <1>7
    <2>3. /\ investments'[t] = [investments[t] EXCEPT !.quantity = n]
          /\ investments'[t].id = id /\ investments'[t].quantity = n
        BY <1>7, <2>1, <2>2 DEF investmentItem
    <2>4. /\ DOMAIN investments' = DOMAIN investments
          /\ \A i \in DOMAIN investments : investments'[i].id = investments[i].id
          /\ \A i \in DOMAIN investments : i # t => investments'[i] = investments[i]
        BY <2>1, <2>3
    <2>5. IDs(investments') = IDs(investments)
        BY <2>4, SameIDs
    <2>6. id \in DOMAIN B /\ id \in DOMAIN C /\ C[id] = [B[id] EXCEPT !.quantity = C[id].quantity]
        BY <1>2, <1>3, <1>7, <2>3, <2>4, <2>5
    <2>7. \A m \in DOMAIN B : m # id => C[m] = B[m]
        BY <1>2, <1>3, <2>4
    <2> HIDE DEF id
    <2>8. C = [B EXCEPT ![id].quantity = C[id].quantity]
        BY <1>2, <1>3, <1>4, <2>5, <2>6, <2>7
    <2> QED
        BY <1>1, <2>6, <2>8 DEF L!SetQuantity
<1>8. ASSUME AddButton PROVE L!Enter \/ L!Amend
    <2> DEFINE v == [item |-> form.item, colour |-> form.colour, quantity |-> form.amount,
                     boughtFor |-> form.boughtFor, platform |-> form.platform, id |-> form.id]
    <2>1. /\ SheetOpen /\ Price(form) # NoPrice
          /\ \/ form.editing /\ investments' = [investments EXCEPT ![cellTag] = v]
             \/ ~form.editing /\ investments' = Append(investments, v)
        BY <1>8 DEF AddButton, Refused, saveInvestmentsData, SheetOpen
    <2>2. L!Priced(v) /\ v.id = form.id
        BY <2>1 DEF L!Priced, Price, L!getColourPrice, getColourPrice
    <2> HIDE DEF v
    <2>3. CASE form.editing
        <3> DEFINE id == form.id
        <3>1. /\ cellTag \in DOMAIN investments /\ investments[cellTag].id = id
              /\ investments' = [investments EXCEPT ![cellTag] = v]
            BY <1>0, <2>1, <2>3 DEF EditTarget
        <3>2. /\ DOMAIN investments' = DOMAIN investments
              /\ \A i \in DOMAIN investments : investments'[i].id = investments[i].id
              /\ \A i \in DOMAIN investments : i # cellTag => investments'[i] = investments[i]
              /\ investments'[cellTag] = v
            BY <2>2, <3>1
        <3>3. IDs(investments') = IDs(investments)
            BY <3>2, SameIDs
        <3>4. id \in DOMAIN B /\ id \in DOMAIN C /\ C[id] = v
            BY <1>2, <1>3, <2>2, <3>1, <3>2, <3>3
        <3>5. ASSUME NEW m \in DOMAIN B, m # id PROVE C[m] = B[m]
            <4>1. PICK i \in DOMAIN investments : investments[i].id = m /\ B[m] = investments[i]
                BY <1>2
            <4>2. i # cellTag /\ investments'[i] = investments[i]
                BY <3>1, <3>2, <3>5, <4>1
            <4> QED
                BY <1>3, <3>2, <4>1, <4>2
        <3>6. C = [B EXCEPT ![id] = C[id]]
            BY <1>2, <1>3, <1>4, <3>3, <3>4, <3>5
        <3> HIDE DEF id
        <3> QED
            BY <1>1, <2>2, <3>4, <3>6 DEF L!Amend
    <2>4. CASE ~form.editing
        <3> DEFINE id == form.id
                   n == Len(investments)
        <3>1. /\ investments' = Append(investments, v)
              /\ \A m \in IDs(investments) : m < id
            BY <1>0, <2>1, <2>4 DEF FreshID
        <3>2. /\ n \in Nat /\ DOMAIN investments = 1..n /\ DOMAIN investments' = 1..(n + 1)
              /\ investments'[n + 1] = v
              /\ \A i \in 1..n : investments'[i] = investments[i]
            BY <1>0, <3>1
        <3>3. IDs(investments') = IDs(investments) \cup {id}
            <4>1. \A i \in 1..(n + 1) : i \in 1..n \/ i = n + 1
                BY <3>2
            <4>2. \A i \in 1..n : i \in 1..(n + 1)
                BY <3>2
            <4>3. n + 1 \in 1..(n + 1)
                BY <3>2
            <4> QED
                BY <2>2, <3>2, <4>1, <4>2, <4>3 DEF IDs
        <3>4. id \in DOMAIN C /\ C[id] = v
            <4>1. n + 1 \in 1..(n + 1)
                BY <3>2
            <4> QED
                BY <1>3, <2>2, <3>2, <4>1
        <3>5. \A m \in DOMAIN B : C[m] = B[m]
            <4>1. \A i \in 1..n : i \in 1..(n + 1)
                BY <3>2
            <4> QED
                BY <1>2, <1>3, <3>2, <4>1
        <3>6. id \notin DOMAIN B
            <4>1. id \notin IDs(investments)
                BY <1>0, <2>1, <2>4 DEF IInv, UniqueIDs
            <4> QED
                BY <1>2, <4>1
        <3>7. C = [m \in DOMAIN B \cup {id} |-> IF m = id THEN C[id] ELSE B[m]]
            BY <1>2, <1>3, <1>4, <3>3, <3>5
        <3>8. \A m \in DOMAIN B : m < id
            BY <1>2, <3>1
        <3> HIDE DEF id
        <3> QED
            BY <1>1, <2>2, <3>4, <3>7, <3>8 DEF L!Enter
    <2> QED
        BY <2>1, <2>3, <2>4
<1>9. ASSUME ConfirmDelete PROVE L!Remove
    <2>1. PICK k \in DOMAIN investments : investments' = RemoveAt(investments, k)
        BY <1>9 DEF ConfirmDelete, saveInvestmentsData
    <2> DEFINE id == investments[k].id
               n == Len(investments)
    <2>2. IDs(investments') = IDs(investments) \ {id}
        BY <1>0, <2>1, RemovedID
    <2>3. /\ Len(investments') = n - 1
          /\ \A i \in 1..(n - 1) :
                investments'[i] = IF i < k THEN investments[i] ELSE investments[i + 1]
        BY <1>0, <2>1, RemoveAtProperties
    <2>4. n \in Nat /\ DOMAIN investments = 1..n /\ DOMAIN investments' = 1..(n - 1)
        BY <1>0, <2>3
    <2>5. ASSUME NEW i \in DOMAIN investments' PROVE \E j \in DOMAIN investments : investments'[i] = investments[j]
        <3>1. i \in 1..n /\ i + 1 \in 1..n
            BY <2>4
        <3> QED
            BY <2>3, <2>4, <3>1
    <2>6. id \in DOMAIN B
        BY <1>2
    <2> HIDE DEF id, n
    <2>7. \A m \in DOMAIN C : C[m] = B[m]
        BY <1>2, <1>3, <2>5
    <2>8. C = [m \in DOMAIN B \ {id} |-> B[m]]
        BY <1>2, <1>3, <1>4, <2>2, <2>7
    <2> QED
        BY <1>1, <2>6, <2>8 DEF L!Remove
<1> QED
    BY <1>5, <1>6, <1>7, <1>8, <1>9, PortfolioSteps DEF L!Next
-----------------------------------------------------------------------------
(* What holds of every behaviour *)

\* It holds in every reachable state.
THEOREM Invariance == Spec => []IInv
    BY InitIInv, NextIInv, PTL DEF Spec

\* Every variable keeps its type: no handler stores an amount outside the
\* stepper's range, a price outside Int or a sheet that lacks a field.
THEOREM TypeCorrect == Spec => []TypeOK
<1>1. IInv => TypeOK
    BY DEF IInv
<1> QED
    BY <1>1, Invariance, PTL

\* However many investments are added, deleted and edited, and whatever is
\* loaded while a sheet is open, no two share an id (investmentID).
THEOREM IDsUnique == Spec => []UniqueIDs
<1>1. IInv => UniqueIDs
    BY DEF IInv
<1> QED
    BY <1>1, Invariance, PTL

\* UserDefaults always holds the portfolio in memory, so a crash between any
\* two handlers loses nothing (saveInvestmentsData).
THEOREM PortfolioDurable == Spec => []Durable
<1>1. IInv => Durable
    BY DEF IInv
<1> QED
    BY <1>1, Invariance, PTL

\* The Done button writes to the investment the sheet was opened on, even
\* when a delayed reload ran under the sheet (addButton).
THEOREM SheetKeepsItsTarget == Spec => []EditTarget
<1>1. IInv => EditTarget
    BY DEF IInv
<1> QED
    BY <1>1, Invariance, PTL

\* The position of a row's investment is always found: the force unwrap of
\* investmentPosition never fails (cellForRowAt).
THEOREM PositionFound == Spec => [](trap # "position")
<1>1. IInv => trap # "position"
    BY DEF IInv
<1> QED
    BY <1>1, Invariance, PTL

-----------------------------------------------------------------------------
(* The table, the prices and the ledger *)

\* Both invariants hold in every reachable state.
THEOREM TableInvariance == Spec => []Inv
<1>1. Init => Inv
    BY InitIInv, InitJInv DEF Inv
<1> QED
    BY <1>1, NextInv, PTL DEF Spec

\* The table's data source is always the portfolio with some entries left
\* out, in order, also after a reprice, a deletion under a search or a launch
\* (the assignments of investmentFilteredData).
THEOREM SourceIsView == Spec => []FilteredIsView
<1>1. Inv => FilteredIsView
    BY DEF Inv, JInv
<1> QED
    BY <1>1, TableInvariance, PTL

\* Every row on screen is that of the data source, however it got there: laid
\* out, scrolled back, or moved up by deleteRows.
THEOREM RowsInSync == Spec => []TableInSync
<1>1. Inv => TableInSync
    BY DEF Inv, JInv
<1> QED
    BY <1>1, TableInvariance, PTL

\* However many deletions are made before their reloads run, a tag is too
\* large by at most the number of those reloads, and never too small
\* (reloadTableViewDelay, cellForRowAt).
THEOREM TagsDriftBounded == Spec => []TagsDrift
<1>1. Inv => TagsDrift
    BY DEF Inv, JInv
<1> QED
    BY <1>1, TableInvariance, PTL

\* Nothing is missing from the loaded list while the search bar is empty
\* (textDidChange, saveInvestmentsData).
THEOREM NothingMissing == Spec => []ListComplete
<1>1. Inv => ListComplete
    BY DEF Inv, JInv
<1> QED
    BY <1>1, TableInvariance, PTL

\* After the load no investment shows a price of an earlier catalogue, also
\* one written from a sheet that was open when it arrived (initializeData).
THEOREM NoOldPrices == Spec => []PricesCurrent
<1>1. Inv => PricesCurrent
    BY DEF Inv, JInv
<1> QED
    BY <1>1, TableInvariance, PTL

\* On a settled table a deletion removes the investment of the row pressed,
\* whatever is reloaded or repriced before it is confirmed (deleteItems).
THEOREM DeletionHitsItsRow == Spec => DeletesAimed
<1> DEFINE A == Settled /\ Len(investments') < Len(investments) =>
                    IDs(investments') = IDs(investments) \ {aim.id}
<1>1. Inv /\ Inv' /\ [Next]_vars => [A]_vars
    BY DeletesAimedStep DEF Inv
<1> QED
    BY <1>1, TableInvariance, PTL DEF Spec, DeletesAimed

\* On a settled table a stepper writes one investment, the one its row shows,
\* and moves it by one (stepperValueChanged, amountChangedInvestment).
THEOREM StepperHitsItsRow == Spec => StepsByOne
<1> DEFINE A == screen = "list" /\ Settled /\ Len(investments') = Len(investments) /\ load' = load =>
                \A i \in DOMAIN investments :
                    investments'[i] # investments[i] =>
                        \E r \in DOMAIN rows, d \in {-1, 1} :
                            /\ rows[r].id = investments[i].id
                            /\ investments' =
                                  [investments EXCEPT ![i].quantity = rows[r].quantity + d]
<1>1. Inv /\ [Next]_vars => [A]_vars
    BY StepsByOneStep
<1> QED
    BY <1>1, TableInvariance, PTL DEF Spec, StepsByOne

\* No sheet brings in an investment without a price: only a catalogue that
\* dropped the price can (addButton).
THEOREM SheetsNeverUnprice == Spec => OnlyRefreshUnprices
<1> DEFINE A == load' = load =>
                \A i \in Unpriced(investments') :
                    \E j \in Unpriced(investments) : investments[j].item = investments'[i].item
<1>1. Inv /\ Inv' /\ [Next]_vars => [A]_vars
    BY OnlyRefreshUnpricesStep DEF Inv
<1> QED
    BY <1>1, TableInvariance, PTL DEF Spec, OnlyRefreshUnprices

\* Every failing runtime check has the cause named for it: no position goes
\* unfound, an index is out of range only after a press on an unsettled table,
\* UITableView raises only under a search text, a price is nil only where a
\* catalogue dropped it, a URL only for an item that makes none, a number too
\* large only in an investment's amounts or the total's sums, and the cast that
\* fails is the answer's (cellForRowAt, deleteItems, showTotal, rlInsiderChart,
\* initializeData).
THEOREM CrashesExplained == Spec => CrashCauses
<1> DEFINE A == /\ trap' # "position"
                /\ trap' = "index" => ~Settled
                /\ trap' = "rows" => searchText # NoText
                /\ trap' = "nil" => Unpriced(investments) # {}
                /\ trap' = "url" =>
                      cellTag' \in DOMAIN investments /\ investments[cellTag'].item \in NoURL
                /\ trap' = "overflow" =>
                      \/ \E i \in DOMAIN investments' : TooLarge(investments'[i])
                      \/ TotalTooLarge(investmentFilteredData)
                /\ trap' = "cast" => load = "waiting"
<1>1. Inv /\ Inv' /\ [Next]_vars => [A]_vars
    BY CrashCausesStep DEF Inv
<1> QED
    BY <1>1, TableInvariance, PTL DEF Spec, CrashCauses

\* The saved portfolio implements the ledger: every handler enters, removes,
\* amends or steps one entry, or reprices, and a launch or a crash does
\* nothing to it (saveInvestmentsData and its callers).
THEOREM ImplementsLedger == Spec => LedgerSpec
<1>1. Inv /\ Inv' /\ [Next]_vars => [L!Next]_Book
    <2> SUFFICES ASSUME Inv, Inv', [Next]_vars PROVE L!Next \/ UNCHANGED Book
        OBVIOUS
    <2>1. CASE Next
        BY <2>1, LedgerStep
    <2>2. CASE UNCHANGED vars
        <3>1. saved' = saved
            BY <2>2 DEF vars, disk
        <3> QED
            BY <3>1 DEF Book
    <2> QED
        BY <2>1, <2>2
<1> QED
    BY <1>1, LedgerInit, TableInvariance, PTL DEF Spec, LedgerSpec, L!Spec
=============================================================================
