--------------------------- MODULE ScrapperProofs ---------------------------
(***************************************************************************)
(* Proofs about Scrapper, for any platforms, colours, items, editions of   *)
(* the site and number of calls.                                           *)
(***************************************************************************)
EXTENDS Scrapper, ListLemmas

-----------------------------------------------------------------------------
(* What parsing and merging return *)

\* Every platform has its page, and the first is PC's.
LEMMA PageOfPlatform ==
    /\ Len(FetchOrder) \in Nat \ {0} /\ DOMAIN FetchOrder = 1..Len(FetchOrder)
    /\ PC \in Platforms
    /\ \A i \in DOMAIN FetchOrder : FetchOrder[i] \in Platforms
    /\ \A p \in Platforms : PageOf(p) \in DOMAIN FetchOrder /\ FetchOrder[PageOf(p)] = p
<1>1. /\ FetchOrder \in Seq(Platforms) /\ FetchOrder # <<>>
      /\ \A p \in Platforms : \E i \in DOMAIN FetchOrder : FetchOrder[i] = p
    BY ScrapperAssumption DEF Range
<1>2. Len(FetchOrder) \in Nat \ {0} /\ DOMAIN FetchOrder = 1..Len(FetchOrder)
    BY <1>1
<1>3. \A i \in DOMAIN FetchOrder : FetchOrder[i] \in Platforms
    BY <1>1
<1>4. PC \in Platforms
    BY <1>2, <1>3 DEF PC
<1>5. ASSUME NEW p \in Platforms
      PROVE  PageOf(p) \in DOMAIN FetchOrder /\ FetchOrder[PageOf(p)] = p
    BY <1>1, <1>5 DEF PageOf
<1> QED
    BY <1>2, <1>3, <1>4, <1>5

\* The named rows of a table, all of them (parseTable).
LEMMA NamedProperties ==
    ASSUME NEW rows \in Seq(Row)
    PROVE  /\ Named(rows) \in Seq(Row)
           /\ \A k \in DOMAIN Named(rows) : \E i \in NamedAt(rows) : Named(rows)[k] = rows[i]
           /\ \A i \in NamedAt(rows) : \E k \in DOMAIN Named(rows) : Named(rows)[k] = rows[i]
<1> DEFINE S == NamedAt(rows)
           p == Ascending(S)
           t == [k \in DOMAIN p |-> rows[p[k]]]
<1>1. S \in SUBSET DOMAIN rows
    BY DEF NamedAt
<1>2. Named(rows) = t
    BY DEF Named
<1> HIDE DEF S
<1>3. /\ p \in [1..Cardinality(S) -> S] /\ \A x \in S : \E k \in DOMAIN p : p[k] = x
      /\ t \in Seq(Row) /\ DOMAIN t = DOMAIN p
    BY <1>1, SelectedInOrder
<1> HIDE DEF p
<1>4. \A k \in DOMAIN t : p[k] \in S /\ t[k] = rows[p[k]]
    BY <1>3
<1>5. \A i \in S : \E k \in DOMAIN t : t[k] = rows[i]
    BY <1>3
<1> HIDE DEF t
<1> QED
    BY <1>2, <1>3, <1>4, <1>5 DEF S

\* The last row with an id is a named row with that id (parseTable).
LEMMA LastAtProperties ==
    ASSUME NEW rows \in Seq(Row), NEW i \in NamedAt(rows)
    PROVE  /\ LastAt(rows, rows[i].id) \in NamedAt(rows)
           /\ rows[LastAt(rows, rows[i].id)].id = rows[i].id
<1> DEFINE T == {j \in NamedAt(rows) : rows[j].id = rows[i].id}
<1>1. DOMAIN rows = 1..Len(rows) /\ Len(rows) \in Nat
    OBVIOUS
<1>2. T \subseteq Nat /\ T # {} /\ \A j \in T : j <= Len(rows)
    BY <1>1 DEF NamedAt
<1>3. \E m \in T : \A j \in T : j <= m
    BY <1>1, <1>2, GreatestNatural
<1>4. \E m \in NamedAt(rows) :
          rows[m].id = rows[i].id /\ \A j \in NamedAt(rows) : rows[j].id = rows[i].id => j <= m
    BY <1>3
<1> QED
    BY <1>4 DEF LastAt

\* The price a table has for an id in a colour.
Cell(rows, id, colour) ==
    IF \E i \in NamedAt(rows) : rows[i].id = id
    THEN rows[LastAt(rows, id)].prices[colour]
    ELSE NoPrice

\* A price that was found is in a named row with the id, in the colour's
\* column; and is found when there is a row (parseTable).
LEMMA CellListed ==
    ASSUME NEW rows \in Seq(Row), NEW id, NEW colour \in Colours
    PROVE  /\ Cell(rows, id, colour) \in PriceRanges \cup {NoPrice}
           /\ (\E i \in NamedAt(rows) : rows[i].id = id) \/ Cell(rows, id, colour) # NoPrice
              => \E j \in NamedAt(rows) : rows[j].id = id /\ rows[j].prices[colour] = Cell(rows, id, colour)
<1>1. CASE \A i \in NamedAt(rows) : rows[i].id # id
    BY <1>1 DEF Cell
<1>2. ASSUME NEW i \in NamedAt(rows), rows[i].id = id
      PROVE  /\ LastAt(rows, id) \in NamedAt(rows) /\ rows[LastAt(rows, id)].id = id
             /\ Cell(rows, id, colour) = rows[LastAt(rows, id)].prices[colour]
             /\ Cell(rows, id, colour) \in PriceRanges \cup {NoPrice}
    <2>1. LastAt(rows, id) \in NamedAt(rows) /\ rows[LastAt(rows, id)].id = id
        BY <1>2, LastAtProperties
    <2>2. Cell(rows, id, colour) = rows[LastAt(rows, id)].prices[colour]
        BY <1>2 DEF Cell
    <2>3. rows[LastAt(rows, id)] \in Row
        BY <2>1 DEF NamedAt
    <2> QED
        BY <2>1, <2>2, <2>3 DEF Row
<1> QED
    BY <1>1, <1>2

\* A published item has the name of its row of the PC page, and the prices
\* every page has under the id of that row (the loop over items).
LEMMA CompileProperties ==
    ASSUME NEW pages \in [1..Len(FetchOrder) -> Seq(Row)]
    PROVE  /\ compile(pages) \in Seq(decodingitem)
           /\ DOMAIN compile(pages) = DOMAIN Named(pages[1])
           /\ \A k \in DOMAIN Named(pages[1]) :
                /\ compile(pages)[k].itemName = Named(pages[1])[k].itemName
                /\ compile(pages)[k].itemPriceRange =
                    [c \in Colours \X Platforms |->
                        Cell(pages[PageOf(c[2])], Named(pages[1])[k].id, column(c[1], c[2]))]
<1> DEFINE items == Named(pages[1])
           tables == [i \in DOMAIN pages |-> parseTable(pages[i])]
           price(id, colour, i) ==
               IF id \in DOMAIN tables[i] THEN tables[i][id][column(colour, FetchOrder[i])] ELSE NoPrice
           Prices(k) == [c \in Colours \X Platforms |-> price(items[k].id, c[1], PageOf(c[2]))]
           Cells(k) == [c \in Colours \X Platforms |->
                            Cell(pages[PageOf(c[2])], items[k].id, column(c[1], c[2]))]
<1>1. compile(pages) = [k \in DOMAIN items |-> [itemName |-> items[k].itemName, itemPriceRange |-> Prices(k)]]
    BY DEF compile
<1>2. /\ pages[1] \in Seq(Row)
      /\ DOMAIN pages = 1..Len(FetchOrder)
      /\ \A p \in Platforms : pages[PageOf(p)] \in Seq(Row) /\ PageOf(p) \in DOMAIN pages
    BY PageOfPlatform
<1>3. items \in Seq(Row) /\ \A k \in DOMAIN items : \E i \in NamedAt(pages[1]) : items[k] = pages[1][i]
    BY <1>2, NamedProperties
<1>4. \A k \in DOMAIN items : items[k] \in Row /\ items[k].itemName \in ItemNames
    <2>1. \A i \in NamedAt(pages[1]) : pages[1][i] \in Row /\ pages[1][i].itemName # NoName
        BY <1>2 DEF NamedAt
    <2> HIDE DEF items
    <2> QED
        BY <1>3, <2>1 DEF Row
<1>5. ASSUME NEW id, NEW colour, NEW p \in Platforms
      PROVE  price(id, colour, PageOf(p)) = Cell(pages[PageOf(p)], id, column(colour, p))
    <2> DEFINE rows == pages[PageOf(p)]
    <2>1. tables[PageOf(p)] = parseTable(rows) /\ FetchOrder[PageOf(p)] = p
        BY <1>2, PageOfPlatform
    <2>2. price(id, colour, PageOf(p)) =
              IF id \in DOMAIN parseTable(rows) THEN parseTable(rows)[id][column(colour, p)] ELSE NoPrice
        BY <2>1
    <2>3. id \in DOMAIN parseTable(rows) <=> \E i \in NamedAt(rows) : rows[i].id = id
        BY DEF parseTable
    <2>4. id \in DOMAIN parseTable(rows) => parseTable(rows)[id] = rows[LastAt(rows, id)].prices
        BY DEF parseTable
    <2> HIDE DEF price, rows
    <2> QED
        BY <2>2, <2>3, <2>4 DEF Cell, rows
<1> HIDE DEF price
<1>6. \A k \in DOMAIN items : Prices(k) = Cells(k)
    <2> HIDE DEF items
    <2> QED
        BY <1>5
<1>7. \A colour \in Colours, p \in Platforms : column(colour, p) \in Colours
    BY ScrapperAssumption DEF column
<1>8. \A k \in DOMAIN items : Cells(k) \in prices
    <2> HIDE DEF items
    <2>1. \A k \in DOMAIN items, c \in Colours \X Platforms :
              Cell(pages[PageOf(c[2])], items[k].id, column(c[1], c[2])) \in PriceRanges \cup {NoPrice}
        BY <1>2, <1>7, CellListed
    <2> QED
        BY <2>1 DEF prices
<1>9. DOMAIN items = 1..Len(items) /\ Len(items) \in Nat
    BY <1>3
<1> HIDE DEF items, Prices, Cells
<1>10. compile(pages) \in [1..Len(items) -> decodingitem]
    BY <1>1, <1>4, <1>6, <1>8, <1>9 DEF decodingitem
<1>11. compile(pages) \in Seq(decodingitem)
    BY <1>9, <1>10
<1>12. \A k \in DOMAIN items :
          compile(pages)[k].itemName = items[k].itemName /\ compile(pages)[k].itemPriceRange = Cells(k)
    BY <1>1, <1>6
<1>13. DOMAIN compile(pages) = DOMAIN items
    BY <1>1
<1> QED
    BY <1>11, <1>12, <1>13 DEF items, Cells

-----------------------------------------------------------------------------
(* The inductive invariant *)

\* Pages as the site had them between two editions: each whole or in part, of
\* an edition of its own.
ReadFrom(pages, first, last, whole) ==
    \A i \in DOMAIN pages : \E e \in first..last :
        /\ pages[i] \in Rendered(Site[e][FetchOrder[i]])
        /\ whole => pages[i] = Site[e][FetchOrder[i]]

\* What a call has read was on the site since it began (the four
\* getRLInsiderData functions).
PagesRead ==
    \A c \in Calls : call[c].running =>
        /\ Len(call[c].pages) <= Len(FetchOrder)
        /\ call[c].began <= edition
        /\ ReadFrom(call[c].pages, call[c].began, edition, call[c].whole)

\* What is published was merged from such pages.
Source ==
    db # NotPublished =>
        /\ db.began <= db.ended /\ db.ended <= edition
        /\ \E pages \in [1..Len(FetchOrder) -> Seq(Row)] :
                db.items = compile(pages) /\ ReadFrom(pages, db.began, db.ended, db.whole)

\* A call that was not overtaken began after the last publication.
BeganLater ==
    db # NotPublished =>
        \A c \in Calls : call[c].running /\ ~call[c].overtaken => db.ended <= call[c].began

IInv == TypeOK /\ PagesRead /\ Source /\ BeganLater

\* The pages of the site are tables.
LEMMA SiteTables ==
    \A e \in 0..MaxEdition, p \in Platforms : Site[e][p] \in Seq(Row)
    BY ScrapperAssumption

\* A page that has a table has only rows of the site's page.
LEMMA PageRows ==
    ASSUME NEW rows \in Seq(Row), NEW page \in Seq(Row), page \in Rendered(rows)
    PROVE  \A i \in DOMAIN page : i \in DOMAIN rows /\ page[i] = rows[i]
<1>1. PICK k \in 0..Len(rows) : page = SubSeq(rows, 1, k)
    BY ScrapperAssumption DEF Rendered
<1> QED
    BY <1>1

\* Editions between two that are online once.
LEMMA Editions ==
    ASSUME NEW b \in 0..MaxEdition, NEW f \in 0..MaxEdition, NEW e \in b..f
    PROVE  e \in 0..MaxEdition
    BY ScrapperAssumption

\* An item merged from pages of the site has the name and the prices the site
\* listed for an id; the default colour on PC aside (parseTable and the merge).
LEMMA MergedAsListed ==
    ASSUME NEW pages \in [1..Len(FetchOrder) -> Seq(Row)], NEW w,
           NEW b \in 0..MaxEdition, NEW f \in 0..MaxEdition, ReadFrom(pages, b, f, w),
           NEW k \in DOMAIN compile(pages)
    PROVE  LET id == Named(pages[1])[k].id
           IN  /\ id \in ItemIDs
               /\ \E e \in b..f : \E row \in Range(Site[e][PC]) :
                    row.id = id /\ row.itemName = compile(pages)[k].itemName
               /\ \A c \in Colours \X Platforms :
                    compile(pages)[k].itemPriceRange[c] # NoPrice /\ ~Mixed(c[1], c[2]) =>
                        \E e \in b..f : Lists(e, id, c[1], c[2], compile(pages)[k].itemPriceRange[c])
<1> DEFINE item == Named(pages[1])[k]
<1>1. k \in DOMAIN Named(pages[1]) /\ compile(pages)[k].itemName = item.itemName
    BY CompileProperties
<1>2. 1 \in DOMAIN FetchOrder /\ FetchOrder[1] = PC /\ pages[1] \in Seq(Row)
    BY PageOfPlatform DEF PC
<1>3. PICK i \in NamedAt(pages[1]) : item = pages[1][i]
    BY <1>1, <1>2, NamedProperties
<1>4. i \in DOMAIN pages[1] /\ item \in Row
    BY <1>2, <1>3 DEF NamedAt
<1>5. \E e \in b..f : \E row \in Range(Site[e][PC]) : row = item
    <2>1. PICK e \in b..f : pages[1] \in Rendered(Site[e][PC])
        BY <1>2, PageOfPlatform DEF ReadFrom
    <2>2. Site[e][PC] \in Seq(Row)
        BY <2>1, Editions, SiteTables, PageOfPlatform
    <2>3. i \in DOMAIN Site[e][PC] /\ pages[1][i] = Site[e][PC][i]
        BY <1>2, <1>4, <2>1, <2>2, PageRows
    <2> QED
        BY <1>3, <2>3 DEF Range
<1>6. ASSUME NEW c \in Colours \X Platforms,
             compile(pages)[k].itemPriceRange[c] # NoPrice, ~Mixed(c[1], c[2])
      PROVE  \E e \in b..f : Lists(e, item.id, c[1], c[2], compile(pages)[k].itemPriceRange[c])
    <2> DEFINE rows == pages[PageOf(c[2])]
               price == compile(pages)[k].itemPriceRange[c]
    <2>1. c[1] \in Colours /\ c[2] \in Platforms /\ column(c[1], c[2]) = c[1]
        BY <1>6 DEF column, Mixed
    <2>2. price = Cell(rows, item.id, c[1])
        <3> HIDE DEF item
        <3>1. compile(pages)[k].itemPriceRange =
                  [d \in Colours \X Platforms |-> Cell(pages[PageOf(d[2])], item.id, column(d[1], d[2]))]
            BY <1>1, CompileProperties DEF item
        <3>2. price = Cell(pages[PageOf(c[2])], item.id, column(c[1], c[2]))
            BY <3>1
        <3> QED
            BY <2>1, <3>2
    <2>3. PageOf(c[2]) \in 1..Len(FetchOrder) /\ FetchOrder[PageOf(c[2])] = c[2] /\ rows \in Seq(Row)
        BY <2>1, PageOfPlatform
    <2>4. PICK j \in NamedAt(rows) : rows[j].id = item.id /\ rows[j].prices[c[1]] = price
        BY <1>6, <2>1, <2>2, <2>3, CellListed
    <2>5. j \in DOMAIN rows /\ rows[j].itemName # NoName
        BY <2>4 DEF NamedAt
    <2>6. PICK e \in b..f : rows \in Rendered(Site[e][c[2]])
        BY <2>3 DEF ReadFrom
    <2>7. Site[e][c[2]] \in Seq(Row)
        BY <2>1, <2>6, Editions, SiteTables
    <2> HIDE DEF rows, price, item
    <2>8. j \in DOMAIN Site[e][c[2]] /\ Site[e][c[2]][j] = rows[j]
        BY <2>3, <2>5, <2>6, <2>7, PageRows
    <2>9. Lists(e, item.id, c[1], c[2], price)
        BY <2>4, <2>5, <2>8 DEF Lists, Range
    <2> QED
        BY <2>9 DEF price
<1>7. item.id \in ItemIDs
    BY <1>4 DEF Row
<1> HIDE DEF item
<1> QED
    BY <1>1, <1>5, <1>6, <1>7 DEF item

\* Source is enough for AsListed.
LEMMA SourceAsListed ==
    ASSUME TypeOK, Source
    PROVE  AsListed
<1> SUFFICES ASSUME db # NotPublished, NEW k \in DOMAIN db.items
             PROVE  \E id \in ItemIDs :
                /\ \E e \in db.began..db.ended : \E row \in Range(Site[e][PC]) :
                    row.id = id /\ row.itemName = db.items[k].itemName
                /\ \A c \in Colours \X Platforms :
                    db.items[k].itemPriceRange[c] # NoPrice /\ ~Mixed(c[1], c[2]) =>
                        \E e \in db.began..db.ended :
                            Lists(e, id, c[1], c[2], db.items[k].itemPriceRange[c])
    BY DEF AsListed
<1>1. PICK pages \in [1..Len(FetchOrder) -> Seq(Row)] :
          db.items = compile(pages) /\ ReadFrom(pages, db.began, db.ended, db.whole)
    BY DEF Source
<1>2. db.began \in 0..MaxEdition /\ db.ended \in 0..MaxEdition
    BY DEF TypeOK
<1> DEFINE id == Named(pages[1])[k].id
<1>3. /\ id \in ItemIDs
      /\ \E e \in db.began..db.ended : \E row \in Range(Site[e][PC]) :
            row.id = id /\ row.itemName = compile(pages)[k].itemName
      /\ \A c \in Colours \X Platforms :
            compile(pages)[k].itemPriceRange[c] # NoPrice /\ ~Mixed(c[1], c[2]) =>
                \E e \in db.began..db.ended :
                    Lists(e, id, c[1], c[2], compile(pages)[k].itemPriceRange[c])
    BY <1>1, <1>2, MergedAsListed
<1> HIDE DEF id
<1> QED
    BY <1>1, <1>3

-----------------------------------------------------------------------------
(* Every step keeps the invariant *)

CallRecord == [running : BOOLEAN, pages : Seq(Seq(Row) \cup {NoTable}), began : 0..MaxEdition,
               whole : BOOLEAN, overtaken : BOOLEAN, lost : BOOLEAN]

\* An edition that comes online later takes nothing away from what was read.
LEMMA ReadFromExtends ==
    ASSUME NEW pages, NEW b \in Nat, NEW f \in Nat, NEW g \in Nat, f <= g, NEW w,
           ReadFrom(pages, b, f, w)
    PROVE  ReadFrom(pages, b, g, w)
<1>1. \A e \in b..f : e \in b..g
    OBVIOUS
<1> QED
    BY <1>1 DEF ReadFrom

\* What a call is before it is requested.
LEMMA IdleRecord == Idle \in CallRecord /\ ~Idle.running /\ Idle.pages = <<>>
    BY ScrapperAssumption DEF Idle, CallRecord

\* Before the first call.
LEMMA InitInv == Init => IInv
<1> SUFFICES ASSUME Init PROVE IInv
    OBVIOUS
<1>1. Idle \in CallRecord /\ 0 \in 0..MaxEdition
    BY ScrapperAssumption, IdleRecord
<1>2. TypeOK
    BY <1>1 DEF Init, TypeOK, CallRecord
<1>3. \A c \in Calls : ~call[c].running
    BY DEF Init, Idle
<1> QED
    BY <1>2, <1>3 DEF Init, IInv, PagesRead, Source, BeganLater

\* The site changes (no code; the site is not ours).
LEMMA SiteChangesInv == IInv /\ SiteChanges => IInv'
<1> SUFFICES ASSUME IInv, SiteChanges PROVE IInv'
    OBVIOUS
<1> USE DEF IInv
<1>1. edition \in Nat /\ edition' \in 0..MaxEdition /\ edition' = edition + 1 /\ call' = call /\ db' = db
    BY ScrapperAssumption DEF SiteChanges, TypeOK
<1>2. TypeOK'
    BY <1>1 DEF TypeOK
<1>3. PagesRead'
    <2> SUFFICES ASSUME NEW c \in Calls, call[c].running
                 PROVE  /\ Len(call[c].pages) <= Len(FetchOrder)
                        /\ call[c].began <= edition'
                        /\ ReadFrom(call[c].pages, call[c].began, edition', call[c].whole)
        BY <1>1 DEF PagesRead
    <2>1. call[c].began \in Nat
        BY DEF TypeOK
    <2>2. /\ Len(call[c].pages) <= Len(FetchOrder)
          /\ call[c].began <= edition
          /\ ReadFrom(call[c].pages, call[c].began, edition, call[c].whole)
        BY DEF PagesRead
    <2> QED
        BY <1>1, <2>1, <2>2, ReadFromExtends
<1>4. Source'
    <2> SUFFICES ASSUME db # NotPublished
                 PROVE  /\ db.began <= db.ended /\ db.ended <= edition'
                        /\ \E pages \in [1..Len(FetchOrder) -> Seq(Row)] :
                            db.items = compile(pages) /\ ReadFrom(pages, db.began, db.ended, db.whole)
        BY <1>1 DEF Source
    <2>1. db.ended \in Nat
        BY DEF TypeOK
    <2> QED
        BY <1>1, <2>1 DEF Source
<1>5. BeganLater'
    BY <1>1 DEF BeganLater
<1> QED
    BY <1>2, <1>3, <1>4, <1>5

\* A step of one call that publishes nothing leaves the rest as it is.
LEMMA OneCallInv ==
    ASSUME IInv, NEW c \in Calls, NEW r \in CallRecord,
           call' = [call EXCEPT ![c] = r], UNCHANGED <<edition, db>>,
           r.running => /\ Len(r.pages) <= Len(FetchOrder)
                        /\ r.began <= edition
                        /\ ReadFrom(r.pages, r.began, edition, r.whole)
                        /\ (db # NotPublished /\ ~r.overtaken => db.ended <= r.began)
    PROVE  IInv'
<1> USE DEF IInv
<1>1. call \in [Calls -> CallRecord] /\ edition' = edition /\ db' = db
    BY DEF TypeOK, CallRecord
<1>2. call' \in [Calls -> CallRecord] /\ \A d \in Calls : call'[d] = IF d = c THEN r ELSE call[d]
    BY <1>1
<1>3. TypeOK'
    BY <1>1, <1>2 DEF TypeOK, CallRecord
<1>4. PagesRead'
    BY <1>1, <1>2 DEF PagesRead
<1>5. Source'
    BY <1>1 DEF Source
<1>6. BeganLater'
    BY <1>1, <1>2 DEF BeganLater
<1> QED
    BY <1>3, <1>4, <1>5, <1>6

\* A call begins without a page.
LEMMA RequestInv == ASSUME IInv, NEW c \in Calls, Request(c) PROVE IInv'
<1> DEFINE r == [Idle EXCEPT !.running = TRUE, !.began = edition]
<1>1. call' = [call EXCEPT ![c] = r] /\ UNCHANGED <<edition, db>>
    BY DEF Request
<1>2. edition \in 0..MaxEdition
    BY DEF IInv, TypeOK
<1>3. r \in CallRecord /\ r.pages = <<>> /\ r.began = edition
    <2>1. Idle \in CallRecord /\ Idle.pages = <<>>
        BY IdleRecord
    <2> QED
        BY <1>2, <2>1 DEF CallRecord
<1>4. ReadFrom(r.pages, r.began, edition, r.whole)
    BY <1>3 DEF ReadFrom
<1>5. db # NotPublished => db.ended <= edition
    BY DEF IInv, Source
<1>6. Len(r.pages) <= Len(FetchOrder) /\ r.began <= edition
    BY <1>2, <1>3, PageOfPlatform
<1> HIDE DEF r
<1> QED
    BY <1>1, <1>3, <1>4, <1>5, <1>6, OneCallInv

LEMMA EndsInv ==
    ASSUME IInv, NEW c \in Calls, ParseFails(c) \/ Dies(c)
    PROVE  IInv'
<1> DEFINE r == [Idle EXCEPT !.lost = TRUE]
<1>1. call' = [call EXCEPT ![c] = r] /\ UNCHANGED <<edition, db>>
    BY DEF ParseFails, Dies
<1>2. r \in CallRecord /\ ~r.running
    <2>1. Idle \in CallRecord /\ ~Idle.running
        BY IdleRecord
    <2> QED
        BY <2>1 DEF CallRecord
<1> HIDE DEF r
<1> QED
    BY <1>1, <1>2, OneCallInv

\* A page that is read is the site's of this moment (getRLInsiderData).
LEMMA FetchInv == ASSUME IInv, NEW c \in Calls, Fetch(c) PROVE IInv'
<1> USE DEF IInv
<1> DEFINE n == Len(call[c].pages)
           rows == getRLInsiderData(FetchOrder[1 + n])
<1>1. call[c].running /\ n < Len(FetchOrder) /\ UNCHANGED <<edition, db>>
    BY DEF Fetch
<1>2. PICK page \in Rendered(rows) :
          call' = [call EXCEPT ![c].pages = Append(@, page), ![c].whole = @ /\ page = rows]
    BY DEF Fetch
<1>3. call \in [Calls -> CallRecord] /\ call[c] \in CallRecord /\ edition \in 0..MaxEdition
    BY DEF TypeOK, CallRecord
<1>4. n \in Nat /\ 1 + n \in DOMAIN FetchOrder /\ FetchOrder[1 + n] \in Platforms
    <2>1. n \in Nat
        BY <1>3 DEF CallRecord
    <2> HIDE DEF n
    <2> QED
        BY <1>1, <2>1, PageOfPlatform
<1>5. rows = Site[edition][FetchOrder[1 + n]] /\ rows \in Seq(Row)
    BY <1>3, <1>4, SiteTables DEF getRLInsiderData
<1>6. page \in Seq(Row) \cup {NoTable}
    <2> HIDE DEF rows
    <2>1. \A k \in 0..Len(rows) : SubSeq(rows, 1, k) \in Seq(Row)
        BY <1>5
    <2> QED
        BY <1>2, <2>1 DEF Rendered
<1> DEFINE r == [call[c] EXCEPT !.pages = Append(@, page), !.whole = @ /\ page = rows]
<1>7. call' = [call EXCEPT ![c] = r]
    BY <1>2, <1>3
<1>8. r \in CallRecord
    <2>1. (call[c].whole /\ page = rows) \in BOOLEAN
        OBVIOUS
    <2>2. Append(call[c].pages, page) \in Seq(Seq(Row) \cup {NoTable})
        BY <1>3, <1>6 DEF CallRecord
    <2> QED
        BY <1>3, <2>1, <2>2 DEF CallRecord
<1>9. /\ r.pages = Append(call[c].pages, page)
      /\ r.whole = (call[c].whole /\ page = rows)
      /\ r.began = call[c].began /\ r.overtaken = call[c].overtaken
    BY <1>3 DEF CallRecord
<1>10. Len(r.pages) = n + 1 /\ DOMAIN r.pages = 1..(n + 1)
       /\ r.pages[n + 1] = page /\ \A i \in 1..n : r.pages[i] = call[c].pages[i]
    BY <1>3, <1>4, <1>9 DEF CallRecord
<1>11. call[c].began <= edition /\ ReadFrom(call[c].pages, call[c].began, edition, call[c].whole)
    BY <1>1 DEF PagesRead
<1> HIDE DEF r, rows
<1>12. ReadFrom(r.pages, r.began, edition, r.whole)
    <2> SUFFICES ASSUME NEW i \in 1..(n + 1)
                 PROVE  \E e \in call[c].began..edition :
                            /\ r.pages[i] \in Rendered(Site[e][FetchOrder[i]])
                            /\ r.whole => r.pages[i] = Site[e][FetchOrder[i]]
        BY <1>9, <1>10 DEF ReadFrom
    <2>1. CASE i = n + 1
        <3>1. edition \in call[c].began..edition
            BY <1>3, <1>11 DEF CallRecord
        <3>2. r.pages[i] = page /\ FetchOrder[i] = FetchOrder[1 + n]
            BY <1>4, <1>10, <2>1
        <3>3. page \in Rendered(Site[edition][FetchOrder[i]])
            BY <1>2, <1>5, <3>2
        <3>4. r.whole => page = Site[edition][FetchOrder[i]]
            BY <1>5, <1>9, <3>2
        <3> QED
            BY <3>1, <3>2, <3>3, <3>4
    <2>2. CASE i # n + 1
        <3>1. i \in 1..n /\ i \in DOMAIN call[c].pages
            BY <1>3, <1>4, <2>2 DEF CallRecord
        <3>2. PICK e \in call[c].began..edition :
                  /\ call[c].pages[i] \in Rendered(Site[e][FetchOrder[i]])
                  /\ call[c].whole => call[c].pages[i] = Site[e][FetchOrder[i]]
            BY <1>11, <3>1 DEF ReadFrom
        <3>3. r.pages[i] = call[c].pages[i] /\ (r.whole => call[c].whole)
            BY <1>9, <1>10, <3>1
        <3> QED
            BY <3>2, <3>3
    <2> QED
        BY <2>1, <2>2
<1>13. Len(r.pages) <= Len(FetchOrder)
    <2> HIDE DEF n
    <2> QED
        BY <1>1, <1>4, <1>10, PageOfPlatform
<1>14. db # NotPublished /\ ~r.overtaken => db.ended <= r.began
    BY <1>1, <1>9 DEF BeganLater
<1> QED
    BY <1>1, <1>7, <1>8, <1>9, <1>11, <1>12, <1>13, <1>14, OneCallInv

\* What is published when every page has a table.
LEMMA PublishedPages ==
    ASSUME IInv, NEW c \in Calls, AllRead(c), NoTable \notin Range(call[c].pages)
    PROVE  /\ call[c].pages \in [1..Len(FetchOrder) -> Seq(Row)]
           /\ call[c].began \in 0..MaxEdition /\ edition \in 0..MaxEdition
           /\ call[c].began <= edition
           /\ ReadFrom(call[c].pages, call[c].began, edition, call[c].whole)
<1>1. /\ call[c] \in CallRecord /\ edition \in 0..MaxEdition
      /\ call[c].running /\ Len(call[c].pages) = Len(FetchOrder)
    BY DEF IInv, TypeOK, CallRecord, AllRead
<1>2. /\ call[c].pages \in Seq(Seq(Row) \cup {NoTable})
      /\ DOMAIN call[c].pages = 1..Len(FetchOrder)
    BY <1>1 DEF CallRecord
<1>3. \A i \in DOMAIN call[c].pages : call[c].pages[i] \in Seq(Row)
    BY <1>2 DEF Range
<1>4. call[c].pages \in [1..Len(FetchOrder) -> Seq(Row)]
    BY <1>2, <1>3
<1> QED
    BY <1>1, <1>4 DEF IInv, PagesRead, CallRecord

\* A publication, and the calls it overtakes.
LEMMA PublishInv == ASSUME IInv, NEW c \in Calls, Publish(c) PROVE IInv'
<1> DEFINE pages == call[c].pages
<1>1. /\ AllRead(c) /\ NoTable \notin Range(pages) /\ edition' = edition
      /\ db' = [items |-> compile(pages), began |-> call[c].began, ended |-> edition,
                whole |-> call[c].whole]
      /\ call' = [d \in Calls |->
                    IF d = c THEN Idle ELSE [call[d] EXCEPT !.overtaken = call[d].running]]
    BY DEF Publish, set
<1>2. /\ pages \in [1..Len(FetchOrder) -> Seq(Row)]
      /\ call[c].began \in 0..MaxEdition /\ edition \in 0..MaxEdition
      /\ call[c].began <= edition
      /\ ReadFrom(pages, call[c].began, edition, call[c].whole)
    BY <1>1, PublishedPages
<1>3. call \in [Calls -> CallRecord]
    BY DEF IInv, TypeOK, CallRecord
<1>4. Idle \in CallRecord /\ ~Idle.running
    BY IdleRecord
<1>5. ASSUME NEW d \in Calls
      PROVE  /\ call'[d] \in CallRecord
             /\ call'[d].running => /\ d # c /\ call[d].running /\ call'[d].overtaken
                                    /\ call'[d].pages = call[d].pages
                                    /\ call'[d].began = call[d].began
                                    /\ call'[d].whole = call[d].whole
    <2>1. CASE d = c
        BY <1>1, <1>4, <2>1
    <2>2. CASE d # c
        <3>1. call'[d] = [call[d] EXCEPT !.overtaken = call[d].running] /\ call[d] \in CallRecord
            BY <1>1, <1>3, <2>2
        <3> QED
            BY <2>2, <3>1 DEF CallRecord
    <2> QED
        BY <2>1, <2>2
<1>6. TypeOK'
    <2>1. compile(pages) \in Seq(decodingitem) /\ call[c].whole \in BOOLEAN
        BY <1>2, <1>3, CompileProperties DEF CallRecord
    <2>2. call' \in [Calls -> CallRecord]
        BY <1>1, <1>5
    <2> HIDE DEF pages
    <2> QED
        BY <1>1, <1>2, <2>1, <2>2 DEF TypeOK, CallRecord
<1>7. PagesRead'
    <2> SUFFICES ASSUME NEW d \in Calls, call'[d].running
                 PROVE  /\ Len(call'[d].pages) <= Len(FetchOrder)
                        /\ call'[d].began <= edition'
                        /\ ReadFrom(call'[d].pages, call'[d].began, edition', call'[d].whole)
        BY DEF PagesRead
    <2> QED
        BY <1>1, <1>5 DEF IInv, PagesRead
<1>8. Source'
    BY <1>1, <1>2 DEF Source
<1>9. BeganLater'
    BY <1>5 DEF BeganLater
<1> QED
    BY <1>6, <1>7, <1>8, <1>9 DEF IInv

LEMMA NextInv == IInv /\ [Next]_vars => IInv'
<1> SUFFICES ASSUME IInv, [Next]_vars PROVE IInv'
    OBVIOUS
<1>1. CASE SiteChanges
    BY <1>1, SiteChangesInv
<1>2. ASSUME NEW c \in Calls, Request(c) PROVE IInv'
    BY <1>2, RequestInv
<1>3. ASSUME NEW c \in Calls, Fetch(c) PROVE IInv'
    BY <1>3, FetchInv
<1>4. ASSUME NEW c \in Calls, ParseFails(c) \/ Dies(c) PROVE IInv'
    BY <1>4, EndsInv
<1>5. ASSUME NEW c \in Calls, Publish(c) PROVE IInv'
    BY <1>5, PublishInv
<1>6. CASE UNCHANGED vars
    BY <1>6 DEF vars, IInv, TypeOK, PagesRead, Source, BeganLater
<1> QED
    BY <1>1, <1>2, <1>3, <1>4, <1>5, <1>6 DEF Next

-----------------------------------------------------------------------------
(* What follows from the invariant *)

\* Source is enough for Complete when rows with one id agree.
LEMMA SourceComplete ==
    ASSUME RowsAgree, TypeOK, Source
    PROVE  Complete
<1> SUFFICES ASSUME db # NotPublished, db.whole, NEW row \in Range(Named(Site[db.ended][PC])),
                    \A e \in db.began..db.ended : row \in Range(Site[e][PC])
             PROVE  \E k \in DOMAIN db.items :
                /\ db.items[k].itemName = row.itemName
                /\ \A colour \in Colours, p \in Platforms :
                    (\A e \in db.began..db.ended :
                        \E price \in PriceRanges : Lists(e, row.id, colour, p, price))
                    /\ ~Mixed(colour, p)
                    => db.items[k].itemPriceRange[<<colour, p>>] # NoPrice
    BY DEF Complete
<1>1. PICK pages \in [1..Len(FetchOrder) -> Seq(Row)] :
          db.items = compile(pages) /\ ReadFrom(pages, db.began, db.ended, db.whole)
    BY DEF Source
<1>2. db.began \in 0..MaxEdition /\ db.ended \in 0..MaxEdition
    BY DEF TypeOK
<1>3. \A p \in Platforms :
          /\ PageOf(p) \in 1..Len(FetchOrder) /\ pages[PageOf(p)] \in Seq(Row)
          /\ \E e \in db.began..db.ended : pages[PageOf(p)] = Site[e][p]
    BY <1>1, PageOfPlatform DEF ReadFrom
<1>4. \E e \in db.began..db.ended : pages[1] = Site[e][PC]
    BY <1>1, PageOfPlatform DEF ReadFrom, PC
<1>5. PICK i \in DOMAIN pages[1] : pages[1][i] = row
    BY <1>4 DEF Range
<1>6. row.itemName # NoName
    <2>1. Site[db.ended][PC] \in Seq(Row)
        BY <1>2, SiteTables, PageOfPlatform
    <2>2. \E j \in NamedAt(Site[db.ended][PC]) : row = Site[db.ended][PC][j]
        BY <2>1, NamedProperties DEF Range
    <2> QED
        BY <2>2 DEF NamedAt
<1>7. i \in NamedAt(pages[1]) /\ pages[1] \in Seq(Row)
    BY <1>5, <1>6, PageOfPlatform DEF NamedAt
<1>8. PICK k \in DOMAIN Named(pages[1]) : Named(pages[1])[k] = row
    BY <1>5, <1>7, NamedProperties
<1>9. /\ k \in DOMAIN db.items /\ db.items[k].itemName = row.itemName
      /\ db.items[k].itemPriceRange =
            [c \in Colours \X Platforms |-> Cell(pages[PageOf(c[2])], row.id, column(c[1], c[2]))]
    <2> DEFINE Cells(id) == [c \in Colours \X Platforms |->
                                Cell(pages[PageOf(c[2])], id, column(c[1], c[2]))]
    <2>1. /\ k \in DOMAIN compile(pages) /\ compile(pages)[k].itemName = Named(pages[1])[k].itemName
          /\ compile(pages)[k].itemPriceRange = Cells(Named(pages[1])[k].id)
        BY <1>8, CompileProperties
    <2> HIDE DEF Cells
    <2>2. /\ k \in DOMAIN db.items /\ db.items[k].itemName = row.itemName
          /\ db.items[k].itemPriceRange = Cells(row.id)
        BY <1>1, <1>8, <2>1
    <2> QED
        BY <2>2 DEF Cells
<1>10. ASSUME NEW colour \in Colours, NEW p \in Platforms, ~Mixed(colour, p),
              \A e \in db.began..db.ended :
                  \E price \in PriceRanges : Lists(e, row.id, colour, p, price)
       PROVE  db.items[k].itemPriceRange[<<colour, p>>] # NoPrice
    <2> DEFINE rows == pages[PageOf(p)]
    <2>1. db.items[k].itemPriceRange[<<colour, p>>] = Cell(rows, row.id, column(colour, p))
        BY <1>9
    <2>2. column(colour, p) = colour
        BY <1>10 DEF column, Mixed
    <2>3. PICK e \in db.began..db.ended : rows = Site[e][p]
        BY <1>3
    <2>4. e \in 0..MaxEdition
        BY <1>2, <2>3, Editions
    <2>5. PICK r \in Range(rows) :
              r.itemName # NoName /\ r.id = row.id /\ r.prices[colour] \in PriceRanges
        BY <1>10, <2>3 DEF Lists
    <2>6. \E j \in NamedAt(rows) : rows[j].id = row.id
        BY <2>5 DEF Range, NamedAt
    <2>7. PICK j \in NamedAt(rows) :
              rows[j].id = row.id /\ rows[j].prices[colour] = Cell(rows, row.id, colour)
        BY <1>3, <2>6, CellListed
    <2>8. rows[j] \in Range(rows) /\ rows[j].itemName # NoName
        BY <2>7 DEF NamedAt, Range
    <2>9. r.prices[colour] # NoPrice
        BY <2>5, PricesAssumption
    <2> HIDE DEF rows
    <2>10. rows[j].prices[colour] # NoPrice
        BY <2>3, <2>4, <2>5, <2>7, <2>8, <2>9 DEF RowsAgree
    <2> QED
        BY <2>1, <2>2, <2>7, <2>10
<1> QED
    BY <1>9, <1>10

\* Source is enough for SamePrices when a name has one id.
LEMMA SourceSamePrices ==
    ASSUME OneID, TypeOK, Source
    PROVE  SamePrices
<1> SUFFICES ASSUME db # NotPublished, NEW j \in DOMAIN db.items, NEW k \in DOMAIN db.items,
                    db.items[j].itemName = db.items[k].itemName
             PROVE  db.items[j] = db.items[k]
    BY DEF SamePrices
<1>1. PICK pages \in [1..Len(FetchOrder) -> Seq(Row)] :
          db.items = compile(pages) /\ ReadFrom(pages, db.began, db.ended, db.whole)
    BY DEF Source
<1> DEFINE items == Named(pages[1])
           Cells(id) == [c \in Colours \X Platforms |->
                            Cell(pages[PageOf(c[2])], id, column(c[1], c[2]))]
<1>2. pages[1] \in Seq(Row) /\ db.began \in 0..MaxEdition /\ db.ended \in 0..MaxEdition
    <2>1. pages[1] \in Seq(Row)
        BY PageOfPlatform
    <2>2. db.began \in 0..MaxEdition /\ db.ended \in 0..MaxEdition
        BY DEF TypeOK
    <2> QED
        BY <2>1, <2>2
<1>3. PICK e \in db.began..db.ended : pages[1] \in Rendered(Site[e][PC])
    BY <1>1, PageOfPlatform DEF ReadFrom, PC
<1>4. e \in 0..MaxEdition /\ Site[e][PC] \in Seq(Row)
    BY <1>2, <1>3, Editions, SiteTables, PageOfPlatform
<1>5. /\ compile(pages) \in Seq(decodingitem) /\ DOMAIN compile(pages) = DOMAIN items
      /\ \A n \in DOMAIN items : /\ compile(pages)[n].itemName = items[n].itemName
                                 /\ compile(pages)[n].itemPriceRange = Cells(items[n].id)
    BY CompileProperties
<1>6. \A n \in DOMAIN items : items[n].itemName # NoName /\ items[n] \in Range(Site[e][PC])
    <2>1. \A n \in DOMAIN items : \E i \in NamedAt(pages[1]) : items[n] = pages[1][i]
        BY <1>2, NamedProperties
    <2>2. \A i \in NamedAt(pages[1]) : pages[1][i].itemName # NoName /\ pages[1][i] \in Range(Site[e][PC])
        BY <1>2, <1>3, <1>4, PageRows DEF NamedAt, Range
    <2> HIDE DEF items
    <2> QED
        BY <2>1, <2>2
<1> HIDE DEF items, Cells
<1>7. items[j].id = items[k].id
    BY <1>1, <1>4, <1>5, <1>6 DEF OneID
<1>8. /\ compile(pages)[j] \in decodingitem /\ compile(pages)[k] \in decodingitem
      /\ compile(pages)[j].itemPriceRange = compile(pages)[k].itemPriceRange
    BY <1>1, <1>5, <1>7
<1> QED
    BY <1>1, <1>8 DEF decodingitem

\* A publication by a call that was not overtaken has prices of editions that
\* came after the publication it replaces.
LEMMA PublishesNewer ==
    ASSUME IInv, NEW c \in Calls, Publish(c), db # NotPublished, ~call[c].overtaken,
           NEW k \in DOMAIN db'.items, NEW colour \in Colours, NEW p \in Platforms,
           ~Mixed(colour, p), db'.items[k].itemPriceRange[<<colour, p>>] # NoPrice
    PROVE  \E e \in db.ended..edition, id \in ItemIDs :
               Lists(e, id, colour, p, db'.items[k].itemPriceRange[<<colour, p>>])
<1> DEFINE pages == call[c].pages
           price == db'.items[k].itemPriceRange[<<colour, p>>]
<1>1. AllRead(c) /\ NoTable \notin Range(pages) /\ db'.items = compile(pages)
    BY DEF Publish, set
<1>2. /\ pages \in [1..Len(FetchOrder) -> Seq(Row)]
      /\ call[c].began \in 0..MaxEdition /\ edition \in 0..MaxEdition
      /\ ReadFrom(pages, call[c].began, edition, call[c].whole)
    BY <1>1, PublishedPages
<1>3. <<colour, p>> \in Colours \X Platforms /\ <<colour, p>>[1] = colour /\ <<colour, p>>[2] = p
    OBVIOUS
<1>4. \E e \in call[c].began..edition, id \in ItemIDs : Lists(e, id, colour, p, price)
    <2> DEFINE id == Named(pages[1])[k].id
    <2> HIDE DEF pages
    <2>1. /\ id \in ItemIDs
          /\ \A d \in Colours \X Platforms :
                compile(pages)[k].itemPriceRange[d] # NoPrice /\ ~Mixed(d[1], d[2]) =>
                    \E e \in call[c].began..edition :
                        Lists(e, id, d[1], d[2], compile(pages)[k].itemPriceRange[d])
        BY <1>1, <1>2, MergedAsListed
    <2> HIDE DEF id
    <2>2. \E e \in call[c].began..edition : Lists(e, id, colour, p, price)
        BY <1>1, <1>3, <2>1
    <2> QED
        BY <2>1, <2>2
<1>5. db.ended \in 0..MaxEdition /\ db.ended <= call[c].began
    BY <1>1 DEF IInv, TypeOK, BeganLater, AllRead
<1>6. \A e \in call[c].began..edition : e \in db.ended..edition
    BY <1>2, <1>5
<1> QED
    BY <1>4, <1>6

-----------------------------------------------------------------------------
\* What is published was read from the site while the call ran (the request
\* handler from the first page to db.child("prices").set).
THEOREM Invariance == Spec => []IInv
<1> QED
    BY InitInv, NextInv, PTL DEF Spec

\* Every variable keeps its type; what is published is a catalogue the app can
\* decode.
THEOREM TypeCorrect == Spec => []TypeOK
<1>1. IInv => TypeOK
    BY DEF IInv
<1> QED
    BY <1>1, Invariance, PTL

\* Every published price was on the site while the call ran, under its id, on
\* its page, in its column, the default colour on PC aside (parseTable, the
\* merge by itemID).
THEOREM PublishedAsListed == Spec => []AsListed
<1>1. IInv => AsListed
    BY SourceAsListed DEF IInv
<1> QED
    BY <1>1, Invariance, PTL

\* When every page was read whole nothing that the site had all the while is
\* missing, if rows of one id agree on the columns they have prices in (getData,
\* parseTable, the merge by itemID).
THEOREM NothingLeftOut == ASSUME RowsAgree PROVE Spec => []Complete
<1>1. IInv => Complete
    BY SourceComplete DEF IInv
<1> QED
    BY <1>1, Invariance, PTL

\* An item listed twice is published twice with the same prices, if a name has
\* one id (items.append, the merge by itemID).
THEOREM TwiceTheSame == ASSUME OneID PROVE Spec => []SamePrices
<1>1. IInv => SamePrices
    BY SourceSamePrices DEF IInv
<1> QED
    BY <1>1, Invariance, PTL

\* Only a call that was overtaken brings back a price the site dropped before
\* the publication it replaces (db.child("prices").set of overlapping calls).
THEOREM OldOnlyWhenOvertaken == Spec => NewerUnlessOvertaken
<1> DEFINE A == \A c \in Calls :
                /\ db # NotPublished /\ db' # db
                /\ call[c].running /\ ~call'[c].running /\ ~call[c].overtaken
                => \A k \in DOMAIN db'.items, colour \in Colours, p \in Platforms :
                    ~Mixed(colour, p) =>
                        LET price == db'.items[k].itemPriceRange[<<colour, p>>]
                        IN  \/ price = NoPrice
                            \/ \E e \in db.ended..edition, id \in ItemIDs : Lists(e, id, colour, p, price)
<1>1. IInv /\ [Next]_vars => [A]_vars
    <2> SUFFICES ASSUME IInv, Next, NEW c \in Calls, db # NotPublished, db' # db,
                        call[c].running, ~call'[c].running, ~call[c].overtaken,
                        NEW k \in DOMAIN db'.items, NEW colour \in Colours, NEW p \in Platforms,
                        ~Mixed(colour, p), db'.items[k].itemPriceRange[<<colour, p>>] # NoPrice
                 PROVE  \E e \in db.ended..edition, id \in ItemIDs :
                            Lists(e, id, colour, p, db'.items[k].itemPriceRange[<<colour, p>>])
        OBVIOUS
    <2>1. PICK d \in Calls : Publish(d)
        BY DEF Next, SiteChanges, Request, Fetch, ParseFails, Dies
    <2>2. d = c
        <3> SUFFICES ASSUME d # c PROVE FALSE
            OBVIOUS
        <3>1. call'[c] = [call[c] EXCEPT !.overtaken = call[c].running]
            BY <2>1 DEF Publish
        <3>2. call[c] \in CallRecord
            BY DEF IInv, TypeOK, CallRecord
        <3> QED
            BY <3>1, <3>2 DEF CallRecord
    <2> QED
        BY <2>1, <2>2, PublishesNewer
<1> QED
    BY <1>1, Invariance, PTL DEF Spec, NewerUnlessOvertaken
=============================================================================
