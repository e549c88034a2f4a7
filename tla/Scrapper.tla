------------------------------ MODULE Scrapper ------------------------------
(***************************************************************************)
(* The scrapper: an Azure function that reads the price table of the web   *)
(* site for each platform in turn, a minute or more apart, merges the four *)
(* tables by the ids of the PC table, and writes the result to the one     *)
(* node of the database the app reads.                                     *)
(*                                                                         *)
(* It is called by the timer function once a day and by whoever requests   *)
(* its address, so calls overlap; the site changes under them; a page may  *)
(* not be complete when it is read; and a call may end anywhere (the       *)
(* host's time limit, memory, the network) without writing.                *)
(*                                                                         *)
(* A cell of a table is the price range it parses to, or NoPrice when it   *)
(* does not parse.                                                         *)
(***************************************************************************)
EXTENDS ItemPrices, SequencesExt

CONSTANTS
    Calls,          \* invocations that may run at a time
    FetchOrder,     \* the platforms, in the order their pages are read: PC first
    White,          \* "Titanium White"
    ItemIDs,        \* ids of the site's table rows
    NoName,         \* a row without a name (a heading)
    NoTable,        \* a page read before its table was there
    NotPublished,   \* the node before the first publication
    Site,           \* Site[e][p]: the rows of platform p's page in edition e
    MaxEdition      \* bound of the model: the last edition

Row == [id : ItemIDs, itemName : ItemNames \cup {NoName},
        prices : [Colours -> PriceRanges \cup {NoPrice}]]

ASSUME ScrapperAssumption ==
    /\ FetchOrder \in Seq(Platforms) /\ FetchOrder # <<>> /\ IsInjective(FetchOrder)
    /\ Range(FetchOrder) = Platforms
    /\ White \in Colours
    /\ NoName \notin ItemNames
    /\ MaxEdition \in Nat
    /\ Site \in [0..MaxEdition -> [Platforms -> Seq(Row)]]
    /\ NoTable \notin Seq(Row)

VARIABLES
    edition,    \* the edition of the site online
    call,       \* the pages each call has read; history: the edition online when
                \* it began, whether every page was read whole, whether another call
                \* has published since, whether it ended without publishing
    db          \* the node "prices"; history of the call that published it

vars == <<edition, call, db>>

PC == FetchOrder[1]

Idle == [running |-> FALSE, pages |-> <<>>,
         began |-> 0, whole |-> TRUE, overtaken |-> FALSE, lost |-> FALSE]

-----------------------------------------------------------------------------
(* Parsing and merging *)

\* The positions of the rows that have a name; parseTable passes over the others.
NamedAt(rows) == {i \in DOMAIN rows : rows[i].itemName # NoName}

\* Those rows.
Named(rows) ==
    LET at == Ascending(NamedAt(rows))
    IN  [k \in DOMAIN at |-> rows[at[k]]]

\* The last of the named rows with an id.
LastAt(rows, id) ==
    CHOOSE i \in NamedAt(rows) :
        rows[i].id = id /\ \A j \in NamedAt(rows) : rows[j].id = id => j <= i

\* The prices under each id; a later row overwrites an earlier one.
parseTable(rows) ==
    [id \in {rows[i].id : i \in NamedAt(rows)} |-> rows[LastAt(rows, id)].prices]

\* The page that is platform's.
PageOf(platform) == CHOOSE i \in DOMAIN FetchOrder : FetchOrder[i] = platform

\* The column that a published price is taken from.
column(colour, platform) ==
    IF platform = PC /\ colour = DefaultColour THEN White ELSE colour

\* Mutant: the rows of the tables are taken to be in the same order.
compile_ByPosition(pages) ==
    LET items == Named(pages[1])
        price(k, colour, i) ==
            IF k \in DOMAIN Named(pages[i])
            THEN Named(pages[i])[k].prices[column(colour, FetchOrder[i])]
            ELSE NoPrice
    IN  [k \in DOMAIN items |->
            [itemName |-> items[k].itemName,
             itemPriceRange |-> [c \in Colours \X Platforms |->
                price(k, c[1], PageOf(c[2]))]]]

\* One entry for each row of the PC table, with the prices every platform's
\* table has under the id of that row.
compile(pages) ==
    LET items == Named(pages[1])
        tables == [i \in DOMAIN pages |-> parseTable(pages[i])]
        price(id, colour, i) ==
            IF id \in DOMAIN tables[i] THEN tables[i][id][column(colour, FetchOrder[i])]
            ELSE NoPrice
    IN  [k \in DOMAIN items |->
            [itemName |-> items[k].itemName,
             itemPriceRange |-> [c \in Colours \X Platforms |->
                price(items[k].id, c[1], PageOf(c[2]))]]]

-----------------------------------------------------------------------------
Init ==
    /\ edition = 0
    /\ call = [c \in Calls |-> Idle]
    /\ db = NotPublished

\* The prices of the site change.
SiteChanges ==
    /\ edition < MaxEdition
    /\ edition' = edition + 1
    /\ UNCHANGED <<call, db>>

\* The request of the timer, or of anyone.
Request(c) ==
    /\ ~call[c].running
    /\ call' = [call EXCEPT ![c] = [Idle EXCEPT !.running = TRUE, !.began = edition]]
    /\ UNCHANGED <<edition, db>>

\* Mutant: a page is kept from the first edition on.
getRLInsiderData_Cached(p) == Site[0][p]

\* The rows platform p's table has online now.
getRLInsiderData(p) == Site[edition][p]

\* What a minute's visit leaves in the browser: the table, the rows loaded so
\* far, or no table.
Rendered(rows) == {SubSeq(rows, 1, k) : k \in 0..Len(rows)} \cup {NoTable}

\* One page more, in the order PC, PS4, Xbox, Switch.
Fetch(c) ==
    /\ call[c].running /\ Len(call[c].pages) < Len(FetchOrder)
    /\ LET rows == getRLInsiderData(FetchOrder[1 + Len(call[c].pages)])
       IN  \E page \in Rendered(rows) :
            call' = [call EXCEPT ![c].pages = Append(@, page),
                                 ![c].whole = @ /\ page = rows]
    /\ UNCHANGED <<edition, db>>

AllRead(c) == call[c].running /\ Len(call[c].pages) = Len(FetchOrder)

\* A page has no table: getData raises and the call ends.
ParseFails(c) ==
    /\ AllRead(c) /\ NoTable \in Range(call[c].pages)
    /\ call' = [call EXCEPT ![c] = [Idle EXCEPT !.lost = TRUE]]
    /\ UNCHANGED <<edition, db>>

\* Mutant: what was read is added to what is published.
set_Appends(catalogue) ==
    IF db = NotPublished THEN catalogue ELSE db.items \o catalogue

\* db.child("prices").set: the whole node is replaced.
set(catalogue) == catalogue

\* Parsing, merging and publishing.
Publish(c) ==
    /\ AllRead(c) /\ NoTable \notin Range(call[c].pages)
    /\ db' = [items |-> set(compile(call[c].pages)),
              began |-> call[c].began, ended |-> edition, whole |-> call[c].whole]
    /\ call' = [d \in Calls |->
                    IF d = c THEN Idle ELSE [call[d] EXCEPT !.overtaken = call[d].running]]
    /\ UNCHANGED edition

\* The time limit of the host, lack of memory, the network.
Dies(c) ==
    /\ call[c].running
    /\ call' = [call EXCEPT ![c] = [Idle EXCEPT !.lost = TRUE]]
    /\ UNCHANGED <<edition, db>>

Next ==
    \/ SiteChanges
    \/ \E c \in Calls : Request(c) \/ Fetch(c) \/ ParseFails(c) \/ Publish(c) \/ Dies(c)

\* The timer fires every day, and a call that is not ended goes on.
Fairness ==
    /\ WF_vars(\E c \in Calls : Request(c))
    /\ \A c \in Calls : WF_vars(Fetch(c)) /\ WF_vars(ParseFails(c)) /\ WF_vars(Publish(c))

Spec == Init /\ [][Next]_vars /\ Fairness

-----------------------------------------------------------------------------
TypeOK ==
    /\ edition \in 0..MaxEdition
    /\ call \in [Calls -> [running : BOOLEAN, pages : Seq(Seq(Row) \cup {NoTable}),
                           began : 0..MaxEdition, whole : BOOLEAN, overtaken : BOOLEAN,
                           lost : BOOLEAN]]
    /\ db = NotPublished \/ db \in [items : Seq(decodingitem), began : 0..MaxEdition,
                                    ended : 0..MaxEdition, whole : BOOLEAN]

\* The site lists the price for a named row with this id, in this colour's
\* column of the platform's page of edition e.
Lists(e, id, colour, platform, price) ==
    \E row \in Range(Site[e][platform]) :
        row.itemName # NoName /\ row.id = id /\ row.prices[colour] = price

\* The one price that is not taken from its own column.
Mixed(colour, platform) == colour = DefaultColour /\ platform = PC

\* Rows of one page with one id have prices in the same columns.  The site is
\* not known to do otherwise; parseTable keeps the last of them only, so that
\* what an earlier one has beyond it is not published.
RowsAgree ==
    \A e \in 0..MaxEdition, p \in Platforms : \A r, s \in Range(Site[e][p]) :
        r.itemName # NoName /\ s.itemName # NoName /\ r.id = s.id =>
            \A colour \in Colours : r.prices[colour] = NoPrice <=> s.prices[colour] = NoPrice

\* Rows of a PC page with one name have one id.
OneID ==
    \A e \in 0..MaxEdition : \A r, s \in Range(Site[e][PC]) :
        r.itemName # NoName /\ r.itemName = s.itemName => r.id = s.id

\* Every price published was on the site while the call ran, on its own page,
\* in its own colour's column, in a row with the id its item has on the PC page
\* (parseTable, and the merge by itemID); the default colour on PC aside.
AsListed ==
    db # NotPublished =>
        \A k \in DOMAIN db.items : \E id \in ItemIDs :
            /\ \E e \in db.began..db.ended : \E row \in Range(Site[e][PC]) :
                    row.id = id /\ row.itemName = db.items[k].itemName
            /\ \A c \in Colours \X Platforms :
                    db.items[k].itemPriceRange[c] # NoPrice /\ ~Mixed(c[1], c[2]) =>
                        \E e \in db.began..db.ended :
                            Lists(e, id, c[1], c[2], db.items[k].itemPriceRange[c])

\* When every page was read whole, no item and no price is missing that the site
\* had all the while the call ran (getData, parseTable, the merge).
Complete ==
    db # NotPublished /\ db.whole =>
        \A row \in Range(Named(Site[db.ended][PC])) :
            (\A e \in db.began..db.ended : row \in Range(Site[e][PC])) =>
                \E k \in DOMAIN db.items :
                    /\ db.items[k].itemName = row.itemName
                    /\ \A colour \in Colours, p \in Platforms :
                        (\A e \in db.began..db.ended :
                            \E price \in PriceRanges : Lists(e, row.id, colour, p, price))
                        /\ ~Mixed(colour, p)
                        => db.items[k].itemPriceRange[<<colour, p>>] # NoPrice

\* An item the PC page lists twice is published twice, with the same prices: the
\* app may take either (initializeData takes the last).
SamePrices ==
    db # NotPublished =>
        \A j, k \in DOMAIN db.items :
            db.items[j].itemName = db.items[k].itemName => db.items[j] = db.items[k]

\* A publication brings back a price the site dropped before the one it replaces
\* only when the two calls overlapped.
NewerUnlessOvertaken ==
    [][ \A c \in Calls :
        /\ db # NotPublished /\ db' # db
        /\ call[c].running /\ ~call'[c].running /\ ~call[c].overtaken
        => \A k \in DOMAIN db'.items, colour \in Colours, p \in Platforms :
            ~Mixed(colour, p) =>
                LET price == db'.items[k].itemPriceRange[<<colour, p>>]
                IN  \/ price = NoPrice
                    \/ \E e \in db.ended..edition, id \in ItemIDs : Lists(e, id, colour, p, price) ]_vars

UpToDate ==
    db # NotPublished /\ db.items = compile([i \in DOMAIN FetchOrder |-> Site[edition][FetchOrder[i]]])

\* The daily call is the only retry, and it is enough: when calls and pages no
\* longer get lost, the database comes to hold the prices of the site for good,
\* though a call that overlapped may first bring back older ones.
CatchesUp ==
    /\ <>[][\A c \in Calls : call'[c].lost => call[c].lost]_vars
    /\ <>[](\A c \in Calls : call[c].whole)
    => <>[]UpToDate

\* "a simple list of all the items and their respective prices" (README): the
\* default colour's price on PC is the one the site lists for it.
DefaultAsListed ==
    db # NotPublished =>
        \A k \in DOMAIN db.items :
            LET price == db.items[k].itemPriceRange[<<DefaultColour, PC>>]
            IN  price # NoPrice =>
                    \E e \in db.began..db.ended, id \in ItemIDs : Lists(e, id, DefaultColour, PC, price)
=============================================================================
