# RL Investments: TLA+ specifications and proofs

RL Investments is an iOS app in which a player of Rocket League keeps the items
they bought as investments, fed by a scrapper that reads a price site once a day.
This directory holds TLA+ modules of the parts that carry the program's logic,
TLC configurations that check them, and TLAPS proofs about the app, the scrapper and
two of the libraries' components.

Paths below are relative to `src/`; `app/` stands for `iOS App/rl_insider_app/`.

## The system

    price site --> Scrapper (Azure function) --> database node "prices"
                      ^ daily request                 |
                   Timer (Azure function)             | one read per launch
                                                      v
      UserDefaults <--> globals of the app <--> initializeData
                          |        |      |
                 Investments    Prices   Cross platform     (tabs)
                 list + sheet   tab      tab + settings

      Firebase (Pods): database client --> leveldb     event transport --> nanopb

The repository's own code is the app (Swift) and the scrapper (Python). Most of its
C, C++ and Objective-C is not its own: `iOS App/Pods` holds the libraries that the
Firebase database client brings along, as sources that are built into the app. What
the app does with them is one read of one node; their correctness is what that read
and the transport of events rest on. Of these, leveldb, nanopb and the event
transport of GoogleDataTransport are modelled too, from the sources in the
repository.

| Component | Where | State | Operations | Module |
|---|---|---|---|---|
| Items and prices | `app/structs.swift`, `app/functions.swift` | none | price of a colour on a platform | `ItemPrices` |
| Portfolio store | `app/functions.swift`, `app/dataManagment.swift` | `investments`, its copy in UserDefaults | save, read at launch, next id | `Investments`, `Ledger` |
| Catalogue load | `app/initialization.swift` | `items`; one read in flight | apply and save, post a reload, fail | `Investments` |
| Investments list | `app/Investment Screens/investmentOverview.swift`, `Cells/itemCell.swift`, `rlInsiderChart.swift` | `investmentFilteredData`, the table's cells and their tags, the search text, `cellTag`, alerts, delayed reloads | search, scroll, edit, delete, stepper, chart, total | `Investments` |
| Add/edit sheet | `app/Investment Screens/Add New/` | `selectedItem` ... `selectedID`, `editingMode` | choose item, colour, platform, amount, price; add or save; cancel | `Investments`, `CatalogueBrowser` |
| Prices tab | `app/Prices/ViewController.swift` | `platform`, the shared `filteredData` | choose platform, search, show prices | `CatalogueBrowser` |
| Cross platform tab | `app/Cross Platform/` | `xPlatItems`, `xPlatData`, blocks on the main queue | rates, sort, settings | `XPlat` |
| Scrapper, timer | `RL Insider Scrapper/Azure Function/`, `Timer Function/` | pages of each running call; the node "prices" | request, read four pages, merge, publish | `Scrapper` |
| leveldb: write path | `Pods/leveldb-library/db/db_impl.cc` | writers' queue, memtables, background work | Write, MakeRoomForWrite, CompactMemTable, TEST_CompactRange, close | `DBWrite` |
| leveldb: recovery | the same, `db/version_set.cc` | log, manifest, CURRENT, tables on disk | Open, Recover, LogAndApply, DeleteObsoleteFiles, DestroyDB | `DBRecovery` |
| leveldb: compactions, reads | `db/version_set.cc`, `db/db_impl.cc` | levels, versions, snapshots | choose inputs, merge, drop, move, seek and manual compactions | `Compaction`, `ApproximateSizes`, `VersionRefs`, `Snapshots` |
| leveldb: formats | `db/log_*.cc`, `table/`, `util/coding.cc`, `util/crc32c.cc`, `util/bloom.cc`, `db/dbformat.cc`, `db/version_edit.cc`, `db/write_batch.cc`, `db/filename.cc` | bytes | write, read, notice damage | `LogFormat`, `Block`, `Table`, `Coding`, `Crc32c`, `Bloom`, `KeyOrder`, `VersionEdit`, `WriteBatch`, `FileNames` |
| leveldb: iterators | `table/merger.cc`, `table/two_level_iterator.cc`, `db/db_iter.cc` | position, direction, status | Seek, Next, Prev | `SortedCursor`, `Iterators`, `DBIter` |
| leveldb: memory | `util/cache.cc`, `db/skiplist.h`, `db/memtable.cc`, `util/arena.cc` | handles, nodes, blocks | Insert, Lookup, Release, Allocate | `LRUCache`, `MemTable`, `Arena` |
| leveldb: environment | `util/env_posix.cc`, `util/posix_logger.h`, `util/env.cc` | buffers, locks, limits, background thread | Append, Sync, LockFile, Schedule, Logv | `WritableFile`, `FileLocks`, `ReadableFiles`, `BackgroundQueue`, `FileString`, `PosixLogger` |
| leveldb: repair | `db/repair.cc` | logs, tables, `lost/` | RepairDB | `Repair` |
| nanopb | `Pods/nanopb/` | streams, messages, the heap | encode, decode, merge, release | `PbWire`, `PbMessage`, `PbStream` |
| Event transport | `Pods/GoogleDataTransport/` | event files, batches, three queues | store, upload, answer, expire | `EventUpload`, `CCTMessages` |
| Groups | `groupInvesment` in the list | `groups` | none reachable: no control posts it | not modelled |
| Older scrappers | `jsScrapper.py`, `RL_Insider_Scrapper_P2.py`, `PyPpeteerTest.py` | | run by hand, superseded | not modelled |
| Other pods | FirebaseDatabase, SocketRocket, headers; leveldb's C interface and tools | | pass calls on, declare, or convert | not modelled |

In the app, interaction is by global variables and NotificationCenter. All of its code
runs on the main queue, so handlers do not interleave with each other; what
interleaves is the user's taps with the blocks left on the queue: the database's
answer, the block it posts, a reload half a second after each deletion, the sorting
of the cross platform tab. Calls of the scrapper run in parallel with each other and
with changes of the site. leveldb's threads meet at `mutex_`, at atomics of the skip
list and at the file system; the transport's queues are serial, one for each object.

What is hard here, and what the properties are for:

- a row's buttons work through `cell.tag`, the position its investment had when
  the row was laid out, and after `deleteRows` the rows below keep old tags;
- `investments`, `investmentFilteredData`, the table and UserDefaults are four
  copies changed by different handlers in different orders;
- the sheet holds an id and a position across other events;
- two screens search in one list, `filteredData`, and each has rows of its own;
- a table is computed for the platforms of one moment and titled at another;
- a catalogue may take away a price that was there when the item was added, and
  every failed runtime check ends the process after the change was saved;
- calls of the scrapper overlap, and pages are read while they still load;
- leveldb acknowledges a write that is in several places, none of them final, and
  removes a file when it believes that nobody needs it;
- what is read from a disk or a network may be cut or damaged;
- an event must be neither lost nor sent for ever.

`PROJECT.json` lists these hazards line by line, with the properties for each.

## Modules

- `ItemPrices`: structures and `getColourPrice`, and the ascending enumeration of a
  set of positions, shared by the app's modules.
- `Investments`: the app's core. `Ledger`: what it promises about the portfolio.
- `XPlat`, `CatalogueBrowser`: the other two tabs. These two, `FileLocks`,
  `FileString` and `VersionRefs` have their proofs at the end.
- `Scrapper`: the scrapper, the timer's request, the site and the node.
- `ListLemmas`, `InvestmentsProofs`, `ScrapperProofs`: the proofs.
- `SortedCursor`: what every iterator of leveldb promises. The other modules of the
  table above stand for one component of a pod each.
- `MCInvestments`, `MCScrapper`, `MCParts`: instances for TLC.

A definition named like `Filter_NoReset`, with a comment that starts with
"Mutant", is a faulty variant of the definition on the underscore's left;
it is used only to see that a property notices the fault.

### Investments

One action is one handler from start to end. Positions start at 1 (the code's
index + 1). The variables are the code's, plus

- `rows`: the cells of the table as last laid out (id and quantity shown, tag);
- `screen`, `form`, `total`: what is on top of the tab, with the sheet's fields
  and the figures of the total alert;
- `load`, `delayed`: the blocks on the main queue;
- `trap`: the runtime check that ended the process (`index`, `nil` for the unwrap of
  a price, `url` for that of the chart's URL, `overflow`, `cast`, `position` for the
  unwrap of a row's position, `rows` for the exception UITableView raises when the
  row count is inconsistent). After a trap only
  `Relaunch` is possible; `Relaunch` is possible at any other time too, which is
  the app being killed;
- `aim`: history. The investment on the row whose button was pressed, and whether
  the table was settled (no delayed reload outstanding) then. No action reads it.

Correspondence of the actions: `ApplyPrices`, `PostReloadItems`, `LoadFails`,
`LoadNotString` are `initializeData`; `Search`, `TapEdit`, `TapDelete`,
`ConfirmDelete`, `TapStepper`, `TapChart`, `ShowTotal`, `DelayedReload`,
`TraitChange`, `Scroll` the list's; `AddNew`, the `Pick...`, `StepAmount`,
`TypePrice`, `AddButton...`, `CancelForm` the sheet's. `map` in `PROJECT.json`
gives the lines of each.

Taken as given about the platform: a visible table lays out all its rows on
`reloadData` (a phone shows about two at a time; `Scroll` lays out any row again,
and laying out early only makes traps earlier); a hidden table lays out none;
`UserDefaults.set` is durable; `deleteRows` moves cells with their tags and raises
unless exactly the deleted row is missing; steppers change by one; the keyboard of
the price field has digits only. The catalogue's prices are pairs of naturals. The
sheet's five rows fit the screen, so its `cellForRow(at:)` is never nil, and a colour
is one of the picker's, which are the chart's. Whether the URL that `rlInsiderChart`
makes of an item's `itemUrlName` exists depends on the characters that are left when
the spaces are replaced: `NoURL` is any set of items for which it does not, and an
item's name and prices determine it.
Left out: labels, colours, icons, the web page of the chart.

### Ledger

The abstract specification: a book of entries under ids. An entry is entered
under an id above all in use, only when its item has a price; removed; amended;
its quantity set; or repriced, together with any others, by items of the same
name. `Investments` implements it with `book` read off the saved portfolio
(`LedgerSpec`): no crash, launch, stale tag or search ever does more to the
portfolio than one of these.

### Scrapper

`Site[e][p]` is the table of platform `p` in edition `e` of the site. A call reads
the pages in `FetchOrder`; each read returns the table, a prefix of it (still
loading) or no table. Prices are the integers a cell's text parses to, or
`NoPrice`; the parsing of the text in floating point is not modelled. `compile`
is the merge by id, including the line that files the white price as the PC
default. A call may die at any point. `set` of the database node is atomic.
`began`, `whole`, `overtaken`, `lost` are history for the properties.

### XPlat and CatalogueBrowser

`XPlat` has the main queue as a sequence of blocks (`reloadItems`, `reloadPlatforms`,
`sort`), run in order between any two taps. `reload` computes the entries at once
and leaves the sorting to a block, so several of both may be under way. Rates are
exact fractions with 0 / 0 undefined; the rounding of Float is left out. `from` and
`swiped` are history. `CatalogueBrowser` has the two tables over `filteredData`,
each with the rows it laid out last; a table that is not on the screen lays out when
it next appears.

### The pods

Each module has one component's state and one action for each step another actor
can see: a critical section of a mutex, an atomic of the skip list, a call of the
file system (with its failure), a block of a serial queue. Bytes are small numbers,
sizes are scaled (blocks of a few bytes, files of a few entries, a buffer of three
bytes); the widths of nanopb's numbers are the real ones.

Taken as given: the file system is POSIX's, and a crash of the machine loses any
part of what was not synced; the checksum is linear over a generator of reduced
degree; a Bloom filter's hash is any function; sequence numbers are given out once;
entries are shorter than 128 bytes, so that an undamaged length is one byte; the keys a
merging iterator meets are distinct. Of nanopb: the caller zeroes a structure before it
decodes into it. Of the event transport: the write of the counter and the moves of
batches succeed, the session ends every task it starts, and the numbers of a request
are small.

`Block` is byte for byte, and any one byte of a block may be replaced by any of its
`Damages`. A block read without its checksum may then show keys that nobody added: a
`shared` or a length that is wrong but within the block is taken as it is
(`block.cc:235-250`). What is checked is that nothing outside the block is read, that
a block that was not damaged shows its entries, and that a walk ends and ends with an
error unless it has met the end of the entries. That damage does not come
out as data is what the checksums of `Table` and `LogFormat` are for.

## Runs

| Run | Instance | Checks |
|---|---|---|
| `list` | 2 items, 3 investments, texts "", " ", "n1", 2 delayed reloads, ids up to 2 | `UniqueIDs`, `Durable`, `FilteredIsView`, `TableInSync`, `TagsDrift`, `EditTarget`, `ListComplete`, `DeletesAimed`, `StepsByOne`, `CrashCauses`, `LedgerSpec` |
| `prices` | 1 item in 2 colours, 2 investments, 4 catalogues, a price above Int.max | `TypeOK`, `PricesCurrent`, `OnlyRefreshUnprices`, `CrashCauses`, `LedgerSpec` |
| `liveness` | 1 item, 3 investments, 2 delayed reloads | `TagsSettle`, `CatalogueShown` |
| `scrapper` | 2 platforms, 2 colours, 2 editions, 2 calls | `AsListed`, `Complete`, `SamePrices`, `NewerUnlessOvertaken`, `CatchesUp` |
| `formats` | 25 parts: what leveldb, nanopb and the transport write and read | `LookupsRight`, `ReadsBack`, `DamageContained`, `MemoryOwned`, `Cursors`, `ErrorsSurface` |
| `store` | 26 parts: what is kept, and the two tabs | `WritesAnswered`, `NothingLost`, `ReadsRight`, `HeldIsAlive`, `KeptApart`, `ScreensRight`, `StepsStable`, `EventsKept` |
| `progress` | 10 parts under fairness | `CallsReturn`, `LetGo`, `WorkDone` |

The first four show that ids stay unique and the portfolio durable; that the table
shows the portfolio's entries in order; that a tag is too large by at most the number
of delayed reloads outstanding, so on a settled table every button acts on its
own row; that each failing runtime check has the cause `CrashCauses` names for its
kind (a necessary one: a search text does not make UITableView raise, but without one
it does not); that the database is never given a price from a wrong row, column or time (one column
aside), and catches up with the site once calls stop being lost.

The last three are instances of `MCParts`. Its variable `part` names the component a
behaviour is one of, and does not change; the others are that component's variables,
given by the INSTANCE. Components that share no state have nothing to interleave, so
an invariant holds of all of them together just when it holds of each alone, and one
run of three specifications (`FormatsSpec`, `StoreSpec`, `ProgressSpec`) asks one kind
of question of all of them. A property of `MCParts` says of each part what that
component's module says of itself, e.g. `ScreensRight` is `BestFirst`,
`RowsOfCatalogue`, `SettingsApplied` and `CrashOnZero` of `XPlat` and `IndexInRange`,
`WholeCatalogue`, `AlertOfRow` and `SelectionInSync` of `CatalogueBrowser`.
`Cursors` is the refinement of `SortedCursor` by `Block`, `Iterators` and `DBIter`.

Three runs about the app, one about the scrapper and one about leveldb show the code
doing otherwise than the repository says:

- `tag`: of three investments the first is deleted, and within half a second the
  delete button of the row that is now first is pressed: its tag is still the second
  position, two investments are left, and the last is removed in place of the one
  whose button was pressed (`DeletesPressed`), against the comment in `deleteItems`.
  The handler corrects only a tag one past the end;
- `nil`: a catalogue drops a price, the list crashes now and at every launch,
  against the comment in `cellForRowAt`;
- `blank`: an empty price field is accepted as 0, against the alert's text;
- `default_price`: the default colour's PC price is that of Titanium White,
  against the README's "respective prices";
- `lock`: a second client of a process is refused, its descriptor is closed, the
  process loses the lock of the LOCK file with it, and another process gets the lock
  (`OneProcess`), against `env.h:142`.

### Disagreements that have no run

The modules also define what other comments and documents say and the code does not
do. Each is an INVARIANT or PROPERTY that TLC refutes on an instance like the one of
its part in `MCParts`:

| Definition | Says | What happens |
|---|---|---|
| `Investments!TotalOfEverything` | the total is of everything added (`README.md:11`) | `showTotal` sums the rows the search left |
| `XPlat!AlertNamesPlatforms` | an alert's prices are of the platforms it names | the sheet is swiped away and the table not computed again |
| `XPlat!BestRateOnTop` | the first row has the best rate (`README.md`) | `low + high / 2` is not the middle of a range |
| `DBWrite!FlushForced` | TEST_CompactMemTable empties the memtable (`db_impl.h:56`) | its null batch is joined to another writer's group |
| `DBWrite!ManualCancelled` | an aborted manual compaction is let go (`db_impl.cc:619`) | the background thread writes through the null pointer |
| `DBRecovery!SyncCoversEarlier` | a synced write is like fsync (`options.h:179`) | the log before the last switch is never synced |
| `DBRecovery!CanBeOpened`, with `Machine` | a created database is there (`db_impl.cc:283`) | NewDB does not sync the first manifest |
| `DBRecovery!NothingLost`, with `ReuseLogs` and `Machine`, or `AppendMayFail` | writes are kept as `options.h` says | later records follow a torn one and are dropped with it |
| `Compaction!LevelsDisjoint`, with `ManualRanges` above level 0 | files of a level do not overlap | a flush lands in the gap of a manual compaction's inputs |
| `Compaction!CompactRangeDiscards` | deleted versions are discarded (`db.h:138`) | the levels are chosen before the memtable is flushed |
| `LogFormat!SilentResync` | resynchronising reports nothing (`log_reader.h:103`) | kBadRecord ends it early |
| `DBIter!JustBefore` | where the internal iterator stands (`db_iter.cc:44`) | it may be further back, which does no harm |
| `ReadableFiles!RefusedOnlyWhenFull` | Acquire takes what is available (`env_posix.cc:73`) | it subtracts before it looks |
| `WritableFile!ManifestSafe`, system writes early | new files are named only once they exist (`env_posix.cc:302`) | the manifest was flushed before |
| `Repair!AllRecovered`, a second repair; `NewestFirst`; `NoBadSequence` | `db.h:158`, `version_set.cc:350`, `repair.cc:169` | archived too early; logs numbered in directory order; no checksums |
| `WriteBatch!Atomic` | a batch is applied whole (`write_batch.h:5`) | a malformed one is refused after part of it went in |
| `PbWire!NarrowExact` | a varint too large for 32 bits is refused (`pb_decode.c:238`) | only when the fifth byte is the last |
| `PbMessage!ReleasedAll`, a union's submessage twice | pb_release frees everything (`pb_decode.h:101`) | memset loses the first one's pointers |
| `EventUpload!SingleUpload` | one upload at a time (`GDTCCTUploader.m:74`) | an attempt that was not ready clears the flag |
| `EventUpload!WifiOnlyOnWifi` | `GDTCOREvent.h:43` | a high priority upload selects every tier |

### Bounds

`MaxInvestments`, `MaxID`, `MaxDelayed`, `MaxEdition` bound the model, not the
code. Three investments are the fewest in which a stale tag can point to a third
entry; two delayed reloads are the fewest that the correction of a tag past the
end cannot cover; `MaxID` lets an id be used again after the highest is deleted.
A text matching one item, a text matching none, " " and two matches reach every
branch of the deletion handler. `MaxInt` = 1000 with a typed price of 5000 stands
for Int.max. Two editions and two calls are the fewest in which one call
overtakes another.

In `MCParts` each instance has a comment saying what its values make happen: as many
threads as a lost wakeup needs, as many writes and levels as an entry hidden behind
another needs, two crashes so that what a recovery left is recovered again, values on
both sides of each limit (of a buffer, a block, a table's buckets, a cache's capacity,
a width). Calls that fail are bounded by a count (`MaxFaults`, `MaxCrashes`, ...):
where it is positive, any of the calls the module lets fail may be the one. Where it
is 0 the instance says nothing of failures: so it is in `AfterExit`, which ends the
process at every step instead, and in `Compacting`, the instance of `DBWrite` with
manual compactions, because `ManualCancelled` (above) fails there.

### Fairness

`Investments`: weak fairness of `PostReloadItems` and `DelayedReload`, blocks the
main queue runs; none of the user, of the database's answer, or of the launch.
`Scrapper`: weak fairness of some request (the timer's schedule) and of the steps
of a call that has not died. That calls eventually stop dying and pages load
whole is no fairness assumption but the premise of `CatchesUp`.

`ProgressSpec`: weak fairness of each serial queue and of the thread inside a call
or holding a lock; the main queue for `XPlat` (`Turn`). leveldb's writers, background
thread and destructor have strong fairness, because each step waits for `mutex_`,
which others take between any two of its attempts and which lets every waiter in at
some time. A thread asleep on a condition variable has none: to be woken is part of
what `CallsReturn` shows. Nothing is assumed of the network or the user beyond that a
request ends, with an answer or an error.

## Proofs

Everything below is proved for all values of the constants: any number of items,
texts, catalogues, calls and platforms, under the named assumptions of the modules,
which say what kind of thing a constant is.

### Investments

From two inductive invariants, `IInv` and, given it, `JInv`:

| Theorem | Property |
|---|---|
| `TypeCorrect`, `IDsUnique`, `PortfolioDurable`, `SheetKeepsItsTarget` | `TypeOK`, `UniqueIDs`, `Durable`, `EditTarget` |
| `PositionFound` | the force unwrap of a row's position never fails |
| `SourceIsView`, `RowsInSync`, `TagsDriftBounded` | `FilteredIsView`, `TableInSync`, `TagsDrift` |
| `NothingMissing`, `NoOldPrices` | `ListComplete`, `PricesCurrent` |
| `DeletionHitsItsRow`, `StepperHitsItsRow`, `SheetsNeverUnprice`, `CrashesExplained` | the action properties `DeletesAimed`, `StepsByOne`, `OnlyRefreshUnprices`, `CrashCauses` |
| `ImplementsLedger` | `LedgerSpec`: the refinement of `Ledger` |

`IInv` is types, ids and disk. None of its parts is inductive
alone. `UniqueIDs` needs that the sheet's id is fresh (when adding) or already at
`cellTag` (when editing, `EditTarget`); `TypeOK` needs that an open sheet has its
fields (`SheetFilled`) and that a reload finds every row, which needs that the
data source holds only entries of the portfolio (`FilteredWithin`); a launch
keeps the ids unique because disk and memory agree (`Durable`).

`JInv` adds the table and the prices. `FilteredIsView`, `TableInSync` and `TagsDrift`
need each other: a tag is compared with a position in the portfolio, which is known
only for rows of a view of it. What had to be added:

- `NothingYet`: before the catalogue is there, no table and no item. Without it a
  load could find rows laid out from nothing, or a sheet with an item of no catalogue;
- `HiddenEmpty`: a hidden table has no rows, so its tags are vacuously right, and
  nothing is to be confirmed on it;
- `FormCurrent`: the item of an open sheet is as current as the portfolio's. It is
  what `PricesCurrent` needs when Done is pressed;
- `FreshID`: a new id is above all in use, which is more than new. The ledger asks
  for it;
- `NoneAimed`, `Aimed`: what the history variable says of an open dialog: if the
  table was settled when the button was pressed, `cellTag` still is the position of
  that investment, because nothing can be deleted or added before the dialog closes.
  `DeletesAimed` follows. It needs `AimAssumption`, that the "no aim" is not an aim.

The proof goes action by action (`QuietSteps`, `SheetSteps`, `ListSteps`,
`DeleteStep`, `AddStep`, ... for `IInv`, and their counterparts for `JInv`) on lemmas
about the helpers: what `Position`, `investmentID`, `Filter`, `Refresh` and
`RemoveAt` return, and what a view is after each (`View`). The refinement maps each
action to the one step of `Ledger` it takes or to a stutter; it needs `Durable`
for the mapping and `FreshID` and `EditTarget` for the guards.

### Scrapper

| Theorem | Property |
|---|---|
| `TypeCorrect` | `TypeOK`: what is published is a catalogue the app can decode |
| `PublishedAsListed` | `AsListed` |
| `NothingLeftOut`, if `RowsAgree` | `Complete` |
| `TwiceTheSame`, if `OneID` | `SamePrices` |
| `OldOnlyWhenOvertaken` | `NewerUnlessOvertaken` |

The inductive invariant says that each page a call holds is a prefix of an edition
that was online since it began, all of it if the call is `whole` (`PagesRead`), that
the node holds the merge of such pages (`Source`), and that a call not overtaken
began when the node's call had ended (`BeganLater`). The rest is about `parseTable`
and `compile` (`CompileProperties`, `CellListed`, `MergedAsListed`). Two theorems have
a hypothesis on the site, and both are false without it. `RowsAgree`: rows of a page
with one id have prices in the same columns; `parseTable` keeps the last of them, and
what an earlier one has beyond it is lost. `OneID`: rows of the PC page with one name
have one id; else the two are two items with prices of their own. The source does not
check either; the site keys its rows by item, and `MCScrapper` checks both of the
instance that the run uses, in which rows do share an id.

### CatalogueBrowser

`NoIndexTrap`, `TabShowsCatalogue` and `TouchHitsItsRow` prove `IndexInRange`,
`WholeCatalogue`, `AlertOfRow` and `SelectionInSync`. That no index is out of range
depends on the lengths of three lists that different handlers replace: a table on the
screen has no more rows than `filteredData`, the Prices tab's never more than the
catalogue, and coming back to the tab puts the catalogue in place (`RowsWithin`);
which rows it has depends on whether the catalogue was there and announced when it was
laid out (`NothingYet`, `ListOfTab`, `RowsOfTab`).

### XPlat

`SettingsReachTheTab` proves `SettingsApplied`, which speaks of an empty queue only.
The invariant `WorkQueued` says what the queue holds otherwise: on the tab, unless a
sheet was swiped away, a reload is queued, or the table is of the platforms chosen and
a sort is queued or has been done.

`TabTyped`, `TabInOrder`, `TabIsCatalogue` and `TabTrapsOnZero` prove `TypeOK`,
`BestFirst`, `RowsOfCatalogue` and `CrashOnZero`, for any colours, catalogues and
platforms that have their types (`XPlatAssumption`). With `SettingsReachTheTab` and
the theorems of `CatalogueBrowser` nothing of `ScreensRight` is only model-checked.
There are two halves:

- what `reload` computes. The scan ends at an entry that no entry with a rate is above
  (`HighestIsHighest`), because rates that are defined are totally ordered
  (`RatesCompare`: a price may be zero, then a rate is infinite, or undefined and below
  nothing). The selection sort gives a permutation in order (`SortSorts`): after k
  rounds k entries are moved, no entry occurs more or less often in the two lists
  together, and what is left is not better than what is moved (`SortedUpTo`);
- that it is computed from the right thing. `XInv` has what the properties do not say
  because they speak of a table that is shown: a tab that was never opened has no
  table and no block that would show one (`Unopened`); the catalogue is either not read,
  announced by a queued block, or announced (`Unread`, `Unannounced`), so that a table
  is empty or the catalogue's (`RowsInv`), also while it is hidden.

### FileLocks

`TableIsExact` and `OneHolderPerProcess` (`TableExact`, `OnePerProcess`) hold for any
number of clients and processes that try, fail, die or cannot unlock; the invariant
`Tabled` says for whom the table of a process has the file. `OneProcessHolds` is
`OneHolder`, what `env.h` promises, if every process opens the database once
(`OneClientEach`): then who has the lock has it from the system (`Owned`). Without that
hypothesis it is one of the disagreements above.

### FileString

`CurrentIsWhole`, `ReadsAreWhole` and `FailuresUndone` (`CurrentWhole`, `ReadWhole`,
`FailedUndone`), for any strings, sizes of the buffer, failures and exits. The temporary
file is complete before the rename (`TmpComplete`), CURRENT is as a call found it until
then (`Untouched`), and a read has the part of the file before its offset (`PartRead`).

### VersionRefs

For any finite number of threads, versions and files (`RefsAssumption`):
`VersionsCountedRight`, `FilesCountedRight`, `PointersAreLive`, `ListIsRight` and
`ClosedIsEmpty` prove the five properties of `HeldIsAlive` about versions. The counts
(`VersionsCounted`, `FilesCounted`) are kept by hand in the code, in four places that
each change several at once; the invariant `IInv` adds what they need of each other:

- `PendingAlone`: a version that waits for the MANIFEST is nobody's, so that its
  deletion when the write fails, without `Unref`, takes it from nobody;
- `Blank`: a version that is deleted or not made lists no file, or the counts of files
  would be of versions that are gone;
- `Remembered`: a file that a compaction, a Get or a version's mark remembers is in a
  version that the same holder holds. `PointersLive` follows, because a held version
  is not deleted and its files are counted;
- `AllEnded`: nobody is left at `Close`. `ClosedEmpty` follows from the counts.

`ListInv`, given `IInv`, is about the circular list: an ascending chain of the installed
versions through the dummy (`Chain`), and a version that is not in it is linked to
itself, so that unlinking it changes nothing. `ChainRemoves` and `ChainAppends` say of
any chain what the four assignments of `~Version` and `AppendVersion` do to it.

### ListLemmas

Facts that all of them need: a bounded set of naturals has a greatest member, a
finite set of positions an ascending enumeration (`AscendingExists`), what
selecting by it, joining and removing do to a sequence, how often a value is in a
sequence when one is appended or removed, and that a loop of n rounds has the states it
computes (`LoopExists`). What needs induction is an argument from a least
counterexample (`LeastNatural`, `Upwards`); with these, what a recursive function
computes is proved for the loops of `XPlat`.

### Only model-checked, and why

- `TagsSettle`, `CatalogueShown`, `CatchesUp` and the run `progress`: liveness, which
  with fairness and `ENABLED` is out of the prover's reach.
- `DefaultAsListed` and the other properties that a run refutes.
- The other modules of the pods. Many are formats, whose properties are inductions over
  bytes; of the others, invariants like those of `ReadableFiles` and `Snapshots` are
  within reach and not proved yet.

## Not modelled

Labels, colours and layout; the text of prices and its parsing in floating point
(`int(float("32.3") * 1000)` may be one below the price shown); the chart's web page;
groups, which nothing reaches; the older scrappers; directory calls and wrappers of
leveldb's environment, its C interface, histogram and dump tools; the variants of
nanopb that the pod does not build; a union that mixes members in place with
allocated ones; SocketRocket's base64; the Objective-C of the database client.

## Plan

1. Proofs about the components of leveldb that keep counts beside `VersionRefs`:
   `ReadableFiles` (`Conserved`) and `Snapshots` (`SmallestSafe`).
2. A composition of `Scrapper` and `Investments`, so that a page read while loading
   reaches the portfolio as a missing price.
