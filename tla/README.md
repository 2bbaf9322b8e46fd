# A TLA+ model of datatug-core

`datatug-core` is the Go library under the DataTug command line tool and agent: it
scans the catalog of a database, keeps projects as trees of JSON files, and writes
their documentation. This directory holds TLA+ modules for the parts of it where
order, concurrency or failure decide the outcome, TLC configurations that check them
on small instances, and TLAPS proofs for every size of what the rest stands on. Paths
below are relative to `src/`. `PROJECT.json` maps each definition to the lines it
models and gives each checked property a mutation of the code that breaks it.

To repeat a check: `tlc -config MCParallelRun.cfg ParallelRun`, and so on by the
table of runs; `tlapm ParallelRun_proofs.tla`, and so on for each `..._proofs` module.

## 1. Inventory

### Modelled

**Parallel runner** (`pkg/parallel/runner.go`). `Run(workers...)` starts one
goroutine per worker function and waits for all. State: a WaitGroup, a mutex, the
slice of errors, all local to the call. Used by the scanner, every `loadDir`, saving
and loading projects. Hard: the append to the slice by several
goroutines at once, the caller's read of the slice without the mutex, the
`wg.Done()` that is not deferred. Right when: no error is lost, it returns only after
the last worker and always does, its error counts the failures and quotes the first.

**Bulk catalog scan** (`pkg/schemer/scanner.go`, `sorted.go`,
`scan_constraints.go`). `ScanCatalog` reads the collections, then three workers read
the streams of columns, constraints, indexes with index columns, while one more per
table counts its records. State: the catalog's schemas, tables and indexes; a cursor
per stream; the local `err` of `scanTables`. Interactions: the provider is called by
all workers; the workers change one set of tables; `parallel.Run` collects. Hard: one
shared `err` variable without a lock; cursors that never go back; a deadline that may
pass anywhere; rows of one key that are not next to each other. Right when: every row
lands at its table whatever the interleaving, the two sides of a foreign key agree,
and the result is nil only if all was read.

**Per-table catalog scan** (`pkg/schemer/scan_by_table.go`). The same for a provider
that is asked table by table: three levels of parallel runs (tables; columns and
indexes; index columns), then the constraints one table after the other. Hard: an
error has to climb three levels; a deferred function builds the primary key after
failures too; the loop over constraints looks at no deadline.

**Referenced-by tree of the table readme** (`pkg/datatug2md/table_to_readme.go`).
`walkReferencedBy` recurses over the tables that refer to a table. State: the map of
processed tables, the recursion. Hard: circles; tables reached on two ways; the
dropped error of a nested walk; headers that hang on the index of the first entry.

**Project items store** (`pkg/storage/filestore/project_items_store.go`,
`saver_filesystem.go`, `loader_internals.go`). Save, load, list and delete of one
kind of item: as `<dir>/<id>.<suffix>.json` (entities, boards, queries, servers) or
as `<dir>/<id>/<summary file>` (environments, folders, drivers). State: the disk.
There is no lock, temporary file or rename. `datatug serve` puts one store under
concurrent HTTP requests, and the CLI runs beside it. Hard: the moment between
truncation and write; a write that fails after the truncation; a listing that opens
later what it has read the names of; two deletes; four operations that compute the path
in four ways; crashes.

**Whole project store** (`store_project_saver.go`, `store_loader.go`,
`pkg/datatug/project.go`, `store_options.go`). `SaveProject` and `LoadProject` do
their parts in parallel over the items stores. Hard: a part that fails while the
others are written; a load during a save; items that are gone from the project but
not from the disk; `Created` missing; a load depth counted down to 0, which means no
limit.

**Database objects loader** (`pkg/storage/filestore/loader_internals.go`). Reads
catalogs, schemas, tables and views of a database server, four nested levels of
goroutines. Hard: appends without the mutex that `loadDir` offers, a named result
shared by goroutines, slots by place in the directory. Its entry points are called
by the package and its tests only at this commit.

**User settings** (`pkg/dtconfig/settings.go`). `~/.datatug.yaml` is read, changed
and rewritten by every command that adds a project, each a process of its own. Hard:
read-change-write without a lock, truncation before encoding, two writers at once; a
text that is written piece by piece, so that what a crash, a full disk or a rival leaves
of it may still decode, with projects or parts of an ID missing or an ID twice.

**Queries store** (`store_queries.go`, `store_queries_saver.go`). A query that
`CreateQuery` makes is two files, JSON and text; `UpdateQuery` and `SaveQuery` keep
the text in the JSON file; `CreateQueryFolder` writes a README once. State: the disk,
shared as above. Hard: what is left between the two files by a failure, a crash or a
rival; texts that outlive their query. Right when: a query that was changed without a
rival is what the call has made of it, with its text; no text comes before its query;
an edited README stays; whoever loads sees a table of queries.

**Model types and their validation** (`pkg/datatug`). Some fifty `Validate` methods
that call one another along the structure of a project. State: none, but for a folder,
whose validation drops its zero counts, and the way through JSON. Hard: a part no rule
looks at; nil pointers; a key compared with the wrong list; defaults that change type
on disk. Right when: a defect is refused wherever it sits, and what was accepted stays
acceptable.

**Project creator** (`pkg/storage/dtprojcreator`). `CreateProjectFiles` writes three
files by three goroutines with a WaitGroup, a mutex and a callback for their status.
Hard: statuses against files and errors, and all of it against the return of the call.
The root file is written from an empty list: creating a project replaces what
`.datatug.yaml` said of others.

**Project in memory** (`pkg/datatug/project.go`). `GetDBs` loads drivers and servers
once and keeps them; `GetProjDbServer` and `AddProjDbServer` work on what it keeps.
Interactions: `LoadProjDbDrivers` of the file store, which lists the drivers'
directories and then, a goroutine per driver, lists and opens their servers, while others
may change them. Hard: a load that failed in part is kept, and later calls return it
without an error; a load sees the store at several moments; an empty directory is kept
and a missing one is not; a driver's entry is appended on every addition.

### Not modelled, or not yet

| part | why |
|---|---|
| Reading of queries | `LoadQuery` and `LoadQueries` go through the items store, which `ItemsStore` models |
| `GetEnvironments` | keeps its list as `GetDBs` does |
| Variables, recordsets of results, marshalling of single fields | field checks without state |
| Database comparator (`pkg/comparator`) | pure and sequential; left out for the parts where order and failure decide |
| DB models, environment servers, recordsets in the loader | `loader_internals.go` has them in the manner of `CatalogLoad`, and only tests call them |
| `GetProjects`, the summary file | small sequential readers |
| Disabled savers (`store_dbcatalog.go`, `store_dbserver.go`, ...) | commented out as a whole: no code to model |
| Schema readers, connection parameters, DTOs, storage registry | interfaces, parsing and records without state |
| Readme templates and encoders | text without state |

## 2. Modules

| module | models | state |
|---|---|---|
| `RunContract` | what a caller of `parallel.Run` relies on | `outcome`, `result` |
| `ParallelRun` | `parallel.Run` step by step; implements `RunContract` | `pc`, `wg`, `mutex`, `seen`, `errs`, `spawned`, `outcome`, `result` |
| `ParallelRun_proofs` | theorems about `ParallelRun` | |
| `TableKeys` | `processConstraint`, `SequentialFind`, `FindTable` as operators | |
| `ScanState` (extends `TableKeys`) | what both ways to scan have at hand | `db`, `late`, `keys`, `result` |
| `BulkScan` (extends `ScanState`) | the bulk scan | catalog read so far, one record per stream, `err`, the workers |
| `TableScan` (extends `ScanState`) | the scan table by table | read position and state per table and index, keys, `at` in the constraints loop |
| `Scans_proofs` | theorems about `BulkScan` and `TableScan` | |
| `RefByWalk` | the readme's walk | recursion as `stack`, `processed`, the lines `listed` |
| `RefByWalk_proofs` | theorems about `RefByWalk` | |
| `ItemsStore` | the generic items store | `files`, `dirs`, one call per client; history `settled`, `torn` |
| `Items_proofs` | theorems about `ItemsStore` and `ItemLife` | |
| `ProjectStore` | whole projects over the items stores | `disk`, per client what its goroutines have still to do; history `settled` |
| `CatalogLoad` | `loadDbCatalogs` and below | slices as slots and length, state per goroutine, shared `err` |
| `CatalogLoad_proofs` | theorems about `CatalogLoad` | |
| `QueryTable` | what the queries store promises to those who load | `table` |
| `QueriesStore` | the queries store; implements `QueryTable` | `json`, `texts`, `dirs`, `readme`, one call per client; history `settled`, `once` |
| `QueriesStore_proofs` | theorems about `QueriesStore`, its refinement included | |
| `ModelRules`, `ProjectRules` | the types with a sound sample and the rules of each | |
| `Pointers` (extends `ProjectRules`) | what the rules go through without looking, type by type | |
| `FolderRules` (extends `ProjectRules`) | the rules of folders in folders, which call themselves | |
| `ItemLife` (extends `Pointers`) | an item made, validated, saved, loaded, saved again | `root`, `item`, `flaw`, `file`, `step`, `verdict` |
| `ItemDefects` (extends `ProjectRules`) | from a sound item all with one defect more, for `MCItemLife` | |
| `ProjectCreator` | `CreateProjectFiles`; implements `RunContract` | `at`, `files`, `shown`, `outcome`, `errs`, `result` |
| `ProjectMemory` | a `Project` with its drivers and servers | `store`, `loading`, `list`, `objects`; history `added`, `always`, `ever`, `reported` |
| `ProjectLife` | both of these: a project is created, then used | |
| `ProjectLife_proofs` | theorems about creator, its refinement included, project in memory, and `ProjectStore` | |
| `Settings` | `AddProjectToSettings` | `file`, one call per process; history `kept`, `damaged`, `misread` |
| `Settings_proofs` | theorems about `Settings` | |

`MC...` modules give small databases, trees, projects and items; `ParallelRun`, `RefByWalk`
and `ItemsStore` need none and are run directly.

How they fit: `BulkScan`, `TableScan`, `CatalogLoad` and `ProjectStore` use `parallel.Run`
as `RunContract` describes it (the call waits for every worker and fails if one did), and
`ParallelRun` is shown to implement that contract, by TLC with liveness and by proof for
safety. The two scans share `ScanState` and `TableKeys`, as they share `ScanCatalog` and
`processConstraint`; their specifications are `Spec` and `TableScanSpec`. `ProjectCreator`
is a runner of its own and is shown to keep `RunContract` WITH `N <- 3`, by the same
instance. `ProjectStore` takes an item's save as truncate-then-write, the steps
`ItemsStore` and `QueriesStore` have. `QueriesStore` implements `QueryTable` WITH its JSON
files for the table; texts and READMEs are hidden. `ItemLife` puts the rules between the
two ends of `saveJSONFile` and `readJSONFile`: `ItemsStore` begins where it says that an
item is valid. `ProjectLife` composes creator and memory in sequence: a project is used
when its creation has returned without an error. `CatalogLoad` has the goroutines of
`loadDir` one by one, `ProjectMemory` every listing and every opening of a file that
`LoadProjDbDrivers` makes, each by the goroutine of its driver.

Conventions. An action is one atomic step of a goroutine: a system call, a call of the
provider, a critical section, one access to a variable that is shared without a lock.
Work on variables of one's own is part of the next such step. Two places take more than
one of these together. A look at the deadline and the read of a row that follows it are
one step of a scan. A file is opened and read at once in the stores, where one read
takes what is there; `Settings` has the two apart, and its reads and writes in pieces.
Where the Go memory
model gives no order (`err` in `scanTables` and in `loadDbCatalogs`), the test and the
return see either the value the goroutine has itself assigned (the compiler may have
kept it in a register) or what memory holds. An append without a lock reads the length
in one step and writes element and length in another. Definitions named after a
mistake (`DoneTwice`, `MadeFull`, `SequentialFindByName`, ...) and marked as mutants
are not part of any specification: they are the changed code each property catches.
Where a module has a `TypeOK` it says what the variables hold; it is proved where a
proof module speaks of it, and the runs spend their time on what could go wrong.

How `ItemLife` abstracts. A type is a record of its fields, in the order in which
`Validate` looks at them; a string is good, empty, blank, too long or misspelt; a list has
one element. `First` evaluates rules in order up to the first that errs or panics. The
items are a constant, `Inputs`, as are the rules of nested folders, `ValidateTree`: the
proofs hold for any. `MCItemLife` gives `FolderRules` for the rules, and for the items
what `ItemDefects` makes of a sound one: every item with one defect, a field with a value
of its type that is wrong or a pointer that is nil, at any depth. `Shaped(type, item,
safe)`, by the predicates of `Pointers`, says that an item has the lists of its type (what
`Inputs` may be assumed to be), and with `safe` that validation has nothing to fall over
in it: no nil where a pointer is followed, no `null` for the data of a check, no key too
long. A map of counts is a function of positions, which loses those `WithoutZeros` drops.
`Unread` and `NilAllowed` list the parts where the code looks at nothing or at nil on
purpose, and `NoDefectSlipsThrough` says that among the parts modelled there are no
others. Some fields that no rule reads are not modelled at all, and nothing is said of
them: `CollectionInfo.AlternateKeys`, the `Issues` of a column and others like it,
`QueryDefTarget.Credentials`, `ParameterDef.Lookup`. `Decoded` is what a file gives back
of an item: parameters of a query and of a board's widgets, whose data is decoded from a
map, have their integer defaults as float64; an entity loses the tags that are not
stored; a folder its zero counts.

## 3. Runs

Passing runs; the figures are distinct states.

| run | instance | states | shows |
|---|---|---|---|
| `parallel_run` | 4 workers, each may fail | 4 453 | `NoLostError`: the errors that are through the critical section are all in the slice, once. `ImplementsContract`: every step is one of the contract's. `RunReturns` |
| `bulk_scan` | 5 databases of 2 or fewer tables | 414 000 | `RowsLandInOrder`, `OrderDecidesFind` (a stream in the order of the collections is found row by row, any other never ends well, so none is cut short in silence), `ReferencesMirrored`. `LateScanFails`: a scan that is late before any of its workers is at the end of its rows fails, and soon |
| `table_scan` | 2 databases of 2 tables | 23 600 | `NoErrorNoGap`: nil means everything was read, three levels down. `PrimaryKeyOrdered`, `TableScanEnds` |
| `ref_by_walk` | every graph on 3 tables, every set of known ones | 30 900 | `ListedOnce`, `TreeIsComplete` (exactly the transitive referrers; an unknown one fails the readme at the root only), `NestedUnderParent`, `WalkEnds` |
| `items_store` | 2 callers, 2 items, 2 contents, crashes and failing writes | 1 450 000 | `SettledContent`: what a change without a rival has left stays. `ListIsComplete`. `FailuresAreRaces`: a delete, a list or a load fails in a race, or over the remains of a save that died or failed |
| `project_store` | 2 callers, 2 calls, 4 projects, 3 disks, crashes, one failing system call per call | 577 000 | `RoundTrip`: a load holds, part by part, what the saves have made of the project. `LoadFailureExplained` |
| `catalog_load` | 4 trees of up to 3 tables, 2 schemas, 3 catalogs | 18 900 | `SchemasInPlace`, `FailureClimbs`, `AppendsLeaveNoHole`, `LoadEnds` |
| `settings` | 3 processes, 2 projects, crashes and failing writes, symmetry in both | 459 000 | `IdsUnique` and `KeptStay`: a list that is known has no ID twice and every project that was added alone (calls that race may lose each other's and no other); what is in the file is known unless a process has died or failed at writing, two have written at once, or one has read what another was writing. `FailuresAreExplained`: a call that is alone fails for a reason of its own or after such damage |
| `queries_store` | 2 callers, 2 folders, one ID, 2 texts, crashes and failures | 4 450 000 | `SettledQueriesKept`: a query's files are what the last lone call has made of them. `NoTextBeforeQuery`, `EditedReadmeKept`, `ImplementsTable` |
| `item_life` | 19 kinds of items, one defect each; recordsets of up to 3 columns and keys of up to 3 names; queries and boards with integer defaults | 5 569 | `NoDefectSlipsThrough`: a defect is refused, or panics, or passes, exactly as the lists of parts say. `PanicsAreNilOrLongKeys`: no panic without something to fall over, and nothing with it is accepted. `SavedItemsStaySound`, `KeysInOrderAccepted` |
| `project_life` | 3 steps that fail anywhere; 2 drivers, 3 servers, 3 additions, 2 changes of the store at any step of a load | 386 000 | `StatusesAreTrue`, `LastWordFirst`: nothing is shown that is not so, or after the return. `CreatorKeepsContract`. `LoadedPlusAdded`: after a load without an error the project has what was in the store all through the load and what was added, and nothing that was in the store at no time of it. `AddedIsFound` |

One run ends in a violation, because the code and its tests disagree:
`bulk_scan_errors` finds that a worker that ends well between another's `err = ...`
and its `err != nil` hides the failure; `ScanCatalog` returns nil with columns missing
(`FailureIsReported`).

### What the passing properties say less than one might wish

They are stated as strongly as the code allows, and the gaps are the code's.

- `ReferencesMirrored` speaks of the columns that `processConstraint` brings to the
  referenced table, which is the first one of each key: further columns of a composite
  key reach the referring table only.
- `LateScanFails` speaks of a deadline that passes while all three workers have rows
  left: their errors are then three, and whichever is kept is one. A deadline that only
  some of them meet may be lost as any failure may, which is what `bulk_scan_errors`
  shows.
- `NestedUnderParent` speaks of the lines of the tree. The header of a nested group
  is written with the first entry of a list, and a group whose first entry is skipped
  as already processed has none.
- In `CatalogLoad` concurrent appends lose tables and catalogs, and the shared named
  result can drop or hide a failed catalog; `FailureClimbs` is about the outcome of
  the closure of each catalog, `AppendsLeaveNoHole` about what a slice never shows.
- `RoundTrip` holds with these facts built in: an item removed from a project stays
  on disk and comes back; environments and drivers come back as names; DB models and
  drivers are loaded and never saved; a project without `Created` passes `Validate`
  and is refused when its own file is written, with its parts on disk by then.
- In `ItemsStore` and `Settings` calls that overlap on one item may fail or lose; the
  history variables (`settled`, `raced`, `kept`, `misread`) mark these calls, and the
  properties are about all others. A save that dies or fails after the truncation leaves an
  item nobody can load, alone or not (`torn`); so do the settings (`damaged`). Settings
  that were cut short may be YAML all the same. A process that reads them may write them
  back without kept projects, with an ID cut short or with one twice (`Part`, `Unclear`),
  and no error says so; `KeptStay` and `IdsUnique` are about lists that come from whole
  ones. Deleting an item that is stored as a directory looks for a file, finds none,
  returns nil and removes nothing: `SettledContent` says nothing of deleted environments,
  folders and drivers.
- In `QueriesStore` a deletion and an update leave the text file of an earlier
  creation behind, and a creation that stops between its files leaves the JSON without
  the text: such a place is not settled. Texts written at once by two creations are
  taken for the last one, a mixture is possible on disk.
- `NoDefectSlipsThrough` names in `Unread` what is saved unchecked: queries and repository
  of a project, environments of a DB model, tabs of a widget, parameters of a request and
  so on, and that nil elements of all lists but one panic. `PanicsAreNilOrLongKeys` leaves
  the nested folders to it, and lets the file of a model's environments be accepted with a
  nil in it: the error of its catalogs is dropped (`db_model.go:71`), so the nil behind a
  refused one is not seen. No SQLite server is valid (its host must be empty and must
  not), no query with structured SQL is; `SavedItemsStaySound` excepts queries, and
  boards with a widget, that have the default of an integer parameter, and says that these
  are always refused once loaded (parameters of a board itself, of a request and of
  widgets in nested tabs are not validated, at the first save or later); a
  key whose names come in another order than the columns is refused as a duplicate
  (`KeysInOrderAccepted` is about the others).
- `LoadedPlusAdded` is about loads without an error: what `GetDBs` keeps of another
  lacks servers, and later calls return it as if it were whole. Nor is a load a picture of
  the store at one moment: a server that was deleted and one that was made during it may
  both be there.

### Bounds

- `N = 4` workers: two may race while two others are before and after them. The
  proofs drop this bound for safety.
- Databases: two tables with one name in two schemas, names that differ by case, an
  unknown table, rows out of the order of the collections, a composite key, keys that
  alternate. The code never compares more than a row with a cursor, or with the last
  key of a table, so two of each show every case of the comparison. Five small
  databases rather than all of a size: the streams' interleavings multiply.
- `RefByWalk`: all 512 graphs on three tables, self references and circles included,
  and all sets of unknown tables, where two ways to one table, and a skipped first
  entry, both occur. One entry per referring table, as the scanner makes them.
- `ItemsStore`: a race needs two callers; two items tell "this item" from "another",
  two contents "old" from "new". Every item of a kind goes the same way.
- `ProjectStore`: `MaxCalls = 2`, one caller that saves and one (`Loaders`) that saves
  or loads, so any save can be met by a load or a save at each step of it, or be
  followed by one; earlier saves stand on the initial disk. One failing system call per call: two
  failures of one call differ from one only in what is left undone.
- `CatalogLoad`: three tables race to append, and three catalogs for the shared error;
  schemas share nothing but an array of slots, so two of them, beside a plain file, do.
- `QueriesStore`: the two folders are the store's own and another, as `SaveQuery` does
  not make the latter; two texts tell an old one from a new one. Steps of a call are
  those of the file system; two callers show every pair of them in both orders.
- `ItemLife`: one defect, since rules are applied in order and end at the first that
  errs; lists of one element, since lists are walked in order. `MaxNames = 3` is the
  shortest key that runs off its columns with one name to spare on either side.
- `ProjectLife`: `MaxAdded = 3`, an addition to a driver that is there, a second entry
  of it and an addition after that; `MaxChanges = 2`, a change between two steps of a load
  and another that takes it back or follows it. A change goes from any contents to any.
  Two servers of one driver and one of another show that they are told apart.
- `Settings`: three processes, since damage needs two and a third to read it; two projects,
  one kept and one that may cost it. A piece of a text is "a piece" (`Part`), whatever it
  says, so longer lists show nothing more.

Deadlock is checked except in `project_store`, whose callers stop after `MaxCalls`,
`item_life`, where an item's way ends, and `project_life`, where all additions are made.
A returned call stutters by an action of its own (`Returned`, `Done`) elsewhere.

### Fairness

Liveness is claimed of the scans, the catalog load, the walk, `Run` and the creator
(whose fairness is that of its goroutines; `CreatorKeepsContract` includes its end). Of the
bulk scan it is that a late scan fails (`LateScanFails`): once the deadline has passed,
looking at it ends each worker, and that needs the worker to go on, no more. Each action
of a goroutine is weakly fair: the Go scheduler runs every runnable goroutine, and the
goroutines here block on nothing but the mutex and the WaitGroup. `ParallelRun`'s
`LockAndRead` waits for a mutex that others may take; the `Scheduling` operator says
which fairness it gets, and every goroutine takes the mutex once, so none can be
passed for ever. That worker functions and provider calls return (`WorkersReturn`, the
stream steps) is an assumption about the caller's code; `Run` ends under it only. The
deadline is never forced to pass and a provider never forced to fail. `RefByWalk` is
sequential code, one fair step. `ItemsStore`, `QueriesStore`, `ProjectStore`,
`ItemLife`, `ProjectMemory` and `Settings` carry
safety alone: a caller may stop anywhere, as a crash does.

## 4. Proofs

Each `..._proofs` module extends a component, states its inductive invariant and proves
that it holds initially, that every action keeps it, one lemma per action, and that the
properties follow. The theorems hold for every value of the constants under the
assumptions named; nothing else is assumed. Each invariant was checked by TLC on the
component's run before it was proved.

**`ParallelRun_proofs`**, for every `N \in Nat` (`NAssumption`, a slice length):
`Invariance`, `TypeCorrect`, `ErrorsKept` (`NoLostError`), and `Refinement`, the safety
part of `ImplementsContract`. `TypeOK` and `NoLostError` are not inductive. A goroutine's
append writes what it has *read* plus its own error; that this is what is *there* needs
the mutex invariant (the holder is the one goroutine in the critical section, and its
reading is current). That the caller may look at the slice without the mutex needs the
WaitGroup invariant (the counter is the number of goroutines that are not done), which
needs that goroutines that were not started count too (`SpawnedPrefix`).
`PcMatchesOutcome` ties the control state to what the worker returned. The refinement
maps `WorkerReturns` to `Finish`, `Return` to `ReturnToCaller`, and every other step to a
stutter; `Return` needs the invariant, by which all outcomes are known and the slice has
as many entries as there are failures. Counting is by four lemmas about subsets of the
workers. `RunRunsOut`: every step leaves fewer places ahead of the goroutines
(`StepsRunOut`), and until the call returns somebody can go on (`NeverStuck`): who waits for
the mutex waits for the goroutine that is inside, and by the WaitGroup invariant the caller
waits for a goroutine that is not done.

**`ProjectLife_proofs`**: `CreatorInvariance`, `WatchersAreToldTheTruth`
(`StatusesAreTrue`), `NoSecondLastWord` (`LastWordFirst`), and `CreatorImplementsContract`,
the safety part of `CreatorKeepsContract`. The place of a goroutine tells what it has
returned (`AtTellsOutcome`) and what has been shown (`AtTellsShown`), and the slice names
exactly the goroutines past the mutex that have failed, once each (`ErrorsRecorded`): so a
"failed" that is shown has its error in the slice, although it is shown before the call
returns. `MemoryInvariance`, `AddedServersAreFound` (`AddedIsFound`) and
`MemoryIsLoadedPlusAdded` (`LoadedPlusAdded`) speak of the project in memory, for
finite sets of drivers and servers (`FiniteAssumption`: they are directories and files) and
any changes of the store between the steps of a load. `NILAssumption` tells the nil list
from an empty one. A driver gets an entry with every addition, so what is found depends on
which comes first; `FirstExists` says that there is a first one, an induction the invariant
makes along the steps of the program. Of a load under way `OnTheWay` says that a server
which has stayed in the store is of a driver whose servers are still to be listed, or
still to be opened, or read, unless its driver's goroutine has an error to leave; and what
has been read was in the store when it was.

The same module proves about `ProjectStore`, for any projects, callers and contents of the
disk: `DiskInvariance`, `LoadsFindWhatIsSaved` (`RoundTrip`) and `LoadFailuresAreExplained`
(`LoadFailureExplained`). A call knows every save it overlaps with (`RacesKnown`), a place
that a save is changing is not settled (`ChangingUnsettled`), and what is settled is on the
disk (`SettledIsThere`). Between these a step of one call cannot disturb another
(`OthersRely`, `StepKeeps`): what changes on the disk is raced for everyone else. What a
call relies on is then its own affair: a save that has not failed has written every place
it is through with (`SavedIsThere`); a load has of each place what its part's listing and
its own goroutine have got so far (`LoadedIsThere`, by `LoadedOf`: part not listed, item
not read, item read); and a load that has failed can point to something that is raced or
still broken (`FailureIsThere`), which is what a call has left over when its first error has
hidden the others. `ProjectsAssumption`: the markers for absent, empty, blank and unknown
contents are no projects, "listing" is no ID, and a disk holds only contents.

**`QueriesStore_proofs`**: `CallsKeepToTheirSteps`, `SettledQueriesAreKept`
(`SettledQueriesKept`), `TextsFollowQueries` (`NoTextBeforeQuery`), `EditedReadmesAreKept`
(`EditedReadmeKept`) and `StoreImplementsTable` (`ImplementsTable`). Why a settled query
stays: of two calls that change one place each knows of the other (`RacesAreMutual`), a
place that is being changed is not settled (`BusyPlacesUnsettled`), and a call nobody races
finds the file as it has left it (`UnracedCallsKeepTheirFile`). In the refinement a save's
open is a step to "unreadable" and its write the step to the query; the write of a file
that somebody has removed meanwhile is a stutter, for which the invariant about open files
(`OpenFilesExist`) is needed. Assumed: the markers for an absent and an empty file are not
contents, the root is a folder, and there is an ID and a type (`NonemptyAssumption`).

**`Items_proofs`**. About the store, for any number of items and callers:
`StoreInvariance`, `SettledContentIsFound` (`SettledContent`), `ListsAreComplete`
(`ListIsComplete`), `OnlyRacesFail` (`FailuresAreRaces`). Of the four paths the code
computes only the one that saves go to is ever in use (`OnePathInUse`); a call that
changes an item unraced is alone with it (`Alone`); an empty file has a writer or a victim
of a crash or of a failed write (`EmptyFiles`); and per call, what is relied on between two of its steps
(`Relies`): the file an unraced deletion has seen is still there, the names an unraced
listing has read are still names of files. `Sees` relates what a listing has read to what
was there from its begin to now. `ValuesAssumption`: the markers are no contents and no
IDs.

The same module proves about `ItemLife`, for any items and any rules of nested folders:
`LifeInvariance`, `SavedItemsPassAgain` (`SavedItemsStaySound`), `KeysInOrderPass`
(`KeysInOrderAccepted`) and `LongKeysAlonePanic` (`OnlyLongKeysPanic`, the part of
`PanicsAreNilOrLongKeys` about keys) and `PanicsHaveCauses` (all of it). What `First`
returns of rules in order is the outcome of the least that stops (`FirstStops`, by the
well-foundedness of `<`). Decoding changes parameters and tags only. A parameter that has
passed passes again as a float64 unless its type asks for an int, when it is refused
(`ParameterDecoded`, `DecodedParametersPass`); so a query is accepted again exactly if it
has no such default (`QueryDecoded`), and a board if none of its widgets has
(`BoardPasses`, by `WidgetPasses`, `CardPasses` and `RowPasses`, the levels of
`BoardDecoded`); an entity without its item's tags (`EntityDecoded`) and a folder without
its zeros (`FolderCounted`) always. `LifeInv` says of each step what of this has been
done; `KeyInv` that a recordset with a key has been told what its rules say. A name of a
key is compared with as many columns as there are names before it, whether there are that
many or not: distinct columns named in order are each named no later than their own place
(`PlacesKeepUp`, again by a least counterexample), so none is compared with itself, and
only a name two or more places after the last column runs off the list (`KeyNamesPass`).
`PanicsHaveCauses` is about items with any number of defects. Of each rule a lemma tells
that its panic means that something was there to fall over and its `OK` that nothing was
(`Tells`); rules in a row, over a list and behind a pointer tell what their parts tell, so
the lemmas follow the calls of the `Validate` methods up to `RulesTell`, for all types at
once. `SaidInv` carries it along: a verdict is still true of an item that JSON has
changed, as decoding takes nothing of its shape away (`DecodedShape`). `NamesAssumption`;
`NILAssumption`: nil is not a type; `InputsAssumption`: an item has the lists of its type,
and its fields where decoding and zero counts touch it.

**`Settings_proofs`**, for any number of processes: `SettingsInvariance`, `NoIdTwice`
(`IdsUnique`), `AddedAloneStays` (`KeptStay`), `LoneFailuresAreExplained`
(`FailuresAreExplained`). Every process that has read a known list holds it without
repetitions and with all kept projects, and one that holds an unknown one has read after
damage or beside a writer (`ListsAreGood`): whoever writes a known list later writes the
kept projects again. A process that is alone is the only busy one and is not disturbed
(`AloneIsAlone`), so when its project becomes kept no other holds an older list, and the
text it reads is the one that a whole write has left; that a file is empty or in pieces has
a writer or damage behind it (`FileIsExplained`). `ProjectsAssumption`: projects are finitely many, which makes a
list without repetitions no longer than their number, as `TypeOK` says.

**`CatalogLoad_proofs`**, for any tree of files: `LoadInvariance`, `NoHoleIsLeft`
(`AppendsLeaveNoHole`), `SchemasAreInPlace` (`SchemasInPlace`), `FailuresClimb`
(`FailureClimbs`). `Climb` has one conjunct per level: what is done has everything below
it done. `Places` gives the slots of an opened catalog. `TableSlices` and `CatalogSlice`
are about the unguarded appends: up to every length that a worker has read the slots are
taken, by items whose workers are done, each in one slot; so a worker that writes behind
others overwrites or extends, and never leaves a gap. `DisksAssumption` says what a tree
of files is: finite directories, no item in two of them, no two entries of one name.
`LoadRunsOut`: every step of a goroutine lowers its rank, of which there are finitely many
in all, and before the return there is always somebody to go on. For the latter, what
waits has started everything it waits for (`Launched`); `Untouched` is the case of a
server without catalogs, where the slice is nobody's.

**`RefByWalk_proofs`**, for any graph of references and any order of the lists:
`WalkInvariance`, `NothingIsListedTwice` (`ListedOnce`), `TheTreeIsComplete`
(`TreeIsComplete`), `LinesAreNested` (`NestedUnderParent`). The recursion's activations are
of different, processed tables (`Frames`), an activation never comes back to an entry
(`Once`), and it was opened by the line of its table, since when every line is its own or
deeper (`Opened`). Completeness rests on `Covered`: what refers to a processed table is
listed or waits in that table's activation. With the stack empty nothing waits, so the
listed tables are closed under references and contain all referrers. `WalkRunsOut`: an entry
that is dealt with is never met again, and an activation that returns never begins again, so
every step leaves fewer of both; `TablesAssumption`: the tables of a catalog are finitely many.

**`Scans_proofs`**, for any catalog, any rows and any schedule of the workers. About the
bulk scan: `ScanInvariance`, `RowsLand` (`RowsLandInOrder`), `FoundInOrder`
(`OrderDecidesFind`), `MirrorsAgree` (`ReferencesMirrored`). A stream's cursor is the
place of its last row (`Follows`); as collections are named once this place is the only
one, so a row that is not ahead of the cursor is a row out of order, and no row behind the
cursor is ever found again. What is attached to a table is the rows read so far that name
it, each at its rank among them (`Landed`). `Agree` is `ReferencesMirrored` in a form that
steps keep: a referenced table knows a key of a table exactly if that table has it, with
its first column, and knows it once (`KnownOnce`, the strengthening). Its three lemmas are
the three ends of `ForeignKeyRow`: a row that continues a key, one that starts it, one
whose table is unknown (which leaves the key where no table mirrors it, and there is none
to do so). `Phases` says that streams start when all collections are known. `First` is a
CHOOSE over places: that it is the least uses the well-foundedness of `<` on the naturals
from the library (`FirstIsLeast`). `DatabasesAssumption` says of a catalog what a provider
gives: rows are finite lists, a collection is named once, an index of a table once. About
the scan table by table: `NoGapWithoutError` (`NoErrorNoGap`), by `TableInv`, one conjunct
per level of parallel runs: what has ended has read all its rows (`ColumnRowsRead`,
`IndexRowsRead`, `IndexColumnRowsRead`) and everything below it has ended (`NestedEnded`);
the constraints loop starts after all tables. `TableScanInvariance` adds `KeysInv`: the
keys of every table are made of names and tables of the catalog, they `Agree` as in the
bulk scan (`TableMirrorsAgree`, which no run needs to check), and the primary key of a
table whose columns have been read `PkBegins` with its key columns by position, after an
error too. `KeysAreInOrder` (`PrimaryKeyOrdered`) follows: a constraint row does nothing
to a primary key but append to it (`PkKept`). The code's sort is not stable, so
`KeyOrders` leaves it every order that the comparison allows and the proof holds for each.
`TableDatabasesAssumption` says that rows are finite lists, that a table has no two
columns of one name or of one key position, and that the constraints of a table are rows
of that table. `BulkScanRunsOut` and `TableScanRunsOut`: rows that are read, places of the
constraints loop, workers and the deadline are behind a scan for good, and until it
returns somebody can go on: the streams and nested runs that are waited for have been
started (`WorkersStarted`, `Started`), and a record is counted whatever becomes of the
streams. `LateScanHasNotRead`: as long as each worker of the bulk scan has rows left, whoever
is through has failed, so there is nothing but a failure in the shared `err` (`AllFail`).

Only model-checked, and why:

- the liveness properties `RunReturns`, `TableScanEnds`, `WalkEnds`, `LoadEnds`,
  `LateScanFails` and the end of the call in `ImplementsContract`. What of them is safety is
  proved, for all sizes, by the `...RunsOut` theorems: no behaviour has more steps than
  are ahead at its beginning, and in no state before the return does everybody wait.
  (`NeverStuck` spells the guards out.) Of `LateScanFails` `LateScanHasNotRead` is proved,
  too: no row is read once the deadline has passed, and a scan that returns nil has read
  the streams of one of its workers to their ends, so a late one that has not returns no
  nil. What is left to TLC is that fairness makes one of
  those who can go on do so: WF stands for ENABLED, which is out of the prover's reach;
- the end of the creator's call in `CreatorKeepsContract`: there are three goroutines, ever, and
  TLC's check of it is complete;
- `NoDefectSlipsThrough`, which is about the defects that `ItemDefects` finds places for by
  recursion, and what validation does to nested folders, as `FolderRules` is recursive too.

## 5. Plan

Done, in order: `ParallelRun` with its contract and proofs, the scans, the walk, the
items store, settings, the catalog loader, the whole project store; then the queries
store with its table, the rules of the model types and the life of an item, the
project creator and the project in memory; then the proofs of section 4, which leave of
the safety properties only what `ItemDefects` enumerates, and of the liveness properties
only their last step.

Next proofs: which unsound fields each type accepts, in the manner of the lemmas that say
where its rules panic; the contracts of the scans and of the
catalog load as instances of `RunContract`.

What could come next in the model: the loaders of environment servers and recordsets, and
the comparator against a set-theoretic difference of two schemas.
