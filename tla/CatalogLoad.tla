----------------------------- MODULE CatalogLoad -----------------------------
(***************************************************************************)
(* pkg/storage/filestore/loader_internals.go: loadDbCatalogs reads the     *)
(* catalogs of a database server, their schemas, and the tables and views  *)
(* of these.  Every level is a loadDir with one goroutine per directory,   *)
(* four levels down, and each level keeps what its goroutines bring in     *)
(* another way:                                                            *)
(*   catalogs  appended without the mutex, errors through a shared err;    *)
(*   schemas   put in the slot of their place in the directory;            *)
(*   tables    appended without the mutex, errors of their own.            *)
(*                                                                         *)
(* An append without the mutex reads the length and later writes the       *)
(* element and the length; capacity is that of the directory, so the array *)
(* never moves, and nobody reads an element before all goroutines are      *)
(* done.  parallel.Run appears as its contract, RunContract.               *)
(***************************************************************************)
EXTENDS Naturals, FiniteSets, Sequences, SequencesExt

CONSTANT Disks   \* trees: catalogs, per catalog schemas in directory order and the number
                 \* of plain files beside them, per schema the tables and the views

Nil == "nil"

\* What a file system and its paths are: finite directories, whose entries have names of
\* their own.
Folded(d) == (UNION {ToSet(d.schemas[c]) : c \in d.catalogs}) \X {"tables", "views"}
IsTree(d) ==
  /\ IsFiniteSet(d.catalogs) /\ Nil \notin d.catalogs
  /\ \A c \in d.catalogs :
       /\ d.schemas[c] \in Seq(ToSet(d.schemas[c])) /\ IsInjective(d.schemas[c])
       /\ Nil \notin ToSet(d.schemas[c])
       /\ d.files[c] \in Nat
       /\ \A b \in d.catalogs \ {c} : ToSet(d.schemas[b]) \cap ToSet(d.schemas[c]) = {}
  /\ \A f \in Folded(d) :
       /\ IsFiniteSet(d.tables[f]) /\ Nil \notin d.tables[f]
       /\ \A g \in Folded(d) \ {f} : d.tables[f] \cap d.tables[g] = {}
ASSUME DisksAssumption == \A d \in Disks : IsTree(d)
Over == {"done", "failed", "dropped"}    \* dropped: neither appended nor an error

VARIABLES
  disk,       \* the tree that is read, never changed
  table,      \* per table or view: its goroutine, and the length it has read
  folder,     \* per schema and kind: loadDir of its tables or of its views
  tables,     \* per schema and kind: the array of the slice, and its length
  schema,     \* per schema: its goroutine
  schemas,    \* per catalog: the slots of dbCatalog.Schemas
  catalog,    \* per catalog: its goroutine, loadDbCatalog's own outcome, the length read
  err,        \* the named result of loadDbCatalogs, assigned by every catalog's goroutine
  catalogs,   \* dbServer.Catalogs: array and length
  result      \* of loadDbCatalogs

vars == <<disk, table, folder, tables, schema, schemas, catalog, err, catalogs, result>>
tableLevel == <<table, tables>>
catalogLevel == <<catalog, err, catalogs>>

Catalogs == disk.catalogs
SchemasOf(c) == ToSet(disk.schemas[c])
AllSchemas == UNION {SchemasOf(c) : c \in Catalogs}
Folders == AllSchemas \X {"tables", "views"}
TablesOf(f) == disk.tables[f]
AllTables == UNION {TablesOf(f) : f \in Folders}
Foldered(t) == CHOOSE f \in Folders : t \in TablesOf(f)
CatalogOf(s) == CHOOSE c \in Catalogs : s \in SchemasOf(c)

\* make([]T, 0, n), and make([]T, n).
Array(n) == [i \in 1..n |-> Nil]
EmptyFor(names) == [slots |-> Array(Cardinality(names)), len |-> 0]

\* Mutant: make([]T, n), to which everything is then appended.
MadeFull(names) == [slots |-> Array(2 * Cardinality(names)), len |-> Cardinality(names)]
Made(names) == EmptyFor(names)

\* The second half of x = append(x, item), after the length has been read.
Appended(slice, len, item) == [slots |-> [slice.slots EXCEPT ![len + 1] = item], len |-> len + 1]

Contents(slice) == SubSeq(slice.slots, 1, slice.len)

IsSlice(slice, items) ==
  /\ slice.slots \in Seq(items \cup {Nil})
  /\ slice.len \in 0..Len(slice.slots)

TypeOK ==
  /\ table \in [AllTables -> [state : {"idle", "file", "loaded", "append"} \cup Over, len : Nat]]
  /\ folder \in [Folders -> {"idle", "dir", "workers"} \cup Over]
  /\ DOMAIN tables = Folders /\ \A f \in Folders : IsSlice(tables[f], TablesOf(f))
  /\ schema \in [AllSchemas -> {"idle", "folders"} \cup Over]
  /\ \A c \in Catalogs : schemas[c] \in Seq(SchemasOf(c) \cup {Nil})
  /\ catalog \in [Catalogs ->
       [state : {"idle", "file", "dir", "workers", "loaded", "assigned", "refused", "passed",
                 "append"} \cup Over,
        own : {"none", "nil", "error"}, len : Nat]]
  /\ err \in {"nil", "error"}
  /\ IsSlice(catalogs, Catalogs)
  /\ result \in {"none", "nil", "failure"}

Init ==
  /\ disk \in Disks
  /\ table = [t \in AllTables |-> [state |-> "idle", len |-> 0]]
  /\ folder = [f \in Folders |-> "idle"]
  /\ tables = [f \in Folders |-> EmptyFor({})]
  /\ schema = [s \in AllSchemas |-> "idle"]
  /\ schemas = [c \in Catalogs |-> <<>>]
  /\ catalog = [c \in Catalogs |-> [state |-> "idle", own |-> "none", len |-> 0]]
  /\ err = "nil"
  /\ catalogs = EmptyFor({})
  /\ result = "none"

----------------------------------------------------------------------------
\* loadTables and loadTable

\* Readdir fails, or the slice is made and the goroutines start; a directory that is not
\* there is one without entries.
OpenFolder(f) ==
  /\ folder[f] = "dir"
  /\ \/ folder' = [folder EXCEPT ![f] = "failed"] /\ UNCHANGED tableLevel
     \/ /\ folder' = [folder EXCEPT ![f] = "workers"]
        /\ tables' = [tables EXCEPT ![f] = Made(TablesOf(f))]
        /\ table' = [t \in AllTables |->
                       IF t \in TablesOf(f) THEN [table[t] EXCEPT !.state = "file"] ELSE table[t]]
  /\ UNCHANGED <<disk, schema, schemas, catalogLevel, result>>

TableStep(t, from, to) == table[t].state = from /\ table' = [table EXCEPT ![t].state = to]

\* A file that is missing or cannot be decoded goes to the errors of loadDir, under its mutex.
LoadTable(t) ==
  /\ TableStep(t, "file", "loaded") \/ TableStep(t, "file", "failed")
  /\ UNCHANGED <<disk, folder, tables, schema, schemas, catalogLevel, result>>

ReadTablesLen(t) ==
  /\ table[t].state = "loaded"
  /\ table' = [table EXCEPT ![t] = [state |-> "append", len |-> tables[Foldered(t)].len]]
  /\ UNCHANGED <<disk, folder, tables, schema, schemas, catalogLevel, result>>

AppendTable(t) ==
  /\ TableStep(t, "append", "done")
  /\ tables' = [tables EXCEPT ![Foldered(t)] = Appended(@, table[t].len, t)]
  /\ UNCHANGED <<disk, folder, schema, schemas, catalogLevel, result>>

\* parallel.Run returns, and loadDir turns the errors it has collected into one.
FolderEnds(f) ==
  /\ folder[f] = "workers"
  /\ \A t \in TablesOf(f) : table[t].state \in Over
  /\ folder' = [folder EXCEPT ![f] =
                  IF \E t \in TablesOf(f) : table[t].state = "failed" THEN "failed" ELSE "done"]
  /\ UNCHANGED <<disk, tableLevel, schema, schemas, catalogLevel, result>>

----------------------------------------------------------------------------
\* loadDbCatalog and loadSchema

\* Readdir fails, or Schemas gets a slot for every entry of the directory, plain files
\* included, and the goroutines of the schemas start, each with two of its own.
OpenSchemas(c) ==
  /\ catalog[c].state = "dir"
  /\ \/ /\ catalog' = [catalog EXCEPT ![c].state = "loaded", ![c].own = "error"]
        /\ UNCHANGED <<schemas, schema, folder>>
     \/ /\ catalog' = [catalog EXCEPT ![c].state = "workers"]
        /\ schemas' = [schemas EXCEPT ![c] = Array(Len(disk.schemas[c]) + disk.files[c])]
        /\ schema' = [s \in AllSchemas |-> IF s \in SchemasOf(c) THEN "folders" ELSE schema[s]]
        /\ folder' = [f \in Folders |-> IF f[1] \in SchemasOf(c) THEN "dir" ELSE folder[f]]
  /\ UNCHANGED <<disk, tableLevel, err, catalogs, result>>

\* Mutant: the slot is found by appending.
FirstFreeSlot(c, s) ==
  CHOOSE i \in DOMAIN schemas[c] : schemas[c][i] = Nil /\ \A j \in 1..(i - 1) : schemas[c][j] # Nil
Slot(c, s) == CHOOSE i \in DOMAIN disk.schemas[c] : disk.schemas[c][i] = s

\* Mutant: the error of the tables is logged only.
FailsWithViews(s) == folder[<<s, "views">>] = "failed"
FolderFails(s) == \E kind \in {"tables", "views"} : folder[<<s, kind>>] = "failed"

\* Both runs have returned.  Validate may refuse what they have loaded.
SchemaEnds(s) ==
  LET c == CatalogOf(s)
  IN  /\ schema[s] = "folders"
      /\ \A kind \in {"tables", "views"} : folder[<<s, kind>>] \in Over
      /\ \/ /\ schema' = [schema EXCEPT ![s] = "failed"]
            /\ UNCHANGED schemas
         \/ /\ ~FolderFails(s)
            /\ schema' = [schema EXCEPT ![s] = "done"]
            /\ schemas' = [schemas EXCEPT ![c][Slot(c, s)] = s]
      /\ UNCHANGED <<disk, tableLevel, folder, catalogLevel, result>>

\* The catalog's file may be missing; decoding it or Validate may fail.
ReadCatalogFile(c) ==
  /\ catalog[c].state = "file"
  /\ \/ catalog' = [catalog EXCEPT ![c].state = "dir"]
     \/ catalog' = [catalog EXCEPT ![c].state = "loaded", ![c].own = "error"]
  /\ UNCHANGED <<disk, tableLevel, folder, schema, schemas, err, catalogs, result>>

SchemasEnd(c) ==
  /\ catalog[c].state = "workers"
  /\ \A s \in SchemasOf(c) : schema[s] \in Over
  /\ catalog' = [catalog EXCEPT ![c].state = "loaded",
                   ![c].own = IF \E s \in SchemasOf(c) : schema[s] = "failed" THEN "error" ELSE "nil"]
  /\ UNCHANGED <<disk, tableLevel, folder, schema, schemas, err, catalogs, result>>

----------------------------------------------------------------------------
\* loadDbCatalogs

OpenCatalogs ==
  /\ result = "none" /\ \A c \in Catalogs : catalog[c].state = "idle"
  /\ \/ result' = "failure" /\ UNCHANGED <<catalog, catalogs>>
     \/ /\ catalog' = [c \in Catalogs |-> [catalog[c] EXCEPT !.state = "file"]]
        /\ catalogs' = Made(Catalogs)
        /\ UNCHANGED result
  /\ UNCHANGED <<disk, tableLevel, folder, schema, schemas, err>>

AssignErr(c) ==
  /\ catalog[c].state = "loaded"
  /\ catalog' = [catalog EXCEPT ![c].state = "assigned"]
  /\ err' = catalog[c].own
  /\ UNCHANGED <<disk, tableLevel, folder, schema, schemas, catalogs, result>>

\* The test may see what is in memory or what this goroutine has just assigned.
TestErr(c) ==
  /\ catalog[c].state = "assigned"
  /\ \E seen \in {err, catalog[c].own} :
       catalog' = [catalog EXCEPT ![c].state = IF seen = "error" THEN "refused" ELSE "passed"]
  /\ UNCHANGED <<disk, tableLevel, folder, schema, schemas, err, catalogs, result>>

\* return err reads it once more: another goroutine's nil may have come in between.
ReturnErr(c) ==
  /\ catalog[c].state = "refused"
  /\ \E returned \in {err, "error"} :
       catalog' = [catalog EXCEPT ![c].state = IF returned = "error" THEN "failed" ELSE "dropped"]
  /\ UNCHANGED <<disk, tableLevel, folder, schema, schemas, err, catalogs, result>>

ReadCatalogsLen(c) ==
  /\ catalog[c].state = "passed"
  /\ catalog' = [catalog EXCEPT ![c].state = "append", ![c].len = catalogs.len]
  /\ UNCHANGED <<disk, tableLevel, folder, schema, schemas, err, catalogs, result>>

AppendCatalog(c) ==
  /\ catalog[c].state = "append"
  /\ catalog' = [catalog EXCEPT ![c].state = "done"]
  /\ catalogs' = Appended(catalogs, catalog[c].len, c)
  /\ UNCHANGED <<disk, tableLevel, folder, schema, schemas, err, result>>

\* Mutant: a failed catalog keeps loadDir waiting.
ReturnIfLoaded ==
  /\ result = "none"
  /\ \A c \in Catalogs : catalog[c].state = "done"
  /\ result' = "nil"
  /\ UNCHANGED <<disk, tableLevel, folder, schema, schemas, catalogLevel>>

Return ==
  /\ result = "none"
  /\ \A c \in Catalogs : catalog[c].state \in Over
  /\ result' = IF \E c \in Catalogs : catalog[c].state = "failed" THEN "failure" ELSE "nil"
  /\ UNCHANGED <<disk, tableLevel, folder, schema, schemas, catalogLevel>>

Returned == result # "none" /\ UNCHANGED vars

TableWorker(t) == LoadTable(t) \/ ReadTablesLen(t) \/ AppendTable(t)
FolderWorker(f) == OpenFolder(f) \/ FolderEnds(f)
CatalogWorker(c) ==
  ReadCatalogFile(c) \/ OpenSchemas(c) \/ SchemasEnd(c) \/ AssignErr(c) \/ TestErr(c)
    \/ ReturnErr(c) \/ ReadCatalogsLen(c) \/ AppendCatalog(c)
Caller == OpenCatalogs \/ Return

Next ==
  \/ Caller \/ Returned
  \/ \E t \in AllTables : TableWorker(t)
  \/ \E f \in Folders : FolderWorker(f)
  \/ \E s \in AllSchemas : SchemaEnds(s)
  \/ \E c \in Catalogs : CatalogWorker(c)

\* Every goroutine is scheduled.
Spec ==
  /\ Init /\ [][Next]_vars
  /\ WF_vars(Caller)
  /\ WF_vars(\E t \in AllTables : TableWorker(t))
  /\ WF_vars(\E f \in Folders : FolderWorker(f))
  /\ WF_vars(\E s \in AllSchemas : SchemaEnds(s))
  /\ WF_vars(\E c \in Catalogs : CatalogWorker(c))
----------------------------------------------------------------------------
NoneMade(slice, done) ==
  LET items == Contents(slice)
  IN  /\ IsInjective(items)
      /\ ToSet(items) \subseteq done
      /\ done # {} => items # <<>>

\* What is appended without the mutex may be lost, but a slice never shows a nil element, an
\* element twice or one whose load has failed, and never loses all of them.
AppendsLeaveNoHole ==
  /\ \A f \in Folders : folder[f] \in Over =>
       NoneMade(tables[f], {t \in TablesOf(f) : table[t].state = "done"})
  /\ result # "none" => NoneMade(catalogs, {c \in Catalogs : catalog[c].state = "done"})

\* When the load of a catalog has succeeded the i-th schema directory is in slot i, however
\* the goroutines were scheduled; the slots of plain files come last and stay nil.
SchemasInPlace ==
  \A c \in Catalogs : catalog[c].own = "nil" =>
    schemas[c] = disk.schemas[c] \o Array(disk.files[c])

\* An unreadable table, folder or schema makes its catalog's own load fail, three levels up,
\* and a load that has succeeded has no goroutine of its own left.
FailureClimbs ==
  \A c \in Catalogs : catalog[c].own = "nil" =>
    \A s \in SchemasOf(c) :
      /\ schema[s] = "done"
      /\ \A kind \in {"tables", "views"} :
           /\ folder[<<s, kind>>] = "done"
           /\ \A t \in TablesOf(<<s, kind>>) : table[t].state = "done"

\* The load comes to its end, whatever fails.
LoadEnds == <>(result # "none")
==============================================================================
