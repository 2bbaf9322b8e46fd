-------------------------- MODULE CatalogLoad_proofs --------------------------
(***************************************************************************)
(* Proofs about the load of a server's catalogs for any tree of files and  *)
(* any schedule of its goroutines: schemas are in their places, failures   *)
(* climb to the catalog, appends without the mutex leave no hole, and no   *)
(* level of goroutines waits for ever.                                     *)
(***************************************************************************)
EXTENDS CatalogLoad, FunctionTheorems, FiniteSetTheorems, TLAPS

Kinds == {"tables", "views"}
TableStates == {"idle", "file", "loaded", "append", "done", "failed"}
FolderStates == {"idle", "dir", "workers", "done", "failed"}
SchemaStates == {"idle", "folders", "done", "failed"}
Loading == {"idle", "file", "dir", "workers"}
CatalogStates == Loading \cup {"loaded", "assigned", "refused", "passed", "append"} \cup Over
Tables == [state : TableStates, len : Nat]
CatalogRecords == [state : CatalogStates, own : {"none", "nil", "error"}, len : Nat]

\* TypeOK, with the states that tables, folders and schemas really reach.
Typed ==
  /\ disk \in Disks
  /\ table \in [AllTables -> Tables]
  /\ folder \in [Folders -> FolderStates]
  /\ DOMAIN tables = Folders
  /\ schema \in [AllSchemas -> SchemaStates]
  /\ DOMAIN schemas = Catalogs
  /\ \A c \in Catalogs : schemas[c] \in Seq(SchemasOf(c) \cup {Nil})
  /\ catalog \in [Catalogs -> CatalogRecords]
  /\ err \in {"nil", "error"}
  /\ result \in {"none", "nil", "failure"}

\* What is done has everything below it done; what has not been opened is idle below.
Climb ==
  /\ \A f \in Folders : folder[f] = "done" => \A t \in TablesOf(f) : table[t].state = "done"
  /\ \A s \in AllSchemas : schema[s] = "done" => \A kind \in Kinds : folder[<<s, kind>>] = "done"
  /\ \A c \in Catalogs :
       /\ catalog[c].own = "nil" => \A s \in SchemasOf(c) : schema[s] = "done"
       /\ catalog[c].state \in Loading <=> catalog[c].own = "none"
       /\ \A s \in SchemasOf(c) : schema[s] = "folders" => catalog[c].state = "workers"
       /\ catalog[c].state \in {"idle", "file", "dir"} =>
            \A s \in SchemasOf(c), kind \in Kinds : folder[<<s, kind>>] = "idle"

\* The slots of a catalog that has been opened and has not failed: each schema that is done
\* is in its own, and all others are nil.
Placed(c) ==
  /\ Len(schemas[c]) = Len(disk.schemas[c]) + disk.files[c]
  /\ \A i \in 1..Len(schemas[c]) :
       schemas[c][i] = IF i <= Len(disk.schemas[c]) /\ schema[disk.schemas[c][i]] = "done"
                       THEN disk.schemas[c][i] ELSE Nil
Places ==
  \A c \in Catalogs : catalog[c].state = "workers" \/ catalog[c].own = "nil" => Placed(c)

\* A slice that workers append items to.  Whatever length a worker has read, the slots up
\* to there are taken, by items whose workers are done, each in one slot.
SliceInv(slice, items, worker) ==
  /\ IsSlice(slice, items)
  /\ \A i \in DOMAIN slice.slots : slice.slots[i] # Nil => worker[slice.slots[i]].state = "done"
  /\ \A i, j \in DOMAIN slice.slots :
       slice.slots[i] # Nil /\ slice.slots[i] = slice.slots[j] => i = j
  /\ \A i \in 1..slice.len : slice.slots[i] # Nil
  /\ \A t \in items : worker[t].state = "append" =>
       /\ worker[t].len \in 0..Len(slice.slots)
       /\ \A i \in 1..worker[t].len : slice.slots[i] # Nil
  /\ (\E t \in items : worker[t].state = "done") => slice.len > 0

\* Either the workers have not started, or there is a slot for every one of them.
Unopened(slice, items, worker) ==
  slice = EmptyFor({}) /\ \A t \in items : worker[t].state = "idle"
Opened(slice, items) == Len(slice.slots) = Cardinality(items)

TableSlices ==
  \A f \in Folders :
    /\ SliceInv(tables[f], TablesOf(f), table)
    /\ Unopened(tables[f], TablesOf(f), table) \/ Opened(tables[f], TablesOf(f))
    /\ folder[f] \in {"idle", "dir"} => Unopened(tables[f], TablesOf(f), table)
CatalogSlice ==
  /\ SliceInv(catalogs, Catalogs, catalog)
  /\ Unopened(catalogs, Catalogs, catalog) \/ Opened(catalogs, Catalogs)

IInv == Typed /\ Climb /\ Places /\ TableSlices /\ CatalogSlice

-----------------------------------------------------------------------------
\* Trees

\* The tree that is loaded, and what is read off it, stays the same.
LEMMA DiskStays ==
  ASSUME UNCHANGED disk
  PROVE  /\ Folders' = Folders /\ AllTables' = AllTables /\ AllSchemas' = AllSchemas
         /\ Catalogs' = Catalogs
         /\ \A f : TablesOf(f)' = TablesOf(f)
         /\ \A c : SchemasOf(c)' = SchemasOf(c)
BY DEF Folders, AllTables, AllSchemas, Catalogs, TablesOf, SchemasOf

\* Names of their own: a table is in one folder, a schema in one catalog and one slot.
LEMMA TreeFacts ==
  ASSUME Typed
  PROVE  /\ IsFiniteSet(Catalogs) /\ Nil \notin Catalogs
         /\ \A f \in Folders : IsFiniteSet(TablesOf(f)) /\ Nil \notin TablesOf(f)
         /\ \A f, g \in Folders : f # g => TablesOf(f) \cap TablesOf(g) = {}
         /\ \A b, c \in Catalogs : b # c => SchemasOf(b) \cap SchemasOf(c) = {}
         /\ \A c \in Catalogs : /\ disk.schemas[c] \in Seq(SchemasOf(c))
                                /\ disk.files[c] \in Nat /\ Nil \notin SchemasOf(c)
                                /\ IsInjective(disk.schemas[c])
<1>1. IsTree(disk)
  BY DisksAssumption DEF Typed
<1>2. Folders = Folded(disk)
  BY DEF Folders, Folded, AllSchemas, SchemasOf, Catalogs
<1> QED BY <1>1, <1>2 DEF IsTree, Catalogs, TablesOf, SchemasOf

LEMMA InOneFolder ==
  ASSUME Typed, NEW t \in AllTables
  PROVE  /\ Foldered(t) \in Folders /\ t \in TablesOf(Foldered(t))
         /\ \A f \in Folders : t \in TablesOf(f) => f = Foldered(t)
<1>1. \E f \in Folders : t \in TablesOf(f)
  BY DEF AllTables
<1>2. Foldered(t) \in Folders /\ t \in TablesOf(Foldered(t))
  BY <1>1 DEF Foldered
<1> QED BY <1>2, TreeFacts

LEMMA InOneCatalog ==
  ASSUME Typed, NEW s \in AllSchemas
  PROVE  /\ CatalogOf(s) \in Catalogs /\ s \in SchemasOf(CatalogOf(s))
         /\ \A c \in Catalogs : s \in SchemasOf(c) => c = CatalogOf(s)
<1>1. \E c \in Catalogs : s \in SchemasOf(c)
  BY DEF AllSchemas
<1>2. CatalogOf(s) \in Catalogs /\ s \in SchemasOf(CatalogOf(s))
  BY <1>1 DEF CatalogOf
<1> QED BY <1>2, TreeFacts

LEMMA InOneSlot ==
  ASSUME Typed, NEW c \in Catalogs, NEW s \in SchemasOf(c)
  PROVE  /\ Slot(c, s) \in 1..Len(disk.schemas[c]) /\ disk.schemas[c][Slot(c, s)] = s
         /\ \A i \in 1..Len(disk.schemas[c]) : disk.schemas[c][i] = s => i = Slot(c, s)
<1>1. disk.schemas[c] \in Seq(SchemasOf(c)) /\ IsInjective(disk.schemas[c])
  BY TreeFacts
<1>2. DOMAIN disk.schemas[c] = 1..Len(disk.schemas[c])
  BY <1>1
<1>3. \E i \in DOMAIN disk.schemas[c] : disk.schemas[c][i] = s
  BY DEF SchemasOf, ToSet
<1>4. Slot(c, s) \in DOMAIN disk.schemas[c] /\ disk.schemas[c][Slot(c, s)] = s
  BY <1>3 DEF Slot
<1> QED BY <1>1, <1>2, <1>4 DEF IsInjective

LEMMA FolderPairs ==
  ASSUME NEW s \in AllSchemas, NEW kind \in Kinds
  PROVE  <<s, kind>> \in Folders /\ <<s, kind>>[1] = s
BY DEF Folders, Kinds

LEMMA BelowCatalogs ==
  /\ \A c \in Catalogs : SchemasOf(c) \subseteq AllSchemas
  /\ \A f \in Folders : TablesOf(f) \subseteq AllTables
BY DEF AllSchemas, AllTables

-----------------------------------------------------------------------------
\* Slices

LEMMA EmptySlice == EmptyFor({}) = [slots |-> <<>>, len |-> 0]
<1>1. Cardinality({}) = 0
  BY FS_EmptySet
<1>2. Array(0) = <<>>
  BY DEF Array
<1> QED BY <1>1, <1>2 DEF EmptyFor

\* A slice that has just been made, and one that has not.
LEMMA MadeSlice ==
  ASSUME NEW items, IsFiniteSet(items), NEW worker,
         \A t \in items : worker[t].state \notin {"done", "append"}
  PROVE  SliceInv(Made(items), items, worker) /\ Opened(Made(items), items)
<1>1. Cardinality(items) \in Nat
  BY FS_CardinalityType
<1>2. /\ Made(items).slots \in Seq({Nil}) /\ Len(Made(items).slots) = Cardinality(items)
      /\ \A i \in DOMAIN Made(items).slots : Made(items).slots[i] = Nil
      /\ Made(items).len = 0
  BY <1>1 DEF Made, EmptyFor, Array
<1>3. Made(items).slots \in Seq(items \cup {Nil})
  BY <1>2
<1>4. IsSlice(Made(items), items)
  BY <1>1, <1>2, <1>3 DEF IsSlice
<1> HIDE DEF Nil
<1> QED BY <1>2, <1>4 DEF SliceInv, Opened

LEMMA UnopenedSlice ==
  ASSUME NEW slice, NEW items, NEW worker, Unopened(slice, items, worker)
  PROVE  SliceInv(slice, items, worker)
<1>1. slice.slots = <<>> /\ slice.len = 0
  BY EmptySlice DEF Unopened
<1>2. IsSlice(slice, items)
  <2>1. <<>> \in Seq(items \cup {Nil}) /\ 0 \in 0..Len(<<>>)
    OBVIOUS
  <2> QED BY <1>1, <2>1 DEF IsSlice
<1>3. DOMAIN slice.slots = {} /\ 1..slice.len = {}
  BY <1>1
<1>4. \A t \in items : worker[t].state = "idle"
  BY DEF Unopened
<1> QED BY <1>2, <1>3, <1>4 DEF SliceInv

\* Workers go their way without appending; one of them reads the length.
LEMMA WorkersMove ==
  ASSUME NEW slice, NEW items, NEW worker, NEW new, SliceInv(slice, items, worker),
         \A t \in items :
           /\ new[t].state = "done" <=> worker[t].state = "done"
           /\ new[t].state = "append" =>
                \/ worker[t].state = "append" /\ new[t].len = worker[t].len
                \/ new[t].len = slice.len
  PROVE  SliceInv(slice, items, new)
<1>1. IsSlice(slice, items) /\ DOMAIN slice.slots = 1..Len(slice.slots)
  BY DEF SliceInv, IsSlice
<1>2. \A i \in DOMAIN slice.slots : slice.slots[i] # Nil => slice.slots[i] \in items
  BY <1>1 DEF IsSlice
<1>3. \A i \in DOMAIN slice.slots : slice.slots[i] # Nil => new[slice.slots[i]].state = "done"
  BY <1>2 DEF SliceInv
<1>4. ASSUME NEW t \in items, new[t].state = "append"
      PROVE  /\ new[t].len \in 0..Len(slice.slots)
             /\ \A i \in 1..new[t].len : slice.slots[i] # Nil
  BY <1>1, <1>4 DEF SliceInv, IsSlice
<1> QED BY <1>1, <1>3, <1>4 DEF SliceInv

\* A worker that is not done finds room: the slots up to the length it has read are taken
\* by others.
LEMMA RoomToAppend ==
  ASSUME NEW slice, NEW items, IsFiniteSet(items), NEW worker, SliceInv(slice, items, worker),
         Opened(slice, items), NEW t \in items, worker[t].state = "append"
  PROVE  worker[t].len \in Nat /\ worker[t].len + 1 <= Len(slice.slots)
<1> DEFINE k == worker[t].len
<1> DEFINE held == [i \in 1..k |-> slice.slots[i]]
<1>1. /\ slice.slots \in Seq(items \cup {Nil}) /\ k \in Nat /\ k <= Len(slice.slots)
      /\ DOMAIN slice.slots = 1..Len(slice.slots)
      /\ \A i \in 1..k : slice.slots[i] # Nil
  BY DEF SliceInv, IsSlice
<1>2. \A i \in 1..k : slice.slots[i] \in items /\ i \in DOMAIN slice.slots
  BY <1>1
<1>3. \A i \in 1..k : slice.slots[i] \in items \ {t}
  BY <1>1, <1>2 DEF SliceInv
<1>4. \A i, j \in 1..k : slice.slots[i] = slice.slots[j] => i = j
  BY <1>1, <1>2 DEF SliceInv
<1>5. held \in Injection(1..k, items \ {t})
  <2>1. held \in [1..k -> items \ {t}]
    BY <1>3
  <2>2. \A i, j \in 1..k : held[i] = held[j] => i = j
    BY <1>4
  <2> QED BY <2>1, <2>2, Fun_IsInj
<1>6. IsFiniteSet(items \ {t}) /\ Cardinality(items \ {t}) = Cardinality(items) - 1
  BY FS_RemoveElement
<1>7. Cardinality(1..k) <= Cardinality(items \ {t})
  BY <1>5, <1>6, FS_Injection
<1>8. Cardinality(1..k) = k
  <2>1. 1 \in Int /\ k \in Int
    BY <1>1
  <2> HIDE DEF k
  <2>2. Cardinality(1..k) = IF 1 > k THEN 0 ELSE k - 1 + 1
    BY <2>1, FS_Interval
  <2>3. k \in Nat
    BY <1>1
  <2> QED BY <2>2, <2>3
<1>9. Cardinality(items) \in Nat /\ Cardinality(items) = Len(slice.slots)
  BY FS_CardinalityType DEF Opened
<1> QED BY <1>1, <1>6, <1>7, <1>8, <1>9

\* The item goes to a slot within the array; what was there, if anything, has been
\* appended meanwhile and is lost.
LEMMA WorkerAppends ==
  ASSUME NEW slice, NEW items, IsFiniteSet(items), Nil \notin items, NEW worker, NEW new,
         SliceInv(slice, items, worker), Opened(slice, items),
         NEW t \in items, worker[t].state = "append", new[t].state = "done",
         \A u \in items \ {t} : new[u] = worker[u]
  PROVE  /\ SliceInv(Appended(slice, worker[t].len, t), items, new)
         /\ Opened(Appended(slice, worker[t].len, t), items)
<1> DEFINE k == worker[t].len
<1> DEFINE next == Appended(slice, k, t)
<1>1. k \in Nat /\ k + 1 <= Len(slice.slots)
  BY RoomToAppend
<1>2. /\ slice.slots \in Seq(items \cup {Nil}) /\ DOMAIN slice.slots = 1..Len(slice.slots)
      /\ Len(slice.slots) \in Nat
      /\ \A i \in 1..k : slice.slots[i] # Nil
  BY DEF SliceInv, IsSlice
<1> HIDE DEF k
<1>3. k + 1 \in 1..Len(slice.slots)
  BY <1>1, <1>2
<1>4. /\ next.slots \in Seq(items \cup {Nil}) /\ Len(next.slots) = Len(slice.slots)
      /\ DOMAIN next.slots = DOMAIN slice.slots
      /\ next.slots[k + 1] = t /\ next.len = k + 1
      /\ \A i \in 1..Len(slice.slots) : i # k + 1 => next.slots[i] = slice.slots[i]
  BY <1>2, <1>3 DEF Appended
<1> HIDE DEF next
<1>5. \A i \in DOMAIN slice.slots : slice.slots[i] # t
  BY DEF SliceInv
<1>6. IsSlice(next, items)
  BY <1>1, <1>3, <1>4 DEF IsSlice
<1>7. \A i \in DOMAIN next.slots : next.slots[i] # Nil => new[next.slots[i]].state = "done"
  <2> SUFFICES ASSUME NEW i \in 1..Len(slice.slots), next.slots[i] # Nil
               PROVE  new[next.slots[i]].state = "done"
    BY <1>2, <1>4
  <2>1. CASE i = k + 1
    BY <1>4, <2>1
  <2>2. CASE i # k + 1
    <3>1. next.slots[i] = slice.slots[i] /\ slice.slots[i] \in items \ {t}
      BY <1>2, <1>4, <1>5, <2>2
    <3> QED BY <1>2, <3>1 DEF SliceInv
  <2> QED BY <2>1, <2>2
<1>8. \A i, j \in DOMAIN next.slots :
        next.slots[i] # Nil /\ next.slots[i] = next.slots[j] => i = j
  BY <1>2, <1>4, <1>5 DEF SliceInv
<1>9. \A i \in 1..Len(slice.slots) : slice.slots[i] # Nil => next.slots[i] # Nil
  BY <1>4
<1>10. \A i \in 1..next.len : next.slots[i] # Nil
  <2> SUFFICES ASSUME NEW i \in 1..(k + 1) PROVE next.slots[i] # Nil
    BY <1>4
  <2>1. CASE i = k + 1
    BY <2>1, <1>4
  <2>2. CASE i # k + 1
    <3>1. i \in 1..k /\ i \in 1..Len(slice.slots)
      BY <1>1, <1>2, <2>2
    <3> QED BY <1>2, <1>9, <3>1
  <2> QED BY <2>1, <2>2
<1>11. ASSUME NEW u \in items, new[u].state = "append"
       PROVE  /\ new[u].len \in 0..Len(next.slots)
              /\ \A i \in 1..new[u].len : next.slots[i] # Nil
  <2>1. worker[u].state = "append" /\ new[u] = worker[u]
    BY <1>11
  <2>2. worker[u].len \in 0..Len(slice.slots) /\ \A i \in 1..worker[u].len : slice.slots[i] # Nil
    BY <2>1 DEF SliceInv
  <2> QED BY <1>2, <1>4, <1>9, <2>1, <2>2
<1>12. next.len > 0
  BY <1>1, <1>4
<1>13. SliceInv(next, items, new)
  BY <1>6, <1>7, <1>8, <1>10, <1>11, <1>12 DEF SliceInv
<1> QED BY <1>4, <1>13 DEF Opened, next, k

-----------------------------------------------------------------------------
\* Tables and their folders

\* What a table's goroutine does leaves everything but its folder's slice in order.
LEMMA TableMoves ==
  ASSUME IInv, NEW t \in AllTables, NEW r \in Tables, table[t].state \notin {"idle", "done"},
         table' = [table EXCEPT ![t] = r],
         UNCHANGED <<disk, folder, schema, schemas, catalogLevel, result>>,
         DOMAIN tables' = DOMAIN tables,
         \A f \in Folders \ {Foldered(t)} : tables'[f] = tables[f],
         LET f == Foldered(t)
         IN  SliceInv(tables'[f], TablesOf(f), table') /\ Opened(tables'[f], TablesOf(f))
  PROVE  IInv'
<1> USE DEF IInv
<1>1. /\ Folders' = Folders /\ AllTables' = AllTables /\ AllSchemas' = AllSchemas
      /\ Catalogs' = Catalogs /\ (\A f : TablesOf(f)' = TablesOf(f))
      /\ \A c : SchemasOf(c)' = SchemasOf(c)
  BY DiskStays
<1>2. table' \in [AllTables -> Tables] /\ \A u \in AllTables \ {t} : table'[u] = table[u]
  BY DEF Typed
<1>3. Typed'
  BY <1>1, <1>2 DEF Typed, catalogLevel
<1>4. Climb'
  <2>1. \A u \in AllTables : table[u].state = "done" => table'[u].state = "done"
    BY <1>2
  <2>2. \A f \in Folders : folder'[f] = "done" => \A u \in TablesOf(f) : table'[u].state = "done"
    BY <2>1, BelowCatalogs DEF Climb
  <2> QED BY <1>1, <2>2 DEF Climb, catalogLevel
<1>5. Places'
  BY <1>1 DEF Places, Placed, catalogLevel
<1>6. TableSlices'
  <2> SUFFICES ASSUME NEW f \in Folders
               PROVE  /\ SliceInv(tables'[f], TablesOf(f), table')
                      /\ Unopened(tables'[f], TablesOf(f), table') \/ Opened(tables'[f], TablesOf(f))
                      /\ folder[f] \in {"idle", "dir"} => Unopened(tables'[f], TablesOf(f), table')
    BY <1>1 DEF TableSlices
  <2>1. CASE f = Foldered(t)
    <3>1. ~Unopened(tables[f], TablesOf(f), table)
      BY <2>1, InOneFolder DEF Unopened
    <3> QED BY <2>1, <3>1 DEF TableSlices
  <2>2. CASE f # Foldered(t)
    <3>1. t \notin TablesOf(f)
      BY <2>2, InOneFolder
    <3>2. \A u \in TablesOf(f) : table'[u] = table[u]
      BY <1>2, <3>1, BelowCatalogs
    <3>3. tables'[f] = tables[f]
      BY <2>2
    <3>4. SliceInv(tables[f], TablesOf(f), table')
      <4>1. SliceInv(tables[f], TablesOf(f), table)
        BY DEF TableSlices
      <4>2. \A u \in TablesOf(f) :
              /\ table'[u].state = "done" <=> table[u].state = "done"
              /\ table'[u].state = "append" => table[u].state = "append" /\ table'[u].len = table[u].len
        BY <3>2
      <4> QED BY ZenonT(30), <4>1, <4>2, WorkersMove
    <3> QED BY <3>2, <3>3, <3>4 DEF TableSlices, Unopened
  <2> QED BY <2>1, <2>2
<1>7. CatalogSlice'
  BY <1>1 DEF CatalogSlice, catalogLevel, Unopened, SliceInv
<1> QED BY <1>3, <1>4, <1>5, <1>6, <1>7

\* The slice of a table whose goroutine has started has been made.
LEMMA StartedIsOpened ==
  ASSUME IInv, NEW t \in AllTables, table[t].state # "idle"
  PROVE  /\ Foldered(t) \in Folders /\ t \in TablesOf(Foldered(t))
         /\ SliceInv(tables[Foldered(t)], TablesOf(Foldered(t)), table)
         /\ Opened(tables[Foldered(t)], TablesOf(Foldered(t)))
<1>1. Foldered(t) \in Folders /\ t \in TablesOf(Foldered(t))
  BY InOneFolder DEF IInv
<1> QED BY <1>1 DEF IInv, TableSlices, Unopened

LEMMA TableTyped ==
  ASSUME Typed, NEW t \in AllTables, NEW to \in TableStates
  PROVE  /\ [table[t] EXCEPT !.state = to] \in Tables
         /\ [table[t] EXCEPT !.state = to].state = to
         /\ table[t].len \in Nat
         /\ \A n \in Nat : [state |-> to, len |-> n] \in Tables
BY DEF Typed, Tables

LEMMA LoadTableStep ==
  ASSUME IInv, NEW t \in AllTables, LoadTable(t)
  PROVE  IInv'
<1>1. PICK to \in {"loaded", "failed"} : TableStep(t, "file", to)
  BY DEF LoadTable
<1> DEFINE r == [table[t] EXCEPT !.state = to]
<1>2. to \in TableStates
  BY DEF TableStates
<1>3. table[t].state = "file" /\ table' = [table EXCEPT ![t] = r] /\ r \in Tables /\ r.state = to
  BY <1>1, <1>2, TableTyped DEF IInv, TableStep
<1>4. UNCHANGED <<disk, folder, tables, schema, schemas, catalogLevel, result>>
  BY DEF LoadTable
<1> HIDE DEF r
<1>5. table'[t] = r /\ \A u \in AllTables \ {t} : table'[u] = table[u]
  BY <1>3 DEF IInv, Typed
<1>6. SliceInv(tables[Foldered(t)], TablesOf(Foldered(t)), table')
  <2>1. \A u \in TablesOf(Foldered(t)) :
          /\ table'[u].state = "done" <=> table[u].state = "done"
          /\ table'[u].state = "append" => table[u].state = "append" /\ table'[u].len = table[u].len
    BY <1>3, <1>5, StartedIsOpened, BelowCatalogs
  <2>2. SliceInv(tables[Foldered(t)], TablesOf(Foldered(t)), table)
    BY <1>3, StartedIsOpened
  <2> QED BY <2>1, <2>2, WorkersMove
<1>7. Opened(tables[Foldered(t)], TablesOf(Foldered(t)))
  BY <1>3, StartedIsOpened
<1> QED BY <1>3, <1>4, <1>6, <1>7, TableMoves

LEMMA ReadTablesLenStep ==
  ASSUME IInv, NEW t \in AllTables, ReadTablesLen(t)
  PROVE  IInv'
<1> DEFINE f == Foldered(t)
<1> DEFINE r == [state |-> "append", len |-> tables[f].len]
<1>1. table[t].state = "loaded" /\ table' = [table EXCEPT ![t] = r]
  BY DEF ReadTablesLen
<1>2. UNCHANGED <<disk, folder, tables, schema, schemas, catalogLevel, result>>
  BY DEF ReadTablesLen
<1>3. f \in Folders /\ SliceInv(tables[f], TablesOf(f), table) /\ Opened(tables[f], TablesOf(f))
  BY <1>1, StartedIsOpened
<1>4. tables[f].len \in Nat
  BY <1>3 DEF SliceInv, IsSlice
<1>5. "append" \in TableStates
  BY DEF TableStates
<1>6. r \in Tables
  BY <1>4, <1>5 DEF Tables
<1>7. table'[t] = r /\ \A u \in AllTables \ {t} : table'[u] = table[u]
  BY <1>1 DEF IInv, Typed
<1>8. SliceInv(tables[f], TablesOf(f), table')
  <2>1. \A u \in TablesOf(f) :
          /\ table'[u].state = "done" <=> table[u].state = "done"
          /\ table'[u].state = "append" => \/ table[u].state = "append" /\ table'[u].len = table[u].len
                                           \/ table'[u].len = tables[f].len
    BY <1>1, <1>3, <1>7, BelowCatalogs
  <2> QED BY <1>3, <2>1, WorkersMove
<1> QED BY <1>1, <1>2, <1>3, <1>6, <1>8, TableMoves

LEMMA AppendTableStep ==
  ASSUME IInv, NEW t \in AllTables, AppendTable(t)
  PROVE  IInv'
<1> DEFINE f == Foldered(t)
<1> DEFINE r == [table[t] EXCEPT !.state = "done"]
<1>1. "done" \in TableStates
  BY DEF TableStates
<1>2. table[t].state = "append" /\ table' = [table EXCEPT ![t] = r] /\ r \in Tables /\ r.state = "done"
  BY <1>1, TableTyped DEF IInv, AppendTable, TableStep
<1>3. UNCHANGED <<disk, folder, schema, schemas, catalogLevel, result>>
  BY DEF AppendTable
<1>4. /\ f \in Folders /\ t \in TablesOf(f)
      /\ SliceInv(tables[f], TablesOf(f), table) /\ Opened(tables[f], TablesOf(f))
  BY <1>2, StartedIsOpened
<1>5. /\ tables'[f] = Appended(tables[f], table[t].len, t) /\ DOMAIN tables' = DOMAIN tables
      /\ \A g \in Folders \ {f} : tables'[g] = tables[g]
  BY <1>4 DEF AppendTable, IInv, Typed
<1> HIDE DEF r
<1>6. table'[t] = r /\ \A u \in AllTables \ {t} : table'[u] = table[u]
  BY <1>2 DEF IInv, Typed
<1>7. SliceInv(tables'[f], TablesOf(f), table') /\ Opened(tables'[f], TablesOf(f))
  <2>1. table'[t].state = "done" /\ \A u \in TablesOf(f) \ {t} : table'[u] = table[u]
    BY <1>2, <1>4, <1>6, BelowCatalogs
  <2>2. IsFiniteSet(TablesOf(f)) /\ Nil \notin TablesOf(f)
    BY <1>4, TreeFacts DEF IInv
  <2>3. table[t].state = "append" /\ t \in TablesOf(f)
    BY <1>2, <1>4
  <2>4. SliceInv(tables[f], TablesOf(f), table) /\ Opened(tables[f], TablesOf(f))
    BY <1>4
  <2> HIDE DEF f
  <2>5. /\ SliceInv(Appended(tables[f], table[t].len, t), TablesOf(f), table')
        /\ Opened(Appended(tables[f], table[t].len, t), TablesOf(f))
    BY <2>1, <2>2, <2>3, <2>4, WorkerAppends
  <2> QED BY <1>5, <2>5
<1> QED BY <1>2, <1>3, <1>5, <1>7, TableMoves

\* A folder's loadDir goes on, and touches no other folder.
LEMMA FolderMoves ==
  ASSUME IInv, NEW f \in Folders, folder[f] \in {"dir", "workers"},
         NEW to \in {"workers", "done", "failed"}, folder' = [folder EXCEPT ![f] = to],
         UNCHANGED <<disk, schema, schemas, catalogLevel, result>>,
         table' \in [AllTables -> Tables], DOMAIN tables' = DOMAIN tables,
         \A g \in Folders \ {f} :
           tables'[g] = tables[g] /\ \A t \in TablesOf(g) : table'[t] = table[t],
         SliceInv(tables'[f], TablesOf(f), table'),
         Unopened(tables'[f], TablesOf(f), table') \/ Opened(tables'[f], TablesOf(f)),
         to = "done" => \A t \in TablesOf(f) : table'[t].state = "done"
  PROVE  IInv'
<1> USE DEF IInv
<1>1. /\ Folders' = Folders /\ AllTables' = AllTables /\ AllSchemas' = AllSchemas
      /\ Catalogs' = Catalogs /\ (\A g : TablesOf(g)' = TablesOf(g))
      /\ \A c : SchemasOf(c)' = SchemasOf(c)
  BY DiskStays
<1>2. /\ folder' \in [Folders -> FolderStates] /\ folder'[f] = to
      /\ \A g \in Folders \ {f} : folder'[g] = folder[g]
  BY DEF Typed, FolderStates
<1>3. Typed'
  BY <1>1, <1>2 DEF Typed, catalogLevel
<1>4. Climb'
  <2>1. ASSUME NEW g \in Folders, folder'[g] = "done"
        PROVE  \A t \in TablesOf(g) : table'[t].state = "done"
    <3>1. CASE g = f
      BY <1>2, <2>1, <3>1
    <3>2. CASE g # f
      BY <1>2, <2>1, <3>2 DEF Climb
    <3> QED BY <3>1, <3>2
  <2>2. ASSUME NEW s \in AllSchemas, schema[s] = "done", NEW kind \in Kinds
        PROVE  folder'[<<s, kind>>] = "done"
    BY <1>2, <2>2, FolderPairs DEF Climb
  <2>3. ASSUME NEW s \in AllSchemas, NEW kind \in Kinds, folder[<<s, kind>>] = "idle"
        PROVE  folder'[<<s, kind>>] = "idle"
    BY <1>2, <2>3, FolderPairs
  <2>4. ASSUME NEW c \in Catalogs, catalog[c].state \in {"idle", "file", "dir"},
               NEW s \in SchemasOf(c), NEW kind \in Kinds
        PROVE  folder'[<<s, kind>>] = "idle"
    BY <2>3, <2>4, BelowCatalogs DEF Climb
  <2> QED BY <1>1, <2>1, <2>2, <2>4 DEF Climb, catalogLevel
<1>5. Places'
  BY <1>1 DEF Places, Placed, catalogLevel
<1>6. TableSlices'
  <2> SUFFICES ASSUME NEW g \in Folders
               PROVE  /\ SliceInv(tables'[g], TablesOf(g), table')
                      /\ Unopened(tables'[g], TablesOf(g), table') \/ Opened(tables'[g], TablesOf(g))
                      /\ folder'[g] \in {"idle", "dir"} => Unopened(tables'[g], TablesOf(g), table')
    BY <1>1 DEF TableSlices
  <2>1. CASE g = f
    BY <1>2, <2>1
  <2>2. CASE g # f
    <3>1. tables'[g] = tables[g] /\ folder'[g] = folder[g] /\ \A t \in TablesOf(g) : table'[t] = table[t]
      BY <1>2, <2>2
    <3>2. SliceInv(tables[g], TablesOf(g), table')
      <4>1. SliceInv(tables[g], TablesOf(g), table)
        BY DEF TableSlices
      <4>2. \A u \in TablesOf(g) :
              /\ table'[u].state = "done" <=> table[u].state = "done"
              /\ table'[u].state = "append" => table[u].state = "append" /\ table'[u].len = table[u].len
        BY <3>1
      <4> QED BY <4>1, <4>2, WorkersMove
    <3> QED BY <3>1, <3>2 DEF TableSlices, Unopened
  <2> QED BY <2>1, <2>2
<1>7. CatalogSlice'
  BY <1>1 DEF CatalogSlice, catalogLevel, Unopened, SliceInv
<1> QED BY <1>3, <1>4, <1>5, <1>6, <1>7

LEMMA OpenFolderStep ==
  ASSUME IInv, NEW f \in Folders, OpenFolder(f)
  PROVE  IInv'
<1>1. folder[f] = "dir" /\ UNCHANGED <<disk, schema, schemas, catalogLevel, result>>
  BY DEF OpenFolder
<1>2. SliceInv(tables[f], TablesOf(f), table) /\ Unopened(tables[f], TablesOf(f), table)
  BY <1>1 DEF IInv, TableSlices
<1>3. CASE folder' = [folder EXCEPT ![f] = "failed"] /\ UNCHANGED tableLevel
  <2>1. table' = table /\ tables' = tables /\ table \in [AllTables -> Tables]
    BY <1>3 DEF tableLevel, IInv, Typed
  <2> QED BY <1>1, <1>2, <1>3, <2>1, FolderMoves
<1>4. CASE /\ folder' = [folder EXCEPT ![f] = "workers"]
           /\ tables' = [tables EXCEPT ![f] = Made(TablesOf(f))]
           /\ table' = [t \in AllTables |->
                          IF t \in TablesOf(f) THEN [table[t] EXCEPT !.state = "file"] ELSE table[t]]
  <2>1. /\ DOMAIN tables' = DOMAIN tables /\ tables'[f] = Made(TablesOf(f))
        /\ \A g \in Folders \ {f} : tables'[g] = tables[g]
    BY <1>4 DEF IInv, Typed
  <2>2. \A t \in TablesOf(f) : table'[t] = [table[t] EXCEPT !.state = "file"]
    BY <1>4, BelowCatalogs
  <2>3. "file" \in TableStates
    BY DEF TableStates
  <2>4. \A t \in TablesOf(f) : table'[t].state = "file" /\ table'[t] \in Tables
    <3> SUFFICES ASSUME NEW t \in TablesOf(f)
                 PROVE  table'[t].state = "file" /\ table'[t] \in Tables
      OBVIOUS
    <3>1. t \in AllTables /\ Typed
      BY BelowCatalogs DEF IInv
    <3>2. [table[t] EXCEPT !.state = "file"] \in Tables /\ [table[t] EXCEPT !.state = "file"].state = "file"
      BY <2>3, <3>1, TableTyped
    <3> QED BY <2>2, <3>2
  <2>5. \A t \in AllTables : t \notin TablesOf(f) => table'[t] = table[t]
    BY <1>4
  <2>6. table' \in [AllTables -> Tables]
    <3>1. \A t \in AllTables : table'[t] \in Tables
      BY <2>4, <2>5 DEF IInv, Typed
    <3> QED BY <1>4, <3>1
  <2>7. ASSUME NEW g \in Folders \ {f}, NEW t \in TablesOf(g) PROVE table'[t] = table[t]
    BY <2>5, <2>7, TreeFacts, BelowCatalogs DEF IInv
  <2>8. SliceInv(tables'[f], TablesOf(f), table') /\ Opened(tables'[f], TablesOf(f))
    <3>1. IsFiniteSet(TablesOf(f)) /\ \A t \in TablesOf(f) : table'[t].state \notin {"done", "append"}
      BY <2>4, TreeFacts DEF IInv
    <3> QED BY <2>1, <3>1, MadeSlice
  <2> QED BY <1>1, <1>4, <2>1, <2>6, <2>7, <2>8, FolderMoves
<1> QED BY <1>3, <1>4 DEF OpenFolder

LEMMA FolderEndsStep ==
  ASSUME IInv, NEW f \in Folders, FolderEnds(f)
  PROVE  IInv'
<1> DEFINE to == IF \E t \in TablesOf(f) : table[t].state = "failed" THEN "failed" ELSE "done"
<1>1. /\ folder[f] = "workers" /\ folder' = [folder EXCEPT ![f] = to]
      /\ UNCHANGED <<disk, schema, schemas, catalogLevel, result>>
      /\ table' = table /\ tables' = tables /\ table \in [AllTables -> Tables]
      /\ \A t \in TablesOf(f) : table[t].state \in Over
  BY DEF FolderEnds, tableLevel, IInv, Typed
<1>2. \A t \in TablesOf(f) : table[t].state \in {"done", "failed"}
  BY <1>1, BelowCatalogs DEF Tables, TableStates, Over
<1>3. to \in {"done", "failed"} /\ (to = "done" => \A t \in TablesOf(f) : table[t].state = "done")
  BY <1>2
<1>4. /\ SliceInv(tables[f], TablesOf(f), table)
      /\ Unopened(tables[f], TablesOf(f), table) \/ Opened(tables[f], TablesOf(f))
  BY DEF IInv, TableSlices
<1> HIDE DEF to
<1> QED BY <1>1, <1>3, <1>4, FolderMoves

-----------------------------------------------------------------------------
\* Schemas

LEMMA SchemaEndsStep ==
  ASSUME IInv, NEW s \in AllSchemas, SchemaEnds(s)
  PROVE  IInv'
<1> USE DEF IInv
<1> DEFINE c == CatalogOf(s)
<1>1. /\ schema[s] = "folders" /\ UNCHANGED <<disk, table, tables, folder, catalog, err, catalogs, result>>
      /\ \/ schema' = [schema EXCEPT ![s] = "failed"] /\ UNCHANGED schemas
         \/ /\ ~FolderFails(s)
            /\ schema' = [schema EXCEPT ![s] = "done"]
            /\ schemas' = [schemas EXCEPT ![c][Slot(c, s)] = s]
      /\ \A kind \in Kinds : folder[<<s, kind>>] \in Over
  BY DEF SchemaEnds, tableLevel, catalogLevel, Kinds
<1>2. /\ Folders' = Folders /\ AllTables' = AllTables /\ AllSchemas' = AllSchemas
      /\ Catalogs' = Catalogs /\ (\A g : TablesOf(g)' = TablesOf(g))
      /\ \A b : SchemasOf(b)' = SchemasOf(b)
  BY <1>1, DiskStays
<1>3. /\ c \in Catalogs /\ s \in SchemasOf(c)
      /\ \A b \in Catalogs : s \in SchemasOf(b) => b = c
  BY InOneCatalog
<1> HIDE DEF c
<1>4. catalog[c].state = "workers" /\ catalog[c].own = "none" /\ Placed(c)
  BY <1>1, <1>3 DEF Climb, Places, Loading
<1>5. /\ schema' \in [AllSchemas -> SchemaStates]
      /\ \A r \in AllSchemas \ {s} : schema'[r] = schema[r]
      /\ schema'[s] \in {"done", "failed"}
  BY <1>1 DEF Typed, SchemaStates
<1>6. schema'[s] = "done" => \A kind \in Kinds : folder[<<s, kind>>] = "done"
  <2> SUFFICES ASSUME ~FolderFails(s), NEW kind \in Kinds PROVE folder[<<s, kind>>] = "done"
    BY <1>1, <1>5 DEF Typed
  <2>1. folder[<<s, kind>>] \in FolderStates /\ folder[<<s, kind>>] # "failed"
    BY FolderPairs DEF Typed, FolderFails, Kinds
  <2> QED BY <1>1, <2>1 DEF Over, FolderStates
<1>7. /\ Slot(c, s) \in 1..Len(disk.schemas[c]) /\ disk.schemas[c][Slot(c, s)] = s
      /\ \A i \in 1..Len(disk.schemas[c]) : disk.schemas[c][i] = s => i = Slot(c, s)
  BY <1>3, InOneSlot
<1>8. /\ schemas[c] \in Seq(SchemasOf(c) \cup {Nil}) /\ Slot(c, s) \in 1..Len(schemas[c])
      /\ disk.schemas[c] \in Seq(SchemasOf(c)) /\ disk.files[c] \in Nat
  BY <1>3, <1>4, <1>7, TreeFacts DEF Typed, Placed
<1>9. /\ DOMAIN schemas' = Catalogs /\ (\A b \in Catalogs \ {c} : schemas'[b] = schemas[b])
      /\ \/ schemas'[c] = schemas[c]
         \/ schema'[s] = "done" /\ schemas'[c] = [schemas[c] EXCEPT ![Slot(c, s)] = s]
  <2>1. CASE schema' = [schema EXCEPT ![s] = "failed"] /\ UNCHANGED schemas
    <3>1. schemas' = schemas /\ DOMAIN schemas = Catalogs
      BY <2>1 DEF Typed
    <3> QED BY <3>1
  <2>2. CASE /\ schema' = [schema EXCEPT ![s] = "done"]
             /\ schemas' = [schemas EXCEPT ![c][Slot(c, s)] = s]
    <3>1. schema'[s] = "done"
      BY <2>2 DEF Typed
    <3>2. /\ DOMAIN schemas' = Catalogs /\ (\A b \in Catalogs \ {c} : schemas'[b] = schemas[b])
          /\ schemas'[c] = [schemas[c] EXCEPT ![Slot(c, s)] = s]
      BY <1>3, <2>2 DEF Typed
    <3> QED BY <3>1, <3>2
  <2> QED BY <1>1, <2>1, <2>2
<1>10. Typed'
  <2>1. schemas'[c] \in Seq(SchemasOf(c) \cup {Nil})
    BY <1>3, <1>8, <1>9
  <2>2. \A b \in Catalogs : schemas'[b] \in Seq(SchemasOf(b) \cup {Nil})
    BY <1>9, <2>1 DEF Typed
  <2> QED BY <1>1, <1>2, <1>5, <1>9, <2>2 DEF Typed
<1>11. Climb'
  <2>1. ASSUME NEW r \in AllSchemas, schema'[r] = "done", NEW kind \in Kinds
        PROVE  folder[<<r, kind>>] = "done"
    BY <1>5, <1>6, <2>1 DEF Climb
  <2>2. ASSUME NEW b \in Catalogs, catalog[b].own = "nil", NEW r \in SchemasOf(b)
        PROVE  schema'[r] = "done"
    BY <1>3, <1>4, <1>5, <2>2, BelowCatalogs DEF Climb
  <2>3. ASSUME NEW b \in Catalogs, NEW r \in SchemasOf(b), schema'[r] = "folders"
        PROVE  catalog[b].state = "workers"
    BY <1>5, <2>3, BelowCatalogs DEF Climb
  <2> QED BY <1>1, <1>2, <2>1, <2>2, <2>3 DEF Climb
<1>12. Places'
  <2> SUFFICES ASSUME NEW b \in Catalogs, catalog[b].state = "workers" \/ catalog[b].own = "nil"
               PROVE  Placed(b)'
    BY <1>1, <1>2 DEF Places
  <2>1. Placed(b) /\ disk.schemas[b] \in Seq(SchemasOf(b)) /\ disk.files[b] \in Nat
    BY TreeFacts DEF Places
  <2>2. CASE b # c
    <3>1. schemas'[b] = schemas[b]
      BY <1>9, <2>2
    <3>2. \A i \in 1..Len(disk.schemas[b]) : schema'[disk.schemas[b][i]] = schema[disk.schemas[b][i]]
      <4> SUFFICES ASSUME NEW i \in 1..Len(disk.schemas[b])
                   PROVE  schema'[disk.schemas[b][i]] = schema[disk.schemas[b][i]]
        OBVIOUS
      <4>1. disk.schemas[b][i] \in SchemasOf(b)
        BY <2>1
      <4>2. disk.schemas[b][i] # s
        BY <4>1, <2>2, <1>3
      <4> QED BY <1>5, <4>1, <4>2, BelowCatalogs
    <3>3. Len(schemas[b]) = Len(disk.schemas[b]) + disk.files[b]
      BY <2>1 DEF Placed
    <3>4. \A i \in 1..Len(schemas[b]) : i <= Len(disk.schemas[b]) => i \in 1..Len(disk.schemas[b])
      BY <2>1, <3>3
    <3> QED BY <1>1, <2>1, <3>1, <3>2, <3>4 DEF Placed
  <2>3. CASE b = c
    <3>1. /\ Len(schemas'[c]) = Len(schemas[c])
          /\ \A i \in 1..Len(schemas[c]) : i # Slot(c, s) => schemas'[c][i] = schemas[c][i]
          /\ schemas'[c][Slot(c, s)] = IF schema'[s] = "done" THEN s ELSE Nil
      <4>1. schemas[c][Slot(c, s)] = Nil
        BY <1>1, <1>4, <1>7, <1>8 DEF Placed
      <4>2. CASE schema' = [schema EXCEPT ![s] = "failed"] /\ UNCHANGED schemas
        <5>1. schema'[s] # "done" /\ schemas'[c] = schemas[c]
          BY <4>2 DEF Typed
        <5> QED BY <4>1, <5>1
      <4>3. CASE /\ schema' = [schema EXCEPT ![s] = "done"]
                 /\ schemas' = [schemas EXCEPT ![c][Slot(c, s)] = s]
        <5>1. schema'[s] = "done" /\ schemas'[c] = [schemas[c] EXCEPT ![Slot(c, s)] = s]
          BY <1>3, <4>3 DEF Typed
        <5> QED BY <1>8, <5>1
      <4> QED BY <1>1, <4>2, <4>3
    <3>2. ASSUME NEW i \in 1..Len(schemas[c])
          PROVE  schemas'[c][i] = IF i <= Len(disk.schemas[c]) /\ schema'[disk.schemas[c][i]] = "done"
                                  THEN disk.schemas[c][i] ELSE Nil
      <4>1. CASE i = Slot(c, s)
        BY <1>7, <1>8, <3>1, <4>1
      <4>2. CASE i # Slot(c, s) /\ i <= Len(disk.schemas[c])
        <5>1. i \in 1..Len(disk.schemas[c])
          BY <1>8, <4>2
        <5>2. disk.schemas[c][i] # s /\ disk.schemas[c][i] \in SchemasOf(c)
          BY <1>7, <1>8, <4>2, <5>1
        <5>3. schema'[disk.schemas[c][i]] = schema[disk.schemas[c][i]]
          BY <1>3, <1>5, <5>2, BelowCatalogs
        <5> QED BY <1>4, <3>1, <4>2, <5>3 DEF Placed
      <4>3. CASE i # Slot(c, s) /\ ~(i <= Len(disk.schemas[c]))
        BY <1>4, <3>1, <4>3 DEF Placed
      <4> QED BY <4>1, <4>2, <4>3
    <3> QED BY <1>1, <1>4, <2>3, <3>1, <3>2 DEF Placed
  <2> QED BY <2>2, <2>3
<1>13. TableSlices' /\ CatalogSlice'
  BY <1>1, <1>2 DEF TableSlices, CatalogSlice, Unopened, SliceInv
<1> QED BY <1>10, <1>11, <1>12, <1>13

-----------------------------------------------------------------------------
\* Catalogs

\* A catalog's goroutine goes on without touching what is below it.
LEMMA CatalogMoves ==
  ASSUME IInv, NEW c \in Catalogs, catalog[c].state # "idle", NEW r \in CatalogRecords,
         catalog' = [catalog EXCEPT ![c] = r],
         UNCHANGED <<disk, tableLevel, folder, schema, schemas, result>>,
         err' \in {"nil", "error"},
         SliceInv(catalogs', Catalogs, catalog'), Opened(catalogs', Catalogs),
         r.state # "workers", \A s \in SchemasOf(c) : schema[s] # "folders",
         r.state \in Loading <=> r.own = "none",
         r.state \in {"idle", "file", "dir"} => catalog[c].state \in {"idle", "file", "dir"},
         r.own = "nil" => Placed(c) /\ \A s \in SchemasOf(c) : schema[s] = "done"
  PROVE  IInv'
<1> USE DEF IInv
<1>1. /\ Folders' = Folders /\ AllTables' = AllTables /\ AllSchemas' = AllSchemas
      /\ Catalogs' = Catalogs /\ (\A g : TablesOf(g)' = TablesOf(g))
      /\ \A b : SchemasOf(b)' = SchemasOf(b)
  BY DiskStays
<1>2. /\ catalog' \in [Catalogs -> CatalogRecords] /\ catalog'[c] = r
      /\ \A b \in Catalogs \ {c} : catalog'[b] = catalog[b]
  BY DEF Typed
<1>3. Typed'
  BY <1>1, <1>2 DEF Typed, tableLevel
<1>4. Climb'
  <2>1. ASSUME NEW b \in Catalogs
        PROVE  /\ catalog'[b].own = "nil" => \A s \in SchemasOf(b) : schema[s] = "done"
               /\ catalog'[b].state \in Loading <=> catalog'[b].own = "none"
               /\ \A s \in SchemasOf(b) : schema[s] = "folders" => catalog'[b].state = "workers"
               /\ catalog'[b].state \in {"idle", "file", "dir"} =>
                    \A s \in SchemasOf(b), kind \in Kinds : folder[<<s, kind>>] = "idle"
    <3>1. CASE b = c
      BY <1>2, <3>1 DEF Climb
    <3>2. CASE b # c
      BY <1>2, <3>2 DEF Climb
    <3> QED BY <3>1, <3>2
  <2> QED BY <1>1, <2>1 DEF Climb, tableLevel
<1>5. Places'
  <2> SUFFICES ASSUME NEW b \in Catalogs, catalog'[b].state = "workers" \/ catalog'[b].own = "nil"
               PROVE  Placed(b)
    BY <1>1 DEF Places, Placed
  <2>1. CASE b = c
    BY <1>2, <2>1
  <2>2. CASE b # c
    BY <1>2, <2>2 DEF Places
  <2> QED BY <2>1, <2>2
<1>6. TableSlices'
  BY <1>1 DEF TableSlices, tableLevel, Unopened, SliceInv
<1>7. CatalogSlice'
  BY <1>1 DEF CatalogSlice
<1> QED BY <1>3, <1>4, <1>5, <1>6, <1>7

\* A step that appends nothing leaves the slice in order.
LEMMA CatalogSliceKept ==
  ASSUME IInv, NEW c \in Catalogs, catalog[c].state \notin {"idle", "done"},
         NEW r \in CatalogRecords, catalog' = [catalog EXCEPT ![c] = r], r.state # "done",
         r.state = "append" => r.len = catalogs.len
  PROVE  SliceInv(catalogs, Catalogs, catalog') /\ Opened(catalogs, Catalogs)
<1>1. SliceInv(catalogs, Catalogs, catalog) /\ Opened(catalogs, Catalogs)
  BY DEF IInv, CatalogSlice, Unopened
<1>2. catalog'[c] = r /\ \A b \in Catalogs \ {c} : catalog'[b] = catalog[b]
  BY DEF IInv, Typed
<1>3. \A b \in Catalogs :
        /\ catalog'[b].state = "done" <=> catalog[b].state = "done"
        /\ catalog'[b].state = "append" =>
             \/ catalog[b].state = "append" /\ catalog'[b].len = catalog[b].len
             \/ catalog'[b].len = catalogs.len
  BY <1>2
<1> QED BY <1>1, <1>3, WorkersMove

\* What a step makes of a catalog's record.
LEMMA CatalogGoes ==
  ASSUME Typed, NEW c \in Catalogs, NEW to \in CatalogStates
  PROVE  /\ [catalog[c] EXCEPT !.state = to] \in CatalogRecords
         /\ [catalog[c] EXCEPT !.state = to].state = to
         /\ [catalog[c] EXCEPT !.state = to].own = catalog[c].own
BY DEF Typed, CatalogRecords

LEMMA CatalogLoads ==
  ASSUME Typed, NEW c \in Catalogs, NEW o \in {"nil", "error"}
  PROVE  /\ [catalog[c] EXCEPT !.state = "loaded", !.own = o] \in CatalogRecords
         /\ [catalog[c] EXCEPT !.state = "loaded", !.own = o].state = "loaded"
         /\ [catalog[c] EXCEPT !.state = "loaded", !.own = o].own = o
<1>1. "loaded" \in CatalogStates
  BY DEF CatalogStates
<1> QED BY <1>1 DEF Typed, CatalogRecords

LEMMA CatalogReadsLen ==
  ASSUME Typed, NEW c \in Catalogs, NEW n \in Nat
  PROVE  /\ [catalog[c] EXCEPT !.state = "append", !.len = n] \in CatalogRecords
         /\ [catalog[c] EXCEPT !.state = "append", !.len = n].state = "append"
         /\ [catalog[c] EXCEPT !.state = "append", !.len = n].own = catalog[c].own
         /\ [catalog[c] EXCEPT !.state = "append", !.len = n].len = n
<1>1. "append" \in CatalogStates
  BY DEF CatalogStates
<1> QED BY <1>1 DEF Typed, CatalogRecords

LEMMA ReadCatalogFileStep ==
  ASSUME IInv, NEW c \in Catalogs, ReadCatalogFile(c)
  PROVE  IInv'
<1>1. /\ catalog[c].state = "file"
      /\ UNCHANGED <<disk, tableLevel, folder, schema, schemas, err, catalogs, result>>
  BY DEF ReadCatalogFile
<1>2. catalog[c].own = "none" /\ \A s \in SchemasOf(c) : schema[s] # "folders"
  BY <1>1 DEF IInv, Climb, Loading
<1>3. PICK r \in CatalogRecords :
        /\ catalog' = [catalog EXCEPT ![c] = r]
        /\ \/ r.state = "dir" /\ r.own = "none"
           \/ r.state = "loaded" /\ r.own = "error"
  <2>1. "dir" \in CatalogStates /\ "loaded" \in CatalogStates /\ 0 \in Nat
    BY DEF CatalogStates, Loading
  <2>2. CASE catalog' = [catalog EXCEPT ![c].state = "dir"]
    <3> DEFINE r == [catalog[c] EXCEPT !.state = "dir"]
    <3>1. r \in CatalogRecords /\ r.state = "dir" /\ r.own = "none"
      BY <1>2, <2>1, CatalogGoes DEF IInv
    <3>2. catalog' = [catalog EXCEPT ![c] = r]
      BY <2>2
    <3> QED BY <3>1, <3>2
  <2>3. CASE catalog' = [catalog EXCEPT ![c].state = "loaded", ![c].own = "error"]
    <3> DEFINE r == [catalog[c] EXCEPT !.state = "loaded", !.own = "error"]
    <3>1. r \in CatalogRecords /\ r.state = "loaded" /\ r.own = "error"
      BY CatalogLoads DEF IInv
    <3>2. catalog' = [catalog EXCEPT ![c] = r]
      BY <2>3
    <3> QED BY <3>1, <3>2
  <2> QED BY <2>2, <2>3 DEF ReadCatalogFile
<1>4. SliceInv(catalogs, Catalogs, catalog') /\ Opened(catalogs, Catalogs)
  BY <1>1, <1>3, CatalogSliceKept
<1>5. err' \in {"nil", "error"} /\ catalogs' = catalogs
  BY <1>1 DEF IInv, Typed
<1> QED BY <1>1, <1>2, <1>3, <1>4, <1>5, CatalogMoves DEF Loading

\* loadDbCatalog returns once the goroutines of its schemas have.
LEMMA SchemasEndStep ==
  ASSUME IInv, NEW c \in Catalogs, SchemasEnd(c)
  PROVE  IInv'
<1> DEFINE o == IF \E s \in SchemasOf(c) : schema[s] = "failed" THEN "error" ELSE "nil"
<1> DEFINE r == [catalog[c] EXCEPT !.state = "loaded", !.own = o]
<1>1. /\ catalog[c].state = "workers" /\ catalog' = [catalog EXCEPT ![c] = r]
      /\ UNCHANGED <<disk, tableLevel, folder, schema, schemas, err, catalogs, result>>
      /\ \A s \in SchemasOf(c) : schema[s] \in Over
  BY DEF SchemasEnd
<1>2. \A s \in SchemasOf(c) : schema[s] \in {"done", "failed"}
  BY <1>1, BelowCatalogs DEF IInv, Typed, SchemaStates, Over
<1>3. o \in {"nil", "error"} /\ (o = "nil" => \A s \in SchemasOf(c) : schema[s] = "done")
  BY <1>2
<1> HIDE DEF o
<1>4. r \in CatalogRecords /\ r.state = "loaded" /\ r.own = o
  BY <1>3, CatalogLoads DEF IInv
<1> HIDE DEF r
<1>5. Placed(c)
  BY <1>1 DEF IInv, Places
<1>6. SliceInv(catalogs, Catalogs, catalog') /\ Opened(catalogs, Catalogs)
  BY <1>1, <1>4, CatalogSliceKept
<1>7. err' \in {"nil", "error"} /\ catalogs' = catalogs
  BY <1>1 DEF IInv, Typed
<1>8. /\ \A s \in SchemasOf(c) : schema[s] # "folders"
      /\ r.state \notin {"idle", "file", "dir", "workers"} /\ (r.state \in Loading <=> r.own = "none")
      /\ r.own = "nil" => Placed(c) /\ \A s \in SchemasOf(c) : schema[s] = "done"
  BY <1>2, <1>3, <1>4, <1>5 DEF Loading
<1> QED BY <1>1, <1>4, <1>6, <1>7, <1>8, CatalogMoves

\* The steps after loadDbCatalog keep its own outcome.
LEMMA AfterLoadStep ==
  ASSUME IInv, NEW c \in Catalogs,
         catalog[c].state \in {"loaded", "assigned", "refused", "passed", "append"},
         NEW r \in CatalogRecords, catalog' = [catalog EXCEPT ![c] = r], r.own = catalog[c].own,
         r.state \notin Loading, err' \in {"nil", "error"},
         UNCHANGED <<disk, tableLevel, folder, schema, schemas, result>>,
         SliceInv(catalogs', Catalogs, catalog'), Opened(catalogs', Catalogs)
  PROVE  IInv'
<1>1. /\ \A s \in SchemasOf(c) : schema[s] # "folders"
      /\ r.own = "nil" => Placed(c) /\ \A s \in SchemasOf(c) : schema[s] = "done"
  BY DEF IInv, Climb, Places
<1>2. /\ r.state \notin {"idle", "file", "dir", "workers"} /\ (r.state \in Loading <=> r.own = "none")
      /\ catalog[c].state # "idle"
  BY DEF IInv, Climb, Loading
<1> QED BY <1>1, <1>2, CatalogMoves

LEMMA AssignErrStep ==
  ASSUME IInv, NEW c \in Catalogs, AssignErr(c) \/ TestErr(c) \/ ReturnErr(c) \/ ReadCatalogsLen(c)
  PROVE  IInv'
<1>1. /\ catalog[c].state \in {"loaded", "assigned", "refused", "passed"}
      /\ UNCHANGED <<disk, tableLevel, folder, schema, schemas, catalogs, result>>
  BY DEF AssignErr, TestErr, ReturnErr, ReadCatalogsLen
<1>2. err' \in {"nil", "error"}
  <2>1. err \in {"nil", "error"} /\ catalog[c].own \in {"none", "nil", "error"}
    BY DEF IInv, Typed, CatalogRecords
  <2>2. CASE AssignErr(c)
    <3>1. catalog[c].own # "none"
      BY <2>2 DEF AssignErr, IInv, Climb, Loading
    <3> QED BY <2>1, <2>2, <3>1 DEF AssignErr
  <2>3. CASE ~AssignErr(c)
    BY <2>1, <2>3 DEF TestErr, ReturnErr, ReadCatalogsLen
  <2> QED BY <2>2, <2>3
<1> DEFINE IsNext(r) ==
      /\ catalog' = [catalog EXCEPT ![c] = r] /\ r.own = catalog[c].own
      /\ r.state \in {"assigned", "refused", "passed", "failed", "dropped", "append"}
      /\ r.state = "append" => r.len = catalogs.len
<1>3. \E r \in CatalogRecords : IsNext(r)
  <2> DEFINE Ends == {"assigned", "refused", "passed", "failed", "dropped"}
  <2>1. Ends \subseteq CatalogStates
    BY DEF CatalogStates, Over
  <2>2. catalogs.len \in Nat
    BY DEF IInv, CatalogSlice, SliceInv, IsSlice
  <2>3. ASSUME NEW to \in Ends, catalog' = [catalog EXCEPT ![c].state = to] PROVE \E r \in CatalogRecords : IsNext(r)
    <3> DEFINE r == [catalog[c] EXCEPT !.state = to]
    <3>1. r \in CatalogRecords /\ r.state = to /\ r.own = catalog[c].own
      BY <2>1, CatalogGoes DEF IInv
    <3>2. catalog' = [catalog EXCEPT ![c] = r]
      BY <2>3
    <3> HIDE DEF r
    <3> QED BY <3>1, <3>2
  <2>4. CASE AssignErr(c)
    <3>1. catalog' = [catalog EXCEPT ![c].state = "assigned"] /\ "assigned" \in Ends
      BY <2>4 DEF AssignErr
    <3> QED BY <2>3, <3>1
  <2>5. CASE TestErr(c)
    <3>1. \/ catalog' = [catalog EXCEPT ![c].state = "refused"] /\ "refused" \in Ends
          \/ catalog' = [catalog EXCEPT ![c].state = "passed"] /\ "passed" \in Ends
      BY <2>5 DEF TestErr
    <3> QED BY <2>3, <3>1
  <2>6. CASE ReturnErr(c)
    <3>1. \/ catalog' = [catalog EXCEPT ![c].state = "failed"] /\ "failed" \in Ends
          \/ catalog' = [catalog EXCEPT ![c].state = "dropped"] /\ "dropped" \in Ends
      BY <2>6 DEF ReturnErr
    <3> QED BY <2>3, <3>1
  <2>7. CASE ReadCatalogsLen(c)
    <3> DEFINE r == [catalog[c] EXCEPT !.state = "append", !.len = catalogs.len]
    <3>1. r \in CatalogRecords /\ r.state = "append" /\ r.own = catalog[c].own /\ r.len = catalogs.len
      BY <2>2, CatalogReadsLen DEF IInv
    <3>2. catalog' = [catalog EXCEPT ![c] = r]
      BY <2>7 DEF ReadCatalogsLen
    <3> HIDE DEF r
    <3> QED BY <3>1, <3>2
  <2> QED BY <2>4, <2>5, <2>6, <2>7
<1>4. PICK r \in CatalogRecords : IsNext(r)
  BY <1>3
<1>5. SliceInv(catalogs, Catalogs, catalog') /\ Opened(catalogs, Catalogs)
  <2>1. catalog[c].state \notin {"idle", "done"} /\ r.state # "done"
    BY <1>1, <1>4
  <2> QED BY <1>4, <2>1, CatalogSliceKept
<1>6. r.state \notin Loading
  BY <1>4 DEF Loading
<1> QED BY <1>1, <1>2, <1>4, <1>5, <1>6, AfterLoadStep

LEMMA AppendCatalogStep ==
  ASSUME IInv, NEW c \in Catalogs, AppendCatalog(c)
  PROVE  IInv'
<1> DEFINE r == [catalog[c] EXCEPT !.state = "done"]
<1>1. /\ catalog[c].state = "append" /\ catalog' = [catalog EXCEPT ![c] = r]
      /\ catalogs' = Appended(catalogs, catalog[c].len, c)
      /\ UNCHANGED <<disk, tableLevel, folder, schema, schemas, err, result>>
  BY DEF AppendCatalog
<1>2. r \in CatalogRecords /\ r.state = "done" /\ r.own = catalog[c].own
  <2>1. "done" \in CatalogStates
    BY DEF CatalogStates, Over
  <2> QED BY <2>1, CatalogGoes DEF IInv
<1> HIDE DEF r
<1>3. SliceInv(catalogs, Catalogs, catalog) /\ Opened(catalogs, Catalogs)
  BY <1>1 DEF IInv, CatalogSlice, Unopened
<1>4. catalog'[c] = r /\ \A b \in Catalogs \ {c} : catalog'[b] = catalog[b]
  BY <1>1 DEF IInv, Typed
<1>5. SliceInv(catalogs', Catalogs, catalog') /\ Opened(catalogs', Catalogs)
  <2>1. IsFiniteSet(Catalogs) /\ Nil \notin Catalogs /\ catalog'[c].state = "done"
    BY <1>2, <1>4, TreeFacts DEF IInv
  <2>2. /\ SliceInv(Appended(catalogs, catalog[c].len, c), Catalogs, catalog')
        /\ Opened(Appended(catalogs, catalog[c].len, c), Catalogs)
    BY <1>1, <1>3, <1>4, <2>1, WorkerAppends
  <2> QED BY <1>1, <2>2
<1>6. err' \in {"nil", "error"} /\ r.state \notin Loading
  BY <1>1, <1>2 DEF IInv, Typed, Loading
<1> QED BY <1>1, <1>2, <1>5, <1>6, AfterLoadStep

\* The directory of the schemas is read: its slots, its goroutines and those of its folders.
LEMMA OpenSchemasStep ==
  ASSUME IInv, NEW c \in Catalogs, OpenSchemas(c)
  PROVE  IInv'
<1> USE DEF IInv
<1>1. /\ catalog[c].state = "dir" /\ UNCHANGED <<disk, tableLevel, err, catalogs, result>>
      /\ catalog[c].own = "none" /\ (\A s \in SchemasOf(c) : schema[s] # "folders")
      /\ \A s \in SchemasOf(c), kind \in Kinds : folder[<<s, kind>>] = "idle"
  BY DEF OpenSchemas, Climb, Loading
<1>2. CASE /\ catalog' = [catalog EXCEPT ![c].state = "loaded", ![c].own = "error"]
           /\ UNCHANGED <<schemas, schema, folder>>
  <2> DEFINE r == [catalog[c] EXCEPT !.state = "loaded", !.own = "error"]
  <2>1. catalog' = [catalog EXCEPT ![c] = r]
    BY <1>2
  <2>2. r \in CatalogRecords /\ r.state = "loaded" /\ r.own = "error"
    BY CatalogLoads
  <2> HIDE DEF r
  <2>3. SliceInv(catalogs, Catalogs, catalog') /\ Opened(catalogs, Catalogs)
    BY <1>1, <2>1, <2>2, CatalogSliceKept
  <2>4. err' \in {"nil", "error"} /\ catalogs' = catalogs
    BY <1>1 DEF Typed
  <2> QED BY <1>1, <1>2, <2>1, <2>2, <2>3, <2>4, CatalogMoves DEF Loading
<1>3. CASE /\ catalog' = [catalog EXCEPT ![c].state = "workers"]
           /\ schemas' = [schemas EXCEPT ![c] = Array(Len(disk.schemas[c]) + disk.files[c])]
           /\ schema' = [s \in AllSchemas |-> IF s \in SchemasOf(c) THEN "folders" ELSE schema[s]]
           /\ folder' = [f \in Folders |-> IF f[1] \in SchemasOf(c) THEN "dir" ELSE folder[f]]
  <2> DEFINE r == [catalog[c] EXCEPT !.state = "workers"]
  <2>1. catalog' = [catalog EXCEPT ![c] = r]
    BY <1>3
  <2>2. r \in CatalogRecords /\ r.state = "workers" /\ r.own = "none"
    <3>1. "workers" \in CatalogStates
      BY DEF CatalogStates, Loading
    <3> QED BY <1>1, <3>1, CatalogGoes
  <2> HIDE DEF r
  <2>3. /\ Folders' = Folders /\ AllTables' = AllTables /\ AllSchemas' = AllSchemas
        /\ Catalogs' = Catalogs /\ (\A g : TablesOf(g)' = TablesOf(g))
        /\ \A b : SchemasOf(b)' = SchemasOf(b)
    BY <1>1, DiskStays
  <2>4. /\ catalog' \in [Catalogs -> CatalogRecords] /\ catalog'[c] = r
        /\ \A b \in Catalogs \ {c} : catalog'[b] = catalog[b]
    BY <2>1, <2>2 DEF Typed
  <2> DEFINE n == Len(disk.schemas[c]) + disk.files[c]
  <2>5. n \in Nat
    BY TreeFacts
  <2>6. /\ DOMAIN schemas' = Catalogs /\ schemas'[c] = Array(n)
        /\ \A b \in Catalogs \ {c} : schemas'[b] = schemas[b]
    BY <1>3 DEF Typed
  <2> HIDE DEF n
  <2>7. /\ Array(n) \in Seq(SchemasOf(c) \cup {Nil}) /\ Len(Array(n)) = n
        /\ \A i \in 1..n : Array(n)[i] = Nil
    BY <2>5 DEF Array
  <2>8. /\ \A s \in SchemasOf(c) : schema'[s] = "folders"
        /\ \A s \in AllSchemas : s \notin SchemasOf(c) => schema'[s] = schema[s]
    BY <1>3, BelowCatalogs
  <2>9. schema' \in [AllSchemas -> SchemaStates]
    BY <1>3 DEF Typed, SchemaStates
  <2>10. folder' \in [Folders -> FolderStates]
    BY <1>3 DEF Typed, FolderStates
  <2>11. /\ \A s \in AllSchemas, kind \in Kinds :
              s \notin SchemasOf(c) => folder'[<<s, kind>>] = folder[<<s, kind>>]
         /\ \A f \in Folders : folder'[f] # folder[f] => folder'[f] = "dir" /\ folder[f] = "idle"
    <3>1. ASSUME NEW s \in AllSchemas, NEW kind \in Kinds, s \notin SchemasOf(c)
          PROVE  folder'[<<s, kind>>] = folder[<<s, kind>>]
      BY <1>3, <3>1, FolderPairs
    <3>2. ASSUME NEW f \in Folders, folder'[f] # folder[f]
          PROVE  folder'[f] = "dir" /\ folder[f] = "idle"
      <4>1. f[1] \in SchemasOf(c) /\ folder'[f] = "dir"
        BY <1>3, <3>2
      <4>2. f[2] \in Kinds /\ f = <<f[1], f[2]>>
        BY DEF Folders, Kinds
      <4> QED BY <1>1, <4>1, <4>2
    <3> QED BY <3>1, <3>2
  <2>12. Typed'
    <3>1. \A b \in Catalogs : schemas'[b] \in Seq(SchemasOf(b) \cup {Nil})
      BY <2>6, <2>7 DEF Typed
    <3> QED BY <1>1, <2>3, <2>4, <2>6, <2>9, <2>10, <3>1 DEF Typed, tableLevel
  <2>13. Climb'
    <3>1. ASSUME NEW f \in Folders, folder'[f] = "done"
          PROVE  \A t \in TablesOf(f) : table[t].state = "done"
      BY <2>11, <3>1 DEF Climb
    <3>2. ASSUME NEW s \in AllSchemas, schema'[s] = "done", NEW kind \in Kinds
          PROVE  folder'[<<s, kind>>] = "done"
      <4>1. s \notin SchemasOf(c) /\ schema[s] = "done"
        BY <2>8, <3>2
      <4> QED BY <2>11, <4>1 DEF Climb
    <3>3. ASSUME NEW b \in Catalogs
          PROVE  /\ catalog'[b].own = "nil" => \A s \in SchemasOf(b) : schema'[s] = "done"
                 /\ catalog'[b].state \in Loading <=> catalog'[b].own = "none"
                 /\ \A s \in SchemasOf(b) : schema'[s] = "folders" => catalog'[b].state = "workers"
                 /\ catalog'[b].state \in {"idle", "file", "dir"} =>
                      \A s \in SchemasOf(b), kind \in Kinds : folder'[<<s, kind>>] = "idle"
      <4>1. CASE b = c
        BY <2>2, <2>4, <4>1 DEF Loading
      <4>2. CASE b # c
        <5>1. catalog'[b] = catalog[b]
          BY <2>4, <4>2
        <5>2. \A s \in SchemasOf(b) : s \in AllSchemas /\ s \notin SchemasOf(c)
          BY <4>2, TreeFacts, BelowCatalogs
        <5>3. \A s \in SchemasOf(b) : schema'[s] = schema[s]
          BY <2>8, <5>2
        <5>4. \A s \in SchemasOf(b), kind \in Kinds : folder'[<<s, kind>>] = folder[<<s, kind>>]
          BY <2>11, <5>2
        <5> QED BY <5>1, <5>3, <5>4 DEF Climb
      <4> QED BY <4>1, <4>2
    <3> QED BY <1>1, <2>3, <3>1, <3>2, <3>3 DEF Climb, tableLevel
  <2>14. Places'
    <3> SUFFICES ASSUME NEW b \in Catalogs, catalog'[b].state = "workers" \/ catalog'[b].own = "nil"
                 PROVE  Placed(b)'
      BY <2>3 DEF Places
    <3>1. CASE b = c
      <4>1. \A i \in 1..Len(disk.schemas[c]) : schema'[disk.schemas[c][i]] = "folders"
        <5>1. disk.schemas[c] \in Seq(SchemasOf(c))
          BY TreeFacts
        <5> QED BY <2>8, <5>1
      <4>2. /\ Len(schemas'[c]) = Len(disk.schemas[c]) + disk.files[c]
            /\ \A i \in 1..Len(schemas'[c]) : schemas'[c][i] = Nil
        BY <2>6, <2>7 DEF n
      <4>3. \A i \in 1..Len(schemas'[c]) :
              ~(i <= Len(disk.schemas[c]) /\ schema'[disk.schemas[c][i]] = "done")
        <5> SUFFICES ASSUME NEW i \in 1..Len(schemas'[c]), i <= Len(disk.schemas[c])
                     PROVE  schema'[disk.schemas[c][i]] # "done"
          OBVIOUS
        <5>1. Len(disk.schemas[c]) \in Nat
          BY TreeFacts
        <5>2. i \in 1..Len(disk.schemas[c])
          BY <2>5, <4>2, <5>1 DEF n
        <5> QED BY <4>1, <5>2
      <4> QED BY <1>1, <3>1, <4>2, <4>3 DEF Placed
    <3>2. CASE b # c
      <4>1. Placed(b) /\ schemas'[b] = schemas[b]
        BY <2>4, <2>6, <3>2 DEF Places
      <4>2. \A s \in SchemasOf(b) : schema'[s] = schema[s]
        BY <2>8, <3>2, TreeFacts, BelowCatalogs
      <4>3. disk.schemas[b] \in Seq(SchemasOf(b)) /\ disk.files[b] \in Nat
        BY TreeFacts
      <4>4. \A i \in 1..Len(schemas[b]) :
              i <= Len(disk.schemas[b]) => schema'[disk.schemas[b][i]] = schema[disk.schemas[b][i]]
        BY <4>1, <4>2, <4>3 DEF Placed
      <4> QED BY <1>1, <4>1, <4>4 DEF Placed
    <3> QED BY <3>1, <3>2
  <2>15. TableSlices'
    <3> SUFFICES ASSUME NEW f \in Folders, folder'[f] \in {"idle", "dir"}
                 PROVE  Unopened(tables[f], TablesOf(f), table)
      BY <1>1, <2>3 DEF TableSlices, tableLevel, Unopened, SliceInv
    <3> QED BY <2>11 DEF TableSlices
  <2>16. CatalogSlice'
    <3>1. SliceInv(catalogs, Catalogs, catalog') /\ Opened(catalogs, Catalogs)
      BY <1>1, <2>1, <2>2, CatalogSliceKept
    <3> QED BY <1>1, <2>3, <3>1 DEF CatalogSlice
  <2> QED BY <2>12, <2>13, <2>14, <2>15, <2>16
<1> QED BY <1>2, <1>3 DEF OpenSchemas

LEMMA OpenCatalogsStep ==
  ASSUME IInv, OpenCatalogs
  PROVE  IInv'
<1> USE DEF IInv
<1>1. /\ \A c \in Catalogs : catalog[c].state = "idle"
      /\ UNCHANGED <<disk, tableLevel, folder, schema, schemas, err>>
      /\ result' \in {"none", "nil", "failure"}
  BY DEF OpenCatalogs, Typed
<1>2. /\ Folders' = Folders /\ AllTables' = AllTables /\ AllSchemas' = AllSchemas
      /\ Catalogs' = Catalogs /\ (\A g : TablesOf(g)' = TablesOf(g))
      /\ \A b : SchemasOf(b)' = SchemasOf(b)
  BY <1>1, DiskStays
<1>3. TableSlices'
  BY <1>1, <1>2 DEF TableSlices, tableLevel, Unopened, SliceInv
<1>4. CASE UNCHANGED <<catalog, catalogs>>
  <2>1. Typed' /\ Climb'
    BY <1>1, <1>2, <1>4 DEF Typed, Climb, tableLevel
  <2>2. Places'
    BY <1>1, <1>2, <1>4 DEF Places, Placed
  <2>3. CatalogSlice'
    BY <1>2, <1>4 DEF CatalogSlice, Unopened, SliceInv
  <2> QED BY <1>3, <2>1, <2>2, <2>3
<1>5. CASE /\ catalog' = [c \in Catalogs |-> [catalog[c] EXCEPT !.state = "file"]]
           /\ catalogs' = Made(Catalogs)
  <2>1. \A c \in Catalogs :
          /\ catalog'[c] \in CatalogRecords /\ catalog'[c].state = "file"
          /\ catalog'[c].own = catalog[c].own /\ catalog[c].own = "none"
    <3> SUFFICES ASSUME NEW c \in Catalogs
                 PROVE  /\ catalog'[c] \in CatalogRecords /\ catalog'[c].state = "file"
                        /\ catalog'[c].own = catalog[c].own /\ catalog[c].own = "none"
      OBVIOUS
    <3>1. "file" \in CatalogStates /\ catalog'[c] = [catalog[c] EXCEPT !.state = "file"]
      BY <1>5 DEF CatalogStates, Loading
    <3>2. catalog[c].own = "none"
      BY <1>1 DEF Climb, Loading
    <3> QED BY <3>1, <3>2, CatalogGoes
  <2>2. Typed'
    <3>1. catalog' \in [Catalogs -> CatalogRecords]
      BY <1>5, <2>1
    <3> QED BY <1>1, <1>2, <3>1 DEF Typed, tableLevel
  <2>3. Climb'
    <3>1. ASSUME NEW c \in Catalogs
          PROVE  /\ catalog'[c].own # "nil" /\ catalog'[c].own = "none" /\ catalog'[c].state \in Loading
                 /\ \A s \in SchemasOf(c) : schema[s] # "folders"
                 /\ \A s \in SchemasOf(c), kind \in Kinds : folder[<<s, kind>>] = "idle"
      BY <1>1, <2>1 DEF Climb, Loading
    <3> QED BY <1>1, <1>2, <3>1 DEF Climb, tableLevel
  <2>4. Places'
    BY <1>2, <2>1 DEF Places
  <2>5. CatalogSlice'
    <3>1. SliceInv(Made(Catalogs), Catalogs, catalog') /\ Opened(Made(Catalogs), Catalogs)
      BY <2>1, TreeFacts, MadeSlice
    <3> QED BY <1>2, <1>5, <3>1 DEF CatalogSlice
  <2> QED BY <1>3, <2>2, <2>3, <2>4, <2>5
<1> QED BY <1>4, <1>5 DEF OpenCatalogs

\* The end of loadDbCatalogs, and everything after it.
LEMMA ReturnStep ==
  ASSUME IInv, Return \/ UNCHANGED vars
  PROVE  IInv'
<1> USE DEF IInv
<1>1. /\ UNCHANGED <<disk, table, tables, folder, schema, schemas, catalog, err, catalogs>>
      /\ result' \in {"none", "nil", "failure"}
  BY DEF Return, vars, tableLevel, catalogLevel, Typed
<1>2. /\ Folders' = Folders /\ AllTables' = AllTables /\ AllSchemas' = AllSchemas
      /\ Catalogs' = Catalogs /\ (\A g : TablesOf(g)' = TablesOf(g))
      /\ \A b : SchemasOf(b)' = SchemasOf(b)
  BY <1>1, DiskStays
<1>3. Typed' /\ Climb'
  BY <1>1, <1>2 DEF Typed, Climb
<1>4. Places'
  BY <1>1, <1>2 DEF Places, Placed
<1>5. TableSlices' /\ CatalogSlice'
  BY <1>1, <1>2 DEF TableSlices, CatalogSlice, Unopened, SliceInv
<1> QED BY <1>3, <1>4, <1>5

LEMMA InitIInv == Init => IInv
<1> SUFFICES ASSUME Init PROVE IInv
  OBVIOUS
<1>1. /\ disk \in Disks /\ err = "nil" /\ result = "none"
      /\ table = [t \in AllTables |-> [state |-> "idle", len |-> 0]]
      /\ folder = [f \in Folders |-> "idle"]
      /\ tables = [f \in Folders |-> EmptyFor({})]
      /\ schema = [s \in AllSchemas |-> "idle"]
      /\ schemas = [c \in Catalogs |-> <<>>]
      /\ catalog = [c \in Catalogs |-> [state |-> "idle", own |-> "none", len |-> 0]]
      /\ catalogs = EmptyFor({})
  BY DEF Init
<1>2. Typed
  <2>1. \A c \in Catalogs : schemas[c] \in Seq(SchemasOf(c) \cup {Nil})
    BY <1>1
  <2>2. table \in [AllTables -> Tables]
    BY <1>1 DEF Tables, TableStates
  <2>3. folder \in [Folders -> FolderStates] /\ schema \in [AllSchemas -> SchemaStates]
    BY <1>1 DEF FolderStates, SchemaStates
  <2>4. catalog \in [Catalogs -> CatalogRecords]
    BY <1>1 DEF CatalogRecords, CatalogStates, Loading
  <2> QED BY <1>1, <2>1, <2>2, <2>3, <2>4 DEF Typed
<1>3. Climb
  <2>1. \A c \in Catalogs : SchemasOf(c) \subseteq AllSchemas
    BY BelowCatalogs
  <2>2. ASSUME NEW c \in Catalogs, NEW s \in SchemasOf(c)
        PROVE  schema[s] = "idle" /\ \A kind \in Kinds : folder[<<s, kind>>] = "idle"
    BY <1>1, <2>1, FolderPairs
  <2> QED BY <1>1, <2>2 DEF Climb, Loading
<1>4. Places
  BY <1>1 DEF Places
<1>5. TableSlices
  <2> SUFFICES ASSUME NEW f \in Folders
               PROVE  /\ SliceInv(tables[f], TablesOf(f), table)
                      /\ Unopened(tables[f], TablesOf(f), table)
    BY DEF TableSlices
  <2>1. Unopened(tables[f], TablesOf(f), table)
    BY <1>1, BelowCatalogs DEF Unopened
  <2> QED BY <2>1, UnopenedSlice
<1>6. CatalogSlice
  <2>1. Unopened(catalogs, Catalogs, catalog)
    BY <1>1 DEF Unopened
  <2> QED BY <2>1, UnopenedSlice DEF CatalogSlice
<1> QED BY <1>2, <1>3, <1>4, <1>5, <1>6 DEF IInv

LEMMA IInvIsInductive == IInv /\ [Next]_vars => IInv'
<1> SUFFICES ASSUME IInv, [Next]_vars PROVE IInv'
  OBVIOUS
<1>1. CASE OpenCatalogs
  BY <1>1, OpenCatalogsStep
<1>2. CASE Return \/ Returned \/ UNCHANGED vars
  BY <1>2, ReturnStep DEF Returned
<1>3. ASSUME NEW t \in AllTables, TableWorker(t) PROVE IInv'
  BY <1>3, LoadTableStep, ReadTablesLenStep, AppendTableStep DEF TableWorker
<1>4. ASSUME NEW f \in Folders, FolderWorker(f) PROVE IInv'
  BY <1>4, OpenFolderStep, FolderEndsStep DEF FolderWorker
<1>5. ASSUME NEW s \in AllSchemas, SchemaEnds(s) PROVE IInv'
  BY <1>5, SchemaEndsStep
<1>6. ASSUME NEW c \in Catalogs, CatalogWorker(c) PROVE IInv'
  BY <1>6, ReadCatalogFileStep, OpenSchemasStep, SchemasEndStep, AssignErrStep, AppendCatalogStep
     DEF CatalogWorker
<1> QED BY <1>1, <1>2, <1>3, <1>4, <1>5, <1>6 DEF Next, Caller

-----------------------------------------------------------------------------
\* What the invariant says of the properties

LEMMA IInvTypes == IInv => TypeOK
<1> SUFFICES ASSUME IInv PROVE TypeOK
  OBVIOUS
<1> USE DEF IInv
<1>1. table \in [AllTables -> [state : {"idle", "file", "loaded", "append"} \cup Over, len : Nat]]
  <2>1. TableStates \subseteq {"idle", "file", "loaded", "append"} \cup Over
    BY DEF TableStates, Over
  <2> QED BY <2>1 DEF Typed, Tables
<1>2. folder \in [Folders -> {"idle", "dir", "workers"} \cup Over]
  BY DEF Typed, FolderStates, Over
<1>3. schema \in [AllSchemas -> {"idle", "folders"} \cup Over]
  BY DEF Typed, SchemaStates, Over
<1>4. catalog \in [Catalogs ->
       [state : {"idle", "file", "dir", "workers", "loaded", "assigned", "refused", "passed",
                 "append"} \cup Over,
        own : {"none", "nil", "error"}, len : Nat]]
  <2>1. CatalogStates \subseteq {"idle", "file", "dir", "workers", "loaded", "assigned", "refused",
                                 "passed", "append"} \cup Over
    BY DEF CatalogStates, Loading
  <2> QED BY <2>1 DEF Typed, CatalogRecords
<1>5. /\ DOMAIN tables = Folders /\ \A f \in Folders : IsSlice(tables[f], TablesOf(f))
      /\ \A c \in Catalogs : schemas[c] \in Seq(SchemasOf(c) \cup {Nil})
      /\ err \in {"nil", "error"} /\ result \in {"none", "nil", "failure"}
  BY DEF Typed, TableSlices, SliceInv
<1>6. IsSlice(catalogs, Catalogs)
  BY DEF CatalogSlice, SliceInv
<1> QED BY <1>1, <1>2, <1>3, <1>4, <1>5, <1>6 DEF TypeOK

\* The elements of a slice are items that have been appended, each once.
LEMMA SliceHasNoHole ==
  ASSUME NEW slice, NEW items, NEW worker, SliceInv(slice, items, worker)
  PROVE  NoneMade(slice, {t \in items : worker[t].state = "done"})
<1> DEFINE shown == Contents(slice)
<1>1. /\ slice.slots \in Seq(items \cup {Nil}) /\ slice.len \in 0..Len(slice.slots)
      /\ Len(slice.slots) \in Nat /\ DOMAIN slice.slots = 1..Len(slice.slots)
  BY DEF SliceInv, IsSlice
<1>2. /\ Len(shown) = slice.len /\ DOMAIN shown = 1..slice.len
      /\ \A i \in 1..slice.len : shown[i] = slice.slots[i]
  BY <1>1 DEF Contents
<1>3. \A i \in 1..slice.len : i \in DOMAIN slice.slots /\ slice.slots[i] # Nil
  BY <1>1 DEF SliceInv
<1> HIDE DEF shown
<1>4. IsInjective(shown)
  BY <1>2, <1>3 DEF SliceInv, IsInjective
<1>5. ToSet(shown) \subseteq {t \in items : worker[t].state = "done"}
  <2> SUFFICES ASSUME NEW i \in 1..slice.len
               PROVE  slice.slots[i] \in items /\ worker[slice.slots[i]].state = "done"
    BY <1>2 DEF ToSet
  <2> QED BY <1>1, <1>3 DEF SliceInv
<1>6. {t \in items : worker[t].state = "done"} # {} => shown # <<>>
  <2>1. {t \in items : worker[t].state = "done"} # {} => slice.len > 0
    BY DEF SliceInv
  <2> QED BY <1>1, <1>2, <2>1
<1> QED BY <1>4, <1>5, <1>6 DEF NoneMade, shown

LEMMA IInvAppends == IInv => AppendsLeaveNoHole
<1> SUFFICES ASSUME IInv PROVE AppendsLeaveNoHole
  OBVIOUS
<1>1. \A f \in Folders : NoneMade(tables[f], {t \in TablesOf(f) : table[t].state = "done"})
  BY SliceHasNoHole DEF IInv, TableSlices
<1>2. NoneMade(catalogs, {c \in Catalogs : catalog[c].state = "done"})
  BY SliceHasNoHole DEF IInv, CatalogSlice
<1> QED BY <1>1, <1>2 DEF AppendsLeaveNoHole

LEMMA IInvClimbs == IInv => FailureClimbs
<1> SUFFICES ASSUME IInv, NEW c \in Catalogs, catalog[c].own = "nil", NEW s \in SchemasOf(c)
             PROVE  /\ schema[s] = "done"
                    /\ \A kind \in Kinds : /\ folder[<<s, kind>>] = "done"
                                           /\ \A t \in TablesOf(<<s, kind>>) : table[t].state = "done"
  BY DEF FailureClimbs, Kinds
<1>1. s \in AllSchemas /\ schema[s] = "done"
  BY BelowCatalogs DEF IInv, Climb
<1>2. ASSUME NEW kind \in Kinds
      PROVE  folder[<<s, kind>>] = "done" /\ \A t \in TablesOf(<<s, kind>>) : table[t].state = "done"
  <2>1. <<s, kind>> \in Folders
    BY <1>1, FolderPairs
  <2>2. folder[<<s, kind>>] = "done"
    BY <1>1 DEF IInv, Climb
  <2> QED BY <2>1, <2>2 DEF IInv, Climb
<1> QED BY <1>1, <1>2

LEMMA IInvPlaces == IInv => SchemasInPlace
<1> SUFFICES ASSUME IInv, NEW c \in Catalogs, catalog[c].own = "nil"
             PROVE  schemas[c] = disk.schemas[c] \o Array(disk.files[c])
  BY DEF SchemasInPlace
<1> DEFINE dirs == disk.schemas[c]
           files == disk.files[c]
           slots == schemas[c]
<1>1. dirs \in Seq(SchemasOf(c)) /\ files \in Nat
  BY TreeFacts DEF IInv
<1>2. slots \in Seq(SchemasOf(c) \cup {Nil}) /\ Len(slots) = Len(dirs) + files
  BY DEF IInv, Typed, Places, Placed
<1>3. \A i \in 1..Len(dirs) : schema[dirs[i]] = "done"
  BY <1>1 DEF IInv, Climb
<1>4. \A i \in 1..Len(slots) : slots[i] = IF i <= Len(dirs) THEN dirs[i] ELSE Nil
  BY <1>1, <1>2, <1>3 DEF IInv, Places, Placed
<1>5. Array(files) \in Seq({Nil}) /\ Len(Array(files)) = files /\ \A i \in 1..files : Array(files)[i] = Nil
  BY <1>1 DEF Array
<1> DEFINE placed == dirs \o Array(files)
<1>6. /\ placed \in Seq(SchemasOf(c) \cup {Nil}) /\ Len(placed) = Len(dirs) + files
      /\ \A i \in 1..(Len(dirs) + files) : placed[i] = IF i <= Len(dirs) THEN dirs[i] ELSE Nil
  <2> HIDE DEF dirs, files
  <2> QED BY <1>1, <1>5
<1> HIDE DEF dirs, files, slots, placed
<1>7. slots = placed
  BY <1>1, <1>2, <1>4, <1>6
<1> QED BY <1>7 DEF dirs, files, slots, placed

-----------------------------------------------------------------------------
\* For every tree of files, every schedule and every failure the load is well typed and
\* keeps the invariant of this module.
THEOREM LoadInvariance == Spec => [](TypeOK /\ IInv)
BY InitIInv, IInvIsInductive, IInvTypes, PTL DEF Spec

\* loadTables and loadDbCatalogs append without the mutex: items may be lost, but no slice
\* shows a nil, an item twice or one that has failed, and none loses all of them.
THEOREM NoHoleIsLeft == Spec => []AppendsLeaveNoHole
BY LoadInvariance, IInvAppends, PTL

\* loadDbCatalog puts the i-th schema directory in slot i, whatever the schedule.
THEOREM SchemasAreInPlace == Spec => []SchemasInPlace
BY LoadInvariance, IInvPlaces, PTL

\* A catalog whose own load has succeeded has had no failure three levels below, and none
\* of its goroutines is still at work.
THEOREM FailuresClimb == Spec => []FailureClimbs
BY LoadInvariance, IInvClimbs, PTL

-----------------------------------------------------------------------------
\* Why the load ends: what its goroutines have still to do

\* How many steps a goroutine has before it at most, by its state.
TableRank == [idle |-> 4, file |-> 3, loaded |-> 2, append |-> 1, done |-> 0, failed |-> 0]
FolderRank == [idle |-> 3, dir |-> 2, workers |-> 1, done |-> 0, failed |-> 0]
SchemaRank == [idle |-> 2, folders |-> 1, done |-> 0, failed |-> 0]
CatalogRank ==
  [idle |-> 8, file |-> 7, dir |-> 6, workers |-> 5, loaded |-> 4, assigned |-> 3, refused |-> 2,
   passed |-> 2, append |-> 1, done |-> 0, failed |-> 0, dropped |-> 0]

StepsLeft(S, most, left) == {p \in S \X (1..most) : p[2] <= left[p[1]]}
TableSteps == StepsLeft(AllTables, 4, [t \in AllTables |-> TableRank[table[t].state]])
FolderSteps == StepsLeft(Folders, 3, [f \in Folders |-> FolderRank[folder[f]]])
SchemaSteps == StepsLeft(AllSchemas, 2, [s \in AllSchemas |-> SchemaRank[schema[s]]])
CatalogSteps == StepsLeft(Catalogs, 8, [c \in Catalogs |-> CatalogRank[catalog[c].state]])
StepsAhead ==
  Cardinality(TableSteps) + Cardinality(FolderSteps) + Cardinality(SchemaSteps)
    + Cardinality(CatalogSteps) + (IF result = "none" THEN 1 ELSE 0)

\* Every step but the stutter after the return leaves less to do.
StepsRunOut == [][StepsAhead' < StepsAhead]_vars

\* The guards of the steps.
TableCanGo(t) == table[t].state \in {"file", "loaded", "append"}
FolderCanGo(f) ==
  folder[f] = "dir" \/ (folder[f] = "workers" /\ \A t \in TablesOf(f) : table[t].state \in Over)
SchemaCanGo(s) == schema[s] = "folders" /\ \A kind \in Kinds : folder[<<s, kind>>] \in Over
CatalogCanGo(c) ==
  \/ catalog[c].state \in {"file", "dir", "loaded", "assigned", "refused", "passed", "append"}
  \/ catalog[c].state = "workers" /\ \A s \in SchemasOf(c) : schema[s] \in Over
NeverStuck ==
  result = "none" =>
    \/ \A c \in Catalogs : catalog[c].state = "idle"
    \/ \A c \in Catalogs : catalog[c].state \in Over
    \/ \E t \in AllTables : TableCanGo(t)
    \/ \E f \in Folders : FolderCanGo(f)
    \/ \E s \in AllSchemas : SchemaCanGo(s)
    \/ \E c \in Catalogs : CatalogCanGo(c)

\* Whoever waits for goroutines has started them, and nobody else has.
Launched ==
  /\ (\A c \in Catalogs : catalog[c].state = "idle") \/ \A c \in Catalogs : catalog[c].state # "idle"
  /\ \A c \in Catalogs : \A s \in SchemasOf(c) :
       /\ catalog[c].state \in {"idle", "file", "dir"} => schema[s] = "idle"
       /\ catalog[c].state = "workers" => schema[s] # "idle"
  /\ \A s \in AllSchemas : schema[s] # "idle" => \A kind \in Kinds : folder[<<s, kind>>] # "idle"
  /\ \A f \in Folders : folder[f] = "workers" => \A t \in TablesOf(f) : table[t].state # "idle"

\* A server without catalogs has a slice that nobody ever touches.
Untouched == Catalogs = {} => catalogs = EmptyFor({})

-----------------------------------------------------------------------------
\* Counting the steps

LEMMA ProperPart ==
  ASSUME NEW S, IsFiniteSet(S), NEW T, T \subseteq S
  PROVE  /\ IsFiniteSet(T)
         /\ Cardinality(T) \in Nat /\ Cardinality(S) \in Nat
         /\ Cardinality(T) <= Cardinality(S)
         /\ T # S => Cardinality(T) < Cardinality(S)
<1>1. /\ IsFiniteSet(T) /\ Cardinality(T) <= Cardinality(S)
      /\ Cardinality(S) = Cardinality(T) => S = T
  BY FS_Subset
<1>2. Cardinality(T) \in Nat /\ Cardinality(S) \in Nat
  BY <1>1, FS_CardinalityType
<1> QED BY <1>1, <1>2

LEMMA FiniteUnion ==
  ASSUME NEW S, IsFiniteSet(S), NEW f, \A x \in S : IsFiniteSet(f[x])
  PROVE  IsFiniteSet(UNION {f[x] : x \in S})
<1> DEFINE T == {f[x] : x \in S}
           g == [x \in S |-> f[x]]
<1>1. g \in Surjection(S, T)
  BY DEF Surjection
<1> HIDE DEF g
<1>2. IsFiniteSet(T)
  BY <1>1, FS_Surjection
<1> QED BY <1>2, FS_UNION

LEMMA FewerSteps ==
  ASSUME NEW S, IsFiniteSet(S), NEW most \in Nat, NEW left, NEW now,
         \A x \in S : left[x] \in 0..most /\ now[x] \in Nat /\ now[x] <= left[x]
  PROVE  LET a == Cardinality(StepsLeft(S, most, left))
             b == Cardinality(StepsLeft(S, most, now))
         IN  a \in Nat /\ b \in Nat /\ b <= a /\ ((\E x \in S : now[x] < left[x]) => b < a)
<1> DEFINE A == StepsLeft(S, most, left)
           B == StepsLeft(S, most, now)
<1>1. IsFiniteSet(A)
  <2>1. IsFiniteSet(1..most)
    BY FS_Interval
  <2>2. IsFiniteSet(S \X (1..most))
    BY <2>1, FS_Product
  <2>3. A \in SUBSET (S \X (1..most))
    BY DEF StepsLeft
  <2> QED BY <2>2, <2>3, FS_Subset
<1>2. B \subseteq A
  BY DEF StepsLeft
<1>3. ASSUME NEW x \in S, now[x] < left[x]
      PROVE  B # A
  <2>1. <<x, left[x]>> \in A
    BY <1>3 DEF StepsLeft
  <2>2. <<x, left[x]>> \notin B
    BY <1>3 DEF StepsLeft
  <2> QED BY <2>1, <2>2
<1> HIDE DEF A, B
<1>4. /\ Cardinality(A) \in Nat /\ Cardinality(B) \in Nat /\ Cardinality(B) <= Cardinality(A)
      /\ B # A => Cardinality(B) < Cardinality(A)
  BY <1>1, <1>2, ProperPart
<1> QED BY <1>3, <1>4 DEF A, B

LEMMA TreeIsFinite ==
  ASSUME Typed
  PROVE  IsFiniteSet(Catalogs) /\ IsFiniteSet(AllSchemas) /\ IsFiniteSet(Folders) /\ IsFiniteSet(AllTables)
<1>1. IsFiniteSet(Catalogs)
  BY TreeFacts
<1>2. IsFiniteSet(AllSchemas)
  <2> DEFINE below == [c \in Catalogs |-> SchemasOf(c)]
  <2>1. ASSUME NEW c \in Catalogs
        PROVE  IsFiniteSet(below[c])
    <3> PICK list : list = disk.schemas[c]
      OBVIOUS
    <3>1. list \in Seq(SchemasOf(c)) /\ DOMAIN list = 1..Len(list) /\ Len(list) \in Nat
      BY TreeFacts
    <3>2. SchemasOf(c) = {list[i] : i \in DOMAIN list}
      BY DEF SchemasOf, ToSet
    <3>3. list \in Surjection(1..Len(list), SchemasOf(c))
      BY <3>1, <3>2 DEF Surjection
    <3>4. IsFiniteSet(1..Len(list))
      BY <3>1, FS_Interval
    <3>5. IsFiniteSet(SchemasOf(c))
      BY <3>3, <3>4, FS_Surjection
    <3> QED BY <3>5
  <2>2. AllSchemas = UNION {below[c] : c \in Catalogs}
    BY DEF AllSchemas
  <2> HIDE DEF below
  <2> QED BY <1>1, <2>1, <2>2, FiniteUnion
<1>3. IsFiniteSet(Folders)
  <2>1. IsFiniteSet({"tables"} \cup {"views"})
    BY FS_Singleton, FS_AddElement
  <2>2. Folders = AllSchemas \X ({"tables"} \cup {"views"})
    BY DEF Folders
  <2> QED BY <1>2, <2>1, <2>2, FS_Product
<1>4. IsFiniteSet(AllTables)
  <2> DEFINE below == [f \in Folders |-> TablesOf(f)]
  <2>1. \A f \in Folders : IsFiniteSet(below[f])
    BY TreeFacts
  <2>2. AllTables = UNION {below[f] : f \in Folders}
    BY DEF AllTables
  <2> HIDE DEF below
  <2> QED BY <1>3, <2>1, <2>2, FiniteUnion
<1> QED BY <1>1, <1>2, <1>3, <1>4

LEMMA RanksTyped ==
  /\ \A state \in TableStates : TableRank[state] \in 0..4
  /\ \A state \in FolderStates : FolderRank[state] \in 0..3
  /\ \A state \in SchemaStates : SchemaRank[state] \in 0..2
  /\ \A state \in CatalogStates : CatalogRank[state] \in 0..8
BY DEF TableRank, FolderRank, SchemaRank, CatalogRank, TableStates, FolderStates, SchemaStates,
       CatalogStates, Loading, Over

\* No goroutine has more before it than it had, and one of them, or their caller, has less.
LEMMA LessAhead ==
  ASSUME Typed, Typed', UNCHANGED disk,
         \A t \in AllTables : TableRank[table'[t].state] <= TableRank[table[t].state],
         \A f \in Folders : FolderRank[folder'[f]] <= FolderRank[folder[f]],
         \A s \in AllSchemas : SchemaRank[schema'[s]] <= SchemaRank[schema[s]],
         \A c \in Catalogs : CatalogRank[catalog'[c].state] <= CatalogRank[catalog[c].state],
         result # "none" => result' # "none"
  PROVE  /\ StepsAhead \in Nat /\ StepsAhead' \in Nat
         /\ \/ \E t \in AllTables : TableRank[table'[t].state] < TableRank[table[t].state]
            \/ \E f \in Folders : FolderRank[folder'[f]] < FolderRank[folder[f]]
            \/ \E s \in AllSchemas : SchemaRank[schema'[s]] < SchemaRank[schema[s]]
            \/ \E c \in Catalogs : CatalogRank[catalog'[c].state] < CatalogRank[catalog[c].state]
            \/ result = "none" /\ result' # "none"
            => StepsAhead' < StepsAhead
<1>0. /\ Folders' = Folders /\ AllTables' = AllTables /\ AllSchemas' = AllSchemas
      /\ Catalogs' = Catalogs
  BY DiskStays
<1>1. PICK a, b \in Nat :
        /\ a = Cardinality(TableSteps) /\ b = Cardinality(TableSteps') /\ b <= a
        /\ (\E t \in AllTables : TableRank[table'[t].state] < TableRank[table[t].state]) => b < a
  <2> DEFINE left == [t \in AllTables |-> TableRank[table[t].state]]
             now == [t \in AllTables |-> TableRank[table'[t].state]]
  <2>1. \A t \in AllTables : table[t].state \in TableStates /\ table'[t].state \in TableStates
    BY <1>0 DEF Typed, Tables
  <2>2. \A t \in AllTables : left[t] \in 0..4 /\ now[t] \in Nat /\ now[t] <= left[t]
    BY <2>1, RanksTyped
  <2>3. TableSteps = StepsLeft(AllTables, 4, left) /\ TableSteps' = StepsLeft(AllTables, 4, now)
    BY <1>0 DEF TableSteps, StepsLeft
  <2>4. \A t \in AllTables : left[t] = TableRank[table[t].state] /\ now[t] = TableRank[table'[t].state]
    OBVIOUS
  <2> HIDE DEF left, now
  <2> QED BY <2>2, <2>3, <2>4, FewerSteps, TreeIsFinite
<1>2. PICK c, d \in Nat :
        /\ c = Cardinality(FolderSteps) /\ d = Cardinality(FolderSteps') /\ d <= c
        /\ (\E f \in Folders : FolderRank[folder'[f]] < FolderRank[folder[f]]) => d < c
  <2> DEFINE left == [f \in Folders |-> FolderRank[folder[f]]]
             now == [f \in Folders |-> FolderRank[folder'[f]]]
  <2>1. \A f \in Folders : folder[f] \in FolderStates /\ folder'[f] \in FolderStates
    BY <1>0 DEF Typed
  <2>2. \A f \in Folders : left[f] \in 0..3 /\ now[f] \in Nat /\ now[f] <= left[f]
    BY <2>1, RanksTyped
  <2>3. FolderSteps = StepsLeft(Folders, 3, left) /\ FolderSteps' = StepsLeft(Folders, 3, now)
    BY <1>0 DEF FolderSteps, StepsLeft
  <2>4. \A f \in Folders : left[f] = FolderRank[folder[f]] /\ now[f] = FolderRank[folder'[f]]
    OBVIOUS
  <2> HIDE DEF left, now
  <2> QED BY <2>2, <2>3, <2>4, FewerSteps, TreeIsFinite
<1>3. PICK e, g \in Nat :
        /\ e = Cardinality(SchemaSteps) /\ g = Cardinality(SchemaSteps') /\ g <= e
        /\ (\E s \in AllSchemas : SchemaRank[schema'[s]] < SchemaRank[schema[s]]) => g < e
  <2> DEFINE left == [s \in AllSchemas |-> SchemaRank[schema[s]]]
             now == [s \in AllSchemas |-> SchemaRank[schema'[s]]]
  <2>1. \A s \in AllSchemas : schema[s] \in SchemaStates /\ schema'[s] \in SchemaStates
    BY <1>0 DEF Typed
  <2>2. \A s \in AllSchemas : left[s] \in 0..2 /\ now[s] \in Nat /\ now[s] <= left[s]
    BY <2>1, RanksTyped
  <2>3. SchemaSteps = StepsLeft(AllSchemas, 2, left) /\ SchemaSteps' = StepsLeft(AllSchemas, 2, now)
    BY <1>0 DEF SchemaSteps, StepsLeft
  <2>4. \A s \in AllSchemas : left[s] = SchemaRank[schema[s]] /\ now[s] = SchemaRank[schema'[s]]
    OBVIOUS
  <2> HIDE DEF left, now
  <2> QED BY <2>2, <2>3, <2>4, FewerSteps, TreeIsFinite
<1>4. PICK h, k \in Nat :
        /\ h = Cardinality(CatalogSteps) /\ k = Cardinality(CatalogSteps') /\ k <= h
        /\ (\E x \in Catalogs : CatalogRank[catalog'[x].state] < CatalogRank[catalog[x].state]) => k < h
  <2> DEFINE left == [x \in Catalogs |-> CatalogRank[catalog[x].state]]
             now == [x \in Catalogs |-> CatalogRank[catalog'[x].state]]
  <2>1. \A x \in Catalogs : catalog[x].state \in CatalogStates /\ catalog'[x].state \in CatalogStates
    BY <1>0 DEF Typed, CatalogRecords
  <2>2. \A x \in Catalogs : left[x] \in 0..8 /\ now[x] \in Nat /\ now[x] <= left[x]
    BY <2>1, RanksTyped
  <2>3. CatalogSteps = StepsLeft(Catalogs, 8, left) /\ CatalogSteps' = StepsLeft(Catalogs, 8, now)
    BY <1>0 DEF CatalogSteps, StepsLeft
  <2>4. \A x \in Catalogs : left[x] = CatalogRank[catalog[x].state] /\ now[x] = CatalogRank[catalog'[x].state]
    OBVIOUS
  <2> HIDE DEF left, now
  <2> QED BY <2>2, <2>3, <2>4, FewerSteps, TreeIsFinite
<1>5. PICK m, n \in 0..1 : /\ m = (IF result = "none" THEN 1 ELSE 0)
                           /\ n = (IF result' = "none" THEN 1 ELSE 0)
  OBVIOUS
<1>6. n <= m /\ (result = "none" /\ result' # "none" => n < m)
  BY <1>5
<1>7. StepsAhead = a + c + e + h + m /\ StepsAhead' = b + d + g + k + n
  BY <1>1, <1>2, <1>3, <1>4, <1>5 DEF StepsAhead
<1>8. \/ \E t \in AllTables : TableRank[table'[t].state] < TableRank[table[t].state]
      \/ \E f \in Folders : FolderRank[folder'[f]] < FolderRank[folder[f]]
      \/ \E s \in AllSchemas : SchemaRank[schema'[s]] < SchemaRank[schema[s]]
      \/ \E x \in Catalogs : CatalogRank[catalog'[x].state] < CatalogRank[catalog[x].state]
      \/ result = "none" /\ result' # "none"
      => b < a \/ d < c \/ g < e \/ k < h \/ n < m
  BY <1>1, <1>2, <1>3, <1>4, <1>6
<1> QED BY <1>1, <1>2, <1>3, <1>4, <1>6, <1>7, <1>8

LEMMA StepsAreFinite ==
  ASSUME Typed
  PROVE  StepsAhead \in Nat
<1>1. \A S, most, left : IsFiniteSet(S) /\ most \in Nat => IsFiniteSet(StepsLeft(S, most, left))
  <2> SUFFICES ASSUME NEW S, NEW most, NEW left, IsFiniteSet(S), most \in Nat
               PROVE  IsFiniteSet(StepsLeft(S, most, left))
    OBVIOUS
  <2>1. IsFiniteSet(1..most)
    BY FS_Interval
  <2>2. IsFiniteSet(S \X (1..most))
    BY <2>1, FS_Product
  <2>3. StepsLeft(S, most, left) \in SUBSET (S \X (1..most))
    BY DEF StepsLeft
  <2> QED BY <2>2, <2>3, FS_Subset
<1>2. /\ IsFiniteSet(TableSteps) /\ IsFiniteSet(FolderSteps)
      /\ IsFiniteSet(SchemaSteps) /\ IsFiniteSet(CatalogSteps)
  BY <1>1, TreeIsFinite DEF TableSteps, FolderSteps, SchemaSteps, CatalogSteps
<1>3. /\ Cardinality(TableSteps) \in Nat /\ Cardinality(FolderSteps) \in Nat
      /\ Cardinality(SchemaSteps) \in Nat /\ Cardinality(CatalogSteps) \in Nat
  BY <1>2, FS_CardinalityType
<1> QED BY <1>3 DEF StepsAhead

-----------------------------------------------------------------------------
\* Step by step

\* The record of one goroutine is edited.
LEMMA TableGoesOn ==
  ASSUME Typed, NEW t \in AllTables, TableWorker(t)
  PROVE  /\ UNCHANGED <<disk, folder, schema, catalog, result>>
         /\ \A u \in AllTables : u # t => table'[u] = table[u]
         /\ table'[t].state # "idle"
         /\ TableRank[table'[t].state] < TableRank[table[t].state]
<1>1. table \in [AllTables -> Tables] /\ table[t] \in Tables
  BY DEF Typed
<1>2. UNCHANGED <<disk, folder, schema, catalog, result>>
  BY DEF TableWorker, LoadTable, ReadTablesLen, AppendTable, catalogLevel
<1>3. ASSUME NEW r, table' = [table EXCEPT ![t] = r], r.state # "idle",
             TableRank[r.state] < TableRank[table[t].state]
      PROVE  /\ \A u \in AllTables : u # t => table'[u] = table[u]
             /\ table'[t].state # "idle"
             /\ TableRank[table'[t].state] < TableRank[table[t].state]
  BY <1>1, <1>3
<1>4. ASSUME NEW from, NEW to, TableStep(t, from, to)
      PROVE  /\ table[t].state = from /\ table' = [table EXCEPT ![t] = [table[t] EXCEPT !.state = to]]
             /\ [table[t] EXCEPT !.state = to].state = to
  BY <1>1, <1>4 DEF TableStep, Tables
<1>5. /\ TableRank["loaded"] < TableRank["file"] /\ TableRank["failed"] < TableRank["file"]
      /\ TableRank["done"] < TableRank["append"] /\ TableRank["append"] < TableRank["loaded"]
  BY DEF TableRank
<1>6. CASE LoadTable(t)
  <2>1. TableStep(t, "file", "loaded") \/ TableStep(t, "file", "failed")
    BY <1>6 DEF LoadTable
  <2>2. PICK to \in {"loaded", "failed"} : TableStep(t, "file", to)
    BY <2>1
  <2>3. table[t].state = "file" /\ table' = [table EXCEPT ![t] = [table[t] EXCEPT !.state = to]]
    BY <2>2, <1>4
  <2>4. [table[t] EXCEPT !.state = to].state = to
    BY <2>2, <1>4
  <2> QED BY <1>2, <1>3, <1>5, <2>2, <2>3, <2>4
<1>7. CASE ReadTablesLen(t)
  <2>1. PICK n : table' = [table EXCEPT ![t] = [state |-> "append", len |-> n]] /\ table[t].state = "loaded"
    BY <1>7 DEF ReadTablesLen
  <2>2. PICK r : r = [state |-> "append", len |-> n]
    OBVIOUS
  <2>3. table' = [table EXCEPT ![t] = r] /\ r.state = "append"
    BY <2>1, <2>2
  <2>4. TableRank[r.state] < TableRank[table[t].state] /\ r.state # "idle"
    BY <1>5, <2>1, <2>3
  <2> QED BY <1>2, <1>3, <2>3, <2>4
<1>8. CASE AppendTable(t)
  <2>1. TableStep(t, "append", "done")
    BY <1>8 DEF AppendTable
  <2>3. table[t].state = "append" /\ table' = [table EXCEPT ![t] = [table[t] EXCEPT !.state = "done"]]
    BY <2>1, <1>4
  <2>4. [table[t] EXCEPT !.state = "done"].state = "done"
    BY <2>1, <1>4
  <2> QED BY <1>2, <1>3, <1>5, <2>3, <2>4
<1> QED BY <1>6, <1>7, <1>8 DEF TableWorker

LEMMA FolderGoesOn ==
  ASSUME Typed, TableSlices, NEW f \in Folders, FolderWorker(f)
  PROVE  /\ UNCHANGED <<disk, schema, catalog, result>>
         /\ \A g \in Folders : g # f => folder'[g] = folder[g]
         /\ folder'[f] # "idle" /\ FolderRank[folder'[f]] < FolderRank[folder[f]]
         /\ \A t \in AllTables : \/ table'[t] = table[t]
                                 \/ table[t].state = "idle" /\ table'[t].state = "file"
         /\ folder'[f] = "workers" => \A t \in TablesOf(f) : table'[t].state # "idle"
<1>1. folder \in [Folders -> FolderStates] /\ table \in [AllTables -> Tables]
  BY DEF Typed
<1>2. UNCHANGED <<disk, schema, catalog, result>>
  BY DEF FolderWorker, OpenFolder, FolderEnds, catalogLevel
<1>3. /\ FolderRank["failed"] < FolderRank["dir"] /\ FolderRank["workers"] < FolderRank["dir"]
      /\ FolderRank["failed"] < FolderRank["workers"] /\ FolderRank["done"] < FolderRank["workers"]
  BY DEF FolderRank
<1>4. ASSUME NEW to, folder' = [folder EXCEPT ![f] = to], to # "idle",
             FolderRank[to] < FolderRank[folder[f]]
      PROVE  /\ \A g \in Folders : g # f => folder'[g] = folder[g]
             /\ folder'[f] = to /\ folder'[f] # "idle" /\ FolderRank[folder'[f]] < FolderRank[folder[f]]
  BY <1>1, <1>4
<1>5. CASE FolderEnds(f)
  <2>1. PICK to \in {"failed", "done"} : folder' = [folder EXCEPT ![f] = to]
    BY <1>5 DEF FolderEnds
  <2>2. folder[f] = "workers" /\ table' = table
    BY <1>5 DEF FolderEnds, tableLevel
  <2> QED BY <1>2, <1>3, <1>4, <2>1, <2>2
<1>6. CASE OpenFolder(f) /\ table' = table /\ folder' = [folder EXCEPT ![f] = "failed"]
  <2>1. folder[f] = "dir"
    BY <1>6 DEF OpenFolder
  <2>2. FolderRank["failed"] < FolderRank[folder[f]] /\ folder' = [folder EXCEPT ![f] = "failed"]
    BY <1>3, <1>6, <2>1
  <2>3. /\ \A g \in Folders : g # f => folder'[g] = folder[g]
        /\ folder'[f] = "failed" /\ FolderRank[folder'[f]] < FolderRank[folder[f]]
    BY <1>4, <2>2
  <2> QED BY <1>2, <1>6, <2>3
<1>7. CASE /\ OpenFolder(f) /\ folder' = [folder EXCEPT ![f] = "workers"]
           /\ table' = [t \in AllTables |->
                          IF t \in TablesOf(f) THEN [table[t] EXCEPT !.state = "file"] ELSE table[t]]
  <2>1. folder[f] = "dir"
    BY <1>7 DEF OpenFolder
  <2>2. \A t \in TablesOf(f) : table[t].state = "idle" /\ t \in AllTables
    BY <2>1, BelowCatalogs DEF TableSlices, Unopened
  <2>3. ASSUME NEW t \in AllTables
        PROVE  IF t \in TablesOf(f) THEN table'[t].state = "file" ELSE table'[t] = table[t]
    <3>1. table[t] \in Tables
      BY <1>1
    <3>2. table'[t] = IF t \in TablesOf(f) THEN [table[t] EXCEPT !.state = "file"] ELSE table[t]
      BY <1>7
    <3> QED BY <3>1, <3>2 DEF Tables
  <2>4. FolderRank["workers"] < FolderRank[folder[f]]
    BY <1>3, <2>1
  <2> QED BY <1>2, <1>4, <1>7, <2>2, <2>3, <2>4
<1> QED BY <1>5, <1>6, <1>7 DEF FolderWorker, OpenFolder, tableLevel

LEMMA SchemaGoesOn ==
  ASSUME Typed, NEW s \in AllSchemas, SchemaEnds(s)
  PROVE  /\ UNCHANGED <<disk, table, folder, catalog, result>>
         /\ \A x \in AllSchemas : x # s => schema'[x] = schema[x]
         /\ schema[s] # "idle" /\ schema'[s] # "idle" /\ SchemaRank[schema'[s]] < SchemaRank[schema[s]]
<1>1. schema \in [AllSchemas -> SchemaStates]
  BY DEF Typed
<1>2. UNCHANGED <<disk, table, folder, catalog, result>> /\ schema[s] = "folders"
  BY DEF SchemaEnds, tableLevel, catalogLevel
<1>3. PICK to \in {"failed", "done"} : schema' = [schema EXCEPT ![s] = to]
  BY DEF SchemaEnds
<1>4. SchemaRank["failed"] < SchemaRank["folders"] /\ SchemaRank["done"] < SchemaRank["folders"]
  BY DEF SchemaRank
<1> QED BY <1>1, <1>2, <1>3, <1>4

LEMMA CatalogGoesOn ==
  ASSUME Typed, NEW c \in Catalogs, CatalogWorker(c)
  PROVE  /\ UNCHANGED <<disk, table, result>>
         /\ \A b \in Catalogs : b # c => catalog'[b] = catalog[b]
         /\ catalog[c].state # "idle" /\ catalog'[c].state # "idle"
         /\ CatalogRank[catalog'[c].state] < CatalogRank[catalog[c].state]
         /\ \/ UNCHANGED <<folder, schema>> /\ catalog'[c].state # "workers"
               /\ (catalog'[c].state \in {"file", "dir"} => catalog[c].state \in {"file", "dir"})
            \/ /\ catalog[c].state = "dir" /\ catalog'[c].state = "workers"
               /\ schema' = [s \in AllSchemas |-> IF s \in SchemasOf(c) THEN "folders" ELSE schema[s]]
               /\ folder' = [f \in Folders |-> IF f[1] \in SchemasOf(c) THEN "dir" ELSE folder[f]]
<1>1. catalog \in [Catalogs -> CatalogRecords] /\ catalog[c] \in CatalogRecords
  BY DEF Typed
<1>2. UNCHANGED <<disk, table, result>>
  BY DEF CatalogWorker, ReadCatalogFile, OpenSchemas, SchemasEnd, AssignErr, TestErr, ReturnErr,
         ReadCatalogsLen, AppendCatalog, tableLevel
<1>3. ASSUME NEW r, catalog' = [catalog EXCEPT ![c] = r]
      PROVE  catalog'[c] = r /\ \A b \in Catalogs : b # c => catalog'[b] = catalog[b]
  BY <1>1, <1>3
<1> DEFINE Steps == {<<"file", "dir">>, <<"file", "loaded">>, <<"dir", "loaded">>, <<"workers", "loaded">>,
                     <<"loaded", "assigned">>, <<"assigned", "refused">>, <<"assigned", "passed">>,
                     <<"refused", "failed">>, <<"refused", "dropped">>, <<"passed", "append">>,
                     <<"append", "done">>}
<1>4. \A step \in Steps : /\ CatalogRank[step[2]] < CatalogRank[step[1]]
                          /\ step[1] # "idle" /\ step[2] \notin {"idle", "workers", "file"}
                          /\ step[2] = "dir" => step[1] = "file"
  BY DEF CatalogRank
<1>5. CatalogRank["workers"] < CatalogRank["dir"]
  BY DEF CatalogRank
<1> HIDE DEF Steps
<1>6. ASSUME <<catalog[c].state, catalog'[c].state>> \in Steps, UNCHANGED <<folder, schema>>,
             \A b \in Catalogs : b # c => catalog'[b] = catalog[b]
      PROVE  /\ \A b \in Catalogs : b # c => catalog'[b] = catalog[b]
             /\ catalog[c].state # "idle" /\ catalog'[c].state # "idle"
             /\ CatalogRank[catalog'[c].state] < CatalogRank[catalog[c].state]
             /\ UNCHANGED <<folder, schema>> /\ catalog'[c].state # "workers"
             /\ (catalog'[c].state \in {"file", "dir"} => catalog[c].state \in {"file", "dir"})
  <2> PICK from, to : from = catalog[c].state /\ to = catalog'[c].state
    OBVIOUS
  <2>1. <<from, to>> \in Steps
    BY <1>6
  <2>2. /\ CatalogRank[to] < CatalogRank[from] /\ from # "idle" /\ to \notin {"idle", "workers", "file"}
        /\ to = "dir" => from = "file"
    BY <1>4, <2>1
  <2> QED BY <1>6, <2>2
<1>7. ASSUME NEW r, catalog' = [catalog EXCEPT ![c] = r], <<catalog[c].state, r.state>> \in Steps,
             UNCHANGED <<folder, schema>>
      PROVE  /\ UNCHANGED <<disk, table, result>>
             /\ \A b \in Catalogs : b # c => catalog'[b] = catalog[b]
             /\ catalog[c].state # "idle" /\ catalog'[c].state # "idle"
             /\ CatalogRank[catalog'[c].state] < CatalogRank[catalog[c].state]
             /\ UNCHANGED <<folder, schema>> /\ catalog'[c].state # "workers"
             /\ (catalog'[c].state \in {"file", "dir"} => catalog[c].state \in {"file", "dir"})
  <2>1. catalog'[c] = r /\ \A b \in Catalogs : b # c => catalog'[b] = catalog[b]
    BY <1>3, <1>7
  <2> QED BY <1>2, <1>6, <1>7, <2>1
<1>8. ASSUME NEW to, NEW step, step = <<catalog[c].state, to>>, step \in Steps,
             catalog' = [catalog EXCEPT ![c].state = to] \/ (\E o : catalog' = [catalog EXCEPT ![c].state = to, ![c].own = o])
             \/ (\E n : catalog' = [catalog EXCEPT ![c].state = to, ![c].len = n])
      PROVE  \E r : catalog' = [catalog EXCEPT ![c] = r] /\ <<catalog[c].state, r.state>> \in Steps
  <2>1. CASE catalog' = [catalog EXCEPT ![c].state = to]
    <3>1. catalog' = [catalog EXCEPT ![c] = [catalog[c] EXCEPT !.state = to]]
      BY <2>1
    <3>2. [catalog[c] EXCEPT !.state = to].state = to
      BY <1>1 DEF CatalogRecords
    <3> QED BY <1>8, <3>1, <3>2
  <2>2. CASE \E o : catalog' = [catalog EXCEPT ![c].state = to, ![c].own = o]
    <3>0. PICK o : catalog' = [catalog EXCEPT ![c].state = to, ![c].own = o]
      BY <2>2
    <3>1. catalog' = [catalog EXCEPT ![c] = [catalog[c] EXCEPT !.state = to, !.own = o]]
      BY <1>1, <3>0
    <3>2. [catalog[c] EXCEPT !.state = to, !.own = o].state = to
      BY <1>1 DEF CatalogRecords
    <3> QED BY <1>8, <3>1, <3>2
  <2>3. CASE \E n : catalog' = [catalog EXCEPT ![c].state = to, ![c].len = n]
    <3>0. PICK n : catalog' = [catalog EXCEPT ![c].state = to, ![c].len = n]
      BY <2>3
    <3>1. catalog' = [catalog EXCEPT ![c] = [catalog[c] EXCEPT !.state = to, !.len = n]]
      BY <1>1, <3>0
    <3>2. [catalog[c] EXCEPT !.state = to, !.len = n].state = to
      BY <1>1 DEF CatalogRecords
    <3> QED BY <1>8, <3>1, <3>2
  <2> QED BY <1>8, <2>1, <2>2, <2>3
<1>9. CASE OpenSchemas(c) /\ catalog' = [catalog EXCEPT ![c].state = "workers"]
  <2>1. catalog[c].state = "dir"
    BY <1>9 DEF OpenSchemas
  <2>2. catalog' = [catalog EXCEPT ![c] = [catalog[c] EXCEPT !.state = "workers"]]
    BY <1>9
  <2>3. [catalog[c] EXCEPT !.state = "workers"].state = "workers"
    BY <1>1 DEF CatalogRecords
  <2>4. catalog'[c].state = "workers" /\ \A b \in Catalogs : b # c => catalog'[b] = catalog[b]
    BY <1>3, <2>2, <2>3
  <2>5. /\ schema' = [s \in AllSchemas |-> IF s \in SchemasOf(c) THEN "folders" ELSE schema[s]]
        /\ folder' = [f \in Folders |-> IF f[1] \in SchemasOf(c) THEN "dir" ELSE folder[f]]
    <3>1. catalog' # [catalog EXCEPT ![c].state = "loaded", ![c].own = "error"]
      <4>1. [catalog[c] EXCEPT !.state = "loaded", !.own = "error"].state = "loaded"
        BY <1>1 DEF CatalogRecords
      <4>2. [catalog EXCEPT ![c].state = "loaded", ![c].own = "error"][c].state = "loaded"
        BY <1>1, <4>1
      <4> QED BY <2>4, <4>2
    <3> QED BY <1>9, <3>1 DEF OpenSchemas
  <2> QED BY <1>2, <1>5, <2>1, <2>4, <2>5
<1>10. CASE ~(OpenSchemas(c) /\ catalog' = [catalog EXCEPT ![c].state = "workers"])
  <2>1. UNCHANGED <<folder, schema>>
    BY <1>10 DEF CatalogWorker, ReadCatalogFile, OpenSchemas, SchemasEnd, AssignErr, TestErr, ReturnErr,
         ReadCatalogsLen, AppendCatalog
  <2> DEFINE Goes == \E r : catalog' = [catalog EXCEPT ![c] = r] /\ <<catalog[c].state, r.state>> \in Steps
  <2>2. CASE ReadCatalogFile(c)
    <3>1. catalog[c].state = "file"
      BY <2>2 DEF ReadCatalogFile
    <3>2. <<catalog[c].state, "dir">> \in Steps /\ <<catalog[c].state, "loaded">> \in Steps
      BY <3>1 DEF Steps
    <3>3. \/ catalog' = [catalog EXCEPT ![c].state = "dir"]
          \/ catalog' = [catalog EXCEPT ![c].state = "loaded", ![c].own = "error"]
      BY <2>2 DEF ReadCatalogFile
    <3>4. Goes
      BY <1>8, <3>2, <3>3
    <3> QED BY <1>7, <2>1, <3>4
  <2>3. CASE OpenSchemas(c)
    <3>1. <<catalog[c].state, "loaded">> \in Steps
      BY <2>3 DEF OpenSchemas, Steps
    <3>2. catalog' = [catalog EXCEPT ![c].state = "loaded", ![c].own = "error"]
      BY <1>10, <2>3 DEF OpenSchemas
    <3>3. Goes
      BY <1>8, <3>1, <3>2
    <3> QED BY <1>7, <2>1, <3>3
  <2>4. CASE SchemasEnd(c)
    <3>1. <<catalog[c].state, "loaded">> \in Steps
      BY <2>4 DEF SchemasEnd, Steps
    <3>2. \E o : catalog' = [catalog EXCEPT ![c].state = "loaded", ![c].own = o]
      BY <2>4 DEF SchemasEnd
    <3>3. Goes
      BY <1>8, <3>1, <3>2
    <3> QED BY <1>7, <2>1, <3>3
  <2>5. CASE AssignErr(c)
    <3>1. <<catalog[c].state, "assigned">> \in Steps
      BY <2>5 DEF AssignErr, Steps
    <3>2. catalog' = [catalog EXCEPT ![c].state = "assigned"]
      BY <2>5 DEF AssignErr
    <3>3. Goes
      BY <1>8, <3>1, <3>2
    <3> QED BY <1>7, <2>1, <3>3
  <2>6. CASE TestErr(c)
    <3>1. <<catalog[c].state, "refused">> \in Steps /\ <<catalog[c].state, "passed">> \in Steps
      BY <2>6 DEF TestErr, Steps
    <3>2. PICK to \in {"refused", "passed"} : catalog' = [catalog EXCEPT ![c].state = to]
      BY <2>6 DEF TestErr
    <3>4. <<catalog[c].state, to>> \in Steps
      BY <3>1
    <3>3. Goes
      BY <1>8, <3>4, <3>2
    <3> QED BY <1>7, <2>1, <3>3
  <2>7. CASE ReturnErr(c)
    <3>1. <<catalog[c].state, "failed">> \in Steps /\ <<catalog[c].state, "dropped">> \in Steps
      BY <2>7 DEF ReturnErr, Steps
    <3>2. PICK to \in {"failed", "dropped"} : catalog' = [catalog EXCEPT ![c].state = to]
      BY <2>7 DEF ReturnErr
    <3>4. <<catalog[c].state, to>> \in Steps
      BY <3>1
    <3>3. Goes
      BY <1>8, <3>4, <3>2
    <3> QED BY <1>7, <2>1, <3>3
  <2>8. CASE ReadCatalogsLen(c)
    <3>1. <<catalog[c].state, "append">> \in Steps
      BY <2>8 DEF ReadCatalogsLen, Steps
    <3>2. \E n : catalog' = [catalog EXCEPT ![c].state = "append", ![c].len = n]
      BY <2>8 DEF ReadCatalogsLen
    <3>3. Goes
      BY <1>8, <3>1, <3>2
    <3> QED BY <1>7, <2>1, <3>3
  <2>9. CASE AppendCatalog(c)
    <3>1. <<catalog[c].state, "done">> \in Steps
      BY <2>9 DEF AppendCatalog, Steps
    <3>2. catalog' = [catalog EXCEPT ![c].state = "done"]
      BY <2>9 DEF AppendCatalog
    <3>3. Goes
      BY <1>8, <3>1, <3>2
    <3> QED BY <1>7, <2>1, <3>3
  <2> QED BY <2>2, <2>3, <2>4, <2>5, <2>6, <2>7, <2>8, <2>9 DEF CatalogWorker
<1> QED BY <1>9, <1>10

LEMMA UntouchedStep ==
  ASSUME Untouched, [Next]_vars
  PROVE  Untouched'
<1> SUFFICES ASSUME Catalogs' = {}
             PROVE  (catalogs = EmptyFor({}))'
  BY DEF Untouched
<1>1. UNCHANGED disk
  BY DEF Next, Caller, OpenCatalogs, Return, Returned, TableWorker, LoadTable, ReadTablesLen, AppendTable,
         FolderWorker, OpenFolder, FolderEnds, SchemaEnds, CatalogWorker, ReadCatalogFile, OpenSchemas,
         SchemasEnd, AssignErr, TestErr, ReturnErr, ReadCatalogsLen, AppendCatalog, vars
<1>2. Catalogs = {}
  BY <1>1 DEF Catalogs
<1>3. catalogs = EmptyFor({})
  BY <1>2 DEF Untouched
<1>4. catalogs' = catalogs \/ catalogs' = Made(Catalogs)
  BY <1>2 DEF Next, Caller, OpenCatalogs, Return, Returned, TableWorker, LoadTable, ReadTablesLen, AppendTable,
         FolderWorker, OpenFolder, FolderEnds, SchemaEnds, catalogLevel, vars
<1>5. catalogs' = EmptyFor({})
  BY <1>2, <1>3, <1>4 DEF Made
<1> QED BY <1>5 DEF EmptyFor, Array

LEMMA LaunchedInit == Init => Launched
<1> SUFFICES ASSUME Init PROVE Launched
  OBVIOUS
<1>1. /\ \A c \in Catalogs : catalog[c].state = "idle"
      /\ \A s \in AllSchemas : schema[s] = "idle"
      /\ \A f \in Folders : folder[f] = "idle"
  BY DEF Init
<1> QED BY <1>1, BelowCatalogs DEF Launched

LEMMA LaunchedStep ==
  ASSUME IInv, Launched, [Next]_vars
  PROVE  Launched'
<1>0. /\ Typed /\ TableSlices
      /\ table \in [AllTables -> Tables]
  BY DEF IInv, Typed
<1>1. UNCHANGED disk
  BY DEF Next, Caller, OpenCatalogs, Return, Returned, TableWorker, LoadTable, ReadTablesLen, AppendTable,
         FolderWorker, OpenFolder, FolderEnds, SchemaEnds, CatalogWorker, ReadCatalogFile, OpenSchemas,
         SchemasEnd, AssignErr, TestErr, ReturnErr, ReadCatalogsLen, AppendCatalog, vars
<1>2. /\ Folders' = Folders /\ AllTables' = AllTables /\ AllSchemas' = AllSchemas
      /\ Catalogs' = Catalogs /\ (\A f : TablesOf(f)' = TablesOf(f))
      /\ \A c : SchemasOf(c)' = SchemasOf(c)
  BY <1>1, DiskStays
<1>3. /\ (\A c \in Catalogs : catalog[c].state = "idle") \/ \A c \in Catalogs : catalog[c].state # "idle"
      /\ \A c \in Catalogs : \A s \in SchemasOf(c) :
           /\ catalog[c].state \in {"idle", "file", "dir"} => schema[s] = "idle"
           /\ catalog[c].state = "workers" => schema[s] # "idle"
      /\ \A s \in AllSchemas : schema[s] # "idle" => \A kind \in Kinds : folder[<<s, kind>>] # "idle"
      /\ \A f \in Folders : folder[f] = "workers" => \A t \in TablesOf(f) : table[t].state # "idle"
  BY DEF Launched
<1>4. ASSUME (\A c \in Catalogs : catalog'[c].state = "idle") \/ \A c \in Catalogs : catalog'[c].state # "idle",
             \A c \in Catalogs : \A s \in SchemasOf(c) :
               /\ catalog'[c].state \in {"idle", "file", "dir"} => schema'[s] = "idle"
               /\ catalog'[c].state = "workers" => schema'[s] # "idle",
             \A s \in AllSchemas : schema'[s] # "idle" => \A kind \in Kinds : folder'[<<s, kind>>] # "idle",
             \A f \in Folders : folder'[f] = "workers" => \A t \in TablesOf(f) : table'[t].state # "idle"
      PROVE  Launched'
  BY <1>2, <1>4 DEF Launched
<1>5. \A s \in AllSchemas, kind \in Kinds : <<s, kind>> \in Folders
  BY FolderPairs
<1>6. /\ \A c \in Catalogs : SchemasOf(c) \subseteq AllSchemas
      /\ \A f \in Folders : TablesOf(f) \subseteq AllTables
  BY BelowCatalogs
<1>7. CASE UNCHANGED <<table, folder, schema, catalog>>
  BY <1>3, <1>4, <1>7
<1>8. ASSUME NEW t \in AllTables, TableWorker(t)
      PROVE  Launched'
  <2>1. /\ UNCHANGED <<folder, schema, catalog>> /\ table'[t].state # "idle"
        /\ \A u \in AllTables : u # t => table'[u] = table[u]
    BY <1>0, <1>8, TableGoesOn
  <2>2. \A f \in Folders : folder'[f] = "workers" => \A u \in TablesOf(f) : table'[u].state # "idle"
    BY <1>3, <1>6, <2>1
  <2> QED BY <1>3, <1>4, <2>1, <2>2
<1>9. ASSUME NEW f \in Folders, FolderWorker(f)
      PROVE  Launched'
  <2>1. /\ UNCHANGED <<schema, catalog>> /\ folder'[f] # "idle"
        /\ \A g \in Folders : g # f => folder'[g] = folder[g]
        /\ \A t \in AllTables : \/ table'[t] = table[t]
                                \/ table[t].state = "idle" /\ table'[t].state = "file"
        /\ folder'[f] = "workers" => \A t \in TablesOf(f) : table'[t].state # "idle"
    BY <1>0, <1>9, FolderGoesOn
  <2>2. \A g \in Folders : folder'[g] = "workers" => \A u \in TablesOf(g) : table'[u].state # "idle"
    BY <1>3, <1>6, <2>1
  <2>3. \A s \in AllSchemas : schema'[s] # "idle" => \A kind \in Kinds : folder'[<<s, kind>>] # "idle"
    BY <1>3, <1>5, <2>1
  <2> QED BY <1>3, <1>4, <2>1, <2>2, <2>3
<1>10. ASSUME NEW x \in AllSchemas, SchemaEnds(x)
       PROVE  Launched'
  <2>1. /\ UNCHANGED <<table, folder, catalog>> /\ schema[x] # "idle" /\ schema'[x] # "idle"
        /\ \A s \in AllSchemas : s # x => schema'[s] = schema[s]
    BY <1>0, <1>10, SchemaGoesOn
  <2>2. \A s \in AllSchemas : schema'[s] = "idle" <=> schema[s] = "idle"
    BY <2>1
  <2> QED BY <1>3, <1>4, <1>6, <2>1, <2>2
<1>11. ASSUME NEW c \in Catalogs, CatalogWorker(c)
       PROVE  Launched'
  <2>1. /\ UNCHANGED table /\ catalog[c].state # "idle" /\ catalog'[c].state # "idle"
        /\ \A b \in Catalogs : b # c => catalog'[b] = catalog[b]
        /\ \/ UNCHANGED <<folder, schema>> /\ catalog'[c].state # "workers"
              /\ (catalog'[c].state \in {"file", "dir"} => catalog[c].state \in {"file", "dir"})
           \/ /\ catalog[c].state = "dir" /\ catalog'[c].state = "workers"
              /\ schema' = [s \in AllSchemas |-> IF s \in SchemasOf(c) THEN "folders" ELSE schema[s]]
              /\ folder' = [f \in Folders |-> IF f[1] \in SchemasOf(c) THEN "dir" ELSE folder[f]]
    BY <1>0, <1>11, CatalogGoesOn
  <2>2. (\A b \in Catalogs : catalog'[b].state = "idle") \/ \A b \in Catalogs : catalog'[b].state # "idle"
    BY <1>3, <2>1
  <2>3. CASE UNCHANGED <<folder, schema>> /\ catalog'[c].state # "workers"
             /\ (catalog'[c].state \in {"file", "dir"} => catalog[c].state \in {"file", "dir"})
    <3>1. ASSUME NEW b \in Catalogs, NEW s \in SchemasOf(b)
          PROVE  /\ catalog'[b].state \in {"idle", "file", "dir"} => schema'[s] = "idle"
                 /\ catalog'[b].state = "workers" => schema'[s] # "idle"
      BY <1>3, <2>1, <2>3
    <3> QED BY <1>3, <1>4, <2>1, <2>2, <2>3, <3>1
  <2>4. CASE /\ catalog[c].state = "dir" /\ catalog'[c].state = "workers"
             /\ schema' = [s \in AllSchemas |-> IF s \in SchemasOf(c) THEN "folders" ELSE schema[s]]
             /\ folder' = [f \in Folders |-> IF f[1] \in SchemasOf(c) THEN "dir" ELSE folder[f]]
    <3>1. \A b \in Catalogs : b # c => \A s \in SchemasOf(b) : s \notin SchemasOf(c)
      BY <1>0, TreeFacts
    <3>2. ASSUME NEW b \in Catalogs, NEW s \in SchemasOf(b)
          PROVE  /\ catalog'[b].state \in {"idle", "file", "dir"} => schema'[s] = "idle"
                 /\ catalog'[b].state = "workers" => schema'[s] # "idle"
      <4>1. s \in AllSchemas
        BY <1>6
      <4>2. CASE b = c
        BY <2>4, <4>1, <4>2
      <4>3. CASE b # c
        BY <1>3, <2>1, <2>4, <3>1, <4>1, <4>3
      <4> QED BY <4>2, <4>3
    <3>3. ASSUME NEW s \in AllSchemas, schema'[s] # "idle", NEW kind \in Kinds
          PROVE  folder'[<<s, kind>>] # "idle"
      <4>1. <<s, kind>> \in Folders /\ <<s, kind>>[1] = s
        BY <1>5
      <4>2. folder'[<<s, kind>>] = IF s \in SchemasOf(c) THEN "dir" ELSE folder[<<s, kind>>]
        BY <2>4, <4>1
      <4>3. s \notin SchemasOf(c) => schema[s] # "idle"
        BY <2>4, <3>3
      <4> QED BY <1>3, <4>2, <4>3
    <3>4. ASSUME NEW f \in Folders, folder'[f] = "workers"
          PROVE  \A t \in TablesOf(f) : table'[t].state # "idle"
      <4>1. folder[f] = "workers"
        BY <2>4, <3>4
      <4> QED BY <1>3, <2>1, <4>1
    <3> QED BY <1>4, <2>2, <3>2, <3>3, <3>4
  <2> QED BY <2>1, <2>3, <2>4
<1>12. CASE OpenCatalogs /\ catalog' = [c \in Catalogs |-> [catalog[c] EXCEPT !.state = "file"]]
  <2>1. UNCHANGED <<table, folder, schema>> /\ \A c \in Catalogs : catalog[c].state = "idle"
    BY <1>12 DEF OpenCatalogs, tableLevel
  <2>2. \A c \in Catalogs : catalog'[c].state = "file"
    <3>1. \A c \in Catalogs : catalog[c] \in CatalogRecords
      BY <1>0 DEF Typed
    <3> QED BY <1>12, <3>1 DEF CatalogRecords
  <2>3. ASSUME NEW c \in Catalogs, NEW s \in SchemasOf(c)
        PROVE  schema'[s] = "idle"
    BY <1>3, <2>1
  <2> QED BY <1>3, <1>4, <2>1, <2>2, <2>3
<1>13. CASE OpenCatalogs /\ UNCHANGED catalog
  BY <1>7, <1>13 DEF OpenCatalogs, tableLevel
<1>14. CASE Return \/ Returned \/ UNCHANGED vars
  BY <1>7, <1>14 DEF Return, Returned, vars, tableLevel, catalogLevel
<1>15. OpenCatalogs =>
         \/ catalog' = [c \in Catalogs |-> [catalog[c] EXCEPT !.state = "file"]]
         \/ UNCHANGED catalog
  BY DEF OpenCatalogs
<1> QED BY <1>8, <1>9, <1>10, <1>11, <1>12, <1>13, <1>14, <1>15 DEF Next, Caller

\* Every step that changes anything leaves less to do.
LEMMA StepIsAhead ==
  ASSUME IInv, IInv', Launched, Untouched, Next, vars' # vars
  PROVE  StepsAhead' < StepsAhead
<1>0. Typed /\ Typed' /\ TableSlices
  BY DEF IInv
<1>1. /\ \A t \in AllTables : TableRank[table[t].state] \in 0..4
      /\ \A f \in Folders : FolderRank[folder[f]] \in 0..3
      /\ \A s \in AllSchemas : SchemaRank[schema[s]] \in 0..2
      /\ \A c \in Catalogs : CatalogRank[catalog[c].state] \in 0..8
  <2>1. /\ \A t \in AllTables : table[t].state \in TableStates
        /\ \A f \in Folders : folder[f] \in FolderStates
        /\ \A s \in AllSchemas : schema[s] \in SchemaStates
        /\ \A c \in Catalogs : catalog[c].state \in CatalogStates
    BY <1>0 DEF Typed, Tables, CatalogRecords
  <2> QED BY <2>1, RanksTyped
<1>2. ASSUME NEW t \in AllTables, TableWorker(t)
      PROVE  StepsAhead' < StepsAhead
  <2>1. /\ UNCHANGED <<disk, folder, schema, catalog, result>>
        /\ \A u \in AllTables : u # t => table'[u] = table[u]
        /\ TableRank[table'[t].state] < TableRank[table[t].state]
    BY <1>0, <1>2, TableGoesOn
  <2>2. TableRank[table'[t].state] \in 0..4
    <3>1. t \in AllTables'
      BY <2>1, DiskStays
    <3>2. table'[t].state \in TableStates
      BY <1>0, <3>1 DEF Typed, Tables
    <3> QED BY <3>2, RanksTyped
  <2>3. \A u \in AllTables : TableRank[table'[u].state] <= TableRank[table[u].state]
    <3> SUFFICES ASSUME NEW u \in AllTables
                 PROVE  TableRank[table'[u].state] <= TableRank[table[u].state]
      OBVIOUS
    <3>1. PICK m \in 0..4, n \in 0..4 : m = TableRank[table[u].state] /\ n = TableRank[table'[t].state]
      BY <1>1, <2>2
    <3> QED BY <1>1, <2>1, <3>1
  <2>4. /\ \A f \in Folders : FolderRank[folder'[f]] <= FolderRank[folder[f]]
        /\ \A s \in AllSchemas : SchemaRank[schema'[s]] <= SchemaRank[schema[s]]
        /\ \A c \in Catalogs : CatalogRank[catalog'[c].state] <= CatalogRank[catalog[c].state]
    BY <1>1, <2>1
  <2> QED BY <1>0, <2>1, <2>3, <2>4, LessAhead
<1>3. ASSUME NEW f \in Folders, FolderWorker(f)
      PROVE  StepsAhead' < StepsAhead
  <2>1. /\ UNCHANGED <<disk, schema, catalog, result>>
        /\ \A g \in Folders : g # f => folder'[g] = folder[g]
        /\ FolderRank[folder'[f]] < FolderRank[folder[f]]
        /\ \A t \in AllTables : \/ table'[t] = table[t]
                                \/ table[t].state = "idle" /\ table'[t].state = "file"
    BY <1>0, <1>3, FolderGoesOn
  <2>2. FolderRank[folder'[f]] \in 0..3
    <3>1. f \in Folders'
      BY <2>1, DiskStays
    <3>2. folder'[f] \in FolderStates
      BY <1>0, <3>1 DEF Typed
    <3> QED BY <3>2, RanksTyped
  <2>3. \A g \in Folders : FolderRank[folder'[g]] <= FolderRank[folder[g]]
    BY <1>1, <2>1, <2>2
  <2>4. \A t \in AllTables : TableRank[table'[t].state] <= TableRank[table[t].state]
    <3>1. TableRank["file"] <= TableRank["idle"]
      BY DEF TableRank
    <3> QED BY <1>1, <2>1, <3>1
  <2>5. /\ \A s \in AllSchemas : SchemaRank[schema'[s]] <= SchemaRank[schema[s]]
        /\ \A c \in Catalogs : CatalogRank[catalog'[c].state] <= CatalogRank[catalog[c].state]
    BY <1>1, <2>1
  <2> QED BY <1>0, <2>1, <2>3, <2>4, <2>5, LessAhead
<1>4. ASSUME NEW x \in AllSchemas, SchemaEnds(x)
      PROVE  StepsAhead' < StepsAhead
  <2>1. /\ UNCHANGED <<disk, table, folder, catalog, result>>
        /\ \A s \in AllSchemas : s # x => schema'[s] = schema[s]
        /\ SchemaRank[schema'[x]] < SchemaRank[schema[x]]
    BY <1>0, <1>4, SchemaGoesOn
  <2>2. SchemaRank[schema'[x]] \in 0..2
    <3>1. x \in AllSchemas'
      BY <2>1, DiskStays
    <3>2. schema'[x] \in SchemaStates
      BY <1>0, <3>1 DEF Typed
    <3> QED BY <3>2, RanksTyped
  <2>3. \A s \in AllSchemas : SchemaRank[schema'[s]] <= SchemaRank[schema[s]]
    BY <1>1, <2>1, <2>2
  <2>4. /\ \A t \in AllTables : TableRank[table'[t].state] <= TableRank[table[t].state]
        /\ \A f \in Folders : FolderRank[folder'[f]] <= FolderRank[folder[f]]
        /\ \A c \in Catalogs : CatalogRank[catalog'[c].state] <= CatalogRank[catalog[c].state]
    BY <1>1, <2>1
  <2> QED BY <1>0, <2>1, <2>3, <2>4, LessAhead
<1>5. ASSUME NEW c \in Catalogs, CatalogWorker(c)
      PROVE  StepsAhead' < StepsAhead
  <2>1. /\ UNCHANGED <<disk, table, result>>
        /\ \A b \in Catalogs : b # c => catalog'[b] = catalog[b]
        /\ CatalogRank[catalog'[c].state] < CatalogRank[catalog[c].state]
        /\ \/ UNCHANGED <<folder, schema>>
           \/ /\ catalog[c].state = "dir"
              /\ schema' = [s \in AllSchemas |-> IF s \in SchemasOf(c) THEN "folders" ELSE schema[s]]
              /\ folder' = [f \in Folders |-> IF f[1] \in SchemasOf(c) THEN "dir" ELSE folder[f]]
    BY <1>0, <1>5, CatalogGoesOn
  <2>2. CatalogRank[catalog'[c].state] \in 0..8
    <3>1. c \in Catalogs'
      BY <2>1, DiskStays
    <3>2. catalog'[c].state \in CatalogStates
      BY <1>0, <3>1 DEF Typed, CatalogRecords
    <3> QED BY <3>2, RanksTyped
  <2>3. \A b \in Catalogs : CatalogRank[catalog'[b].state] <= CatalogRank[catalog[b].state]
    BY <1>1, <2>1, <2>2
  <2>4. \A t \in AllTables : TableRank[table'[t].state] <= TableRank[table[t].state]
    BY <1>1, <2>1
  <2>5. \A s \in AllSchemas : SchemaRank[schema'[s]] <= SchemaRank[schema[s]]
    <3>1. CASE UNCHANGED schema
      BY <1>1, <3>1
    <3>2. CASE /\ catalog[c].state = "dir"
               /\ schema' = [s \in AllSchemas |-> IF s \in SchemasOf(c) THEN "folders" ELSE schema[s]]
      <4>1. \A s \in SchemasOf(c) : schema[s] = "idle"
        BY <3>2 DEF Launched
      <4>2. SchemaRank["folders"] <= SchemaRank["idle"]
        BY DEF SchemaRank
      <4> QED BY <1>1, <3>2, <4>1, <4>2
    <3> QED BY <2>1, <3>1, <3>2
  <2>6. \A f \in Folders : FolderRank[folder'[f]] <= FolderRank[folder[f]]
    <3>1. CASE UNCHANGED folder
      BY <1>1, <3>1
    <3>2. CASE /\ catalog[c].state = "dir"
               /\ folder' = [f \in Folders |-> IF f[1] \in SchemasOf(c) THEN "dir" ELSE folder[f]]
      <4>1. ASSUME NEW f \in Folders, f[1] \in SchemasOf(c)
            PROVE  folder[f] = "idle"
        <5>1. f[2] \in Kinds /\ f = <<f[1], f[2]>>
          BY DEF Folders, Kinds
        <5>2. folder[<<f[1], f[2]>>] = "idle"
          BY <3>2, <4>1, <5>1 DEF IInv, Climb
        <5> QED BY <5>1, <5>2
      <4>2. FolderRank["dir"] <= FolderRank["idle"]
        BY DEF FolderRank
      <4>3. \A f \in Folders : f[1] \notin SchemasOf(c) => folder'[f] = folder[f]
        BY <3>2
      <4>4. \A f \in Folders : f[1] \in SchemasOf(c) => folder'[f] = "dir"
        BY <3>2
      <4> QED BY <1>1, <4>1, <4>2, <4>3, <4>4
    <3> QED BY <2>1, <3>1, <3>2
  <2> QED BY <1>0, <2>1, <2>3, <2>4, <2>5, <2>6, LessAhead
<1>6. ASSUME UNCHANGED <<disk, table, folder, schema, catalog>>, result = "none", result' # "none"
      PROVE  StepsAhead' < StepsAhead
  <2>1. /\ \A t \in AllTables : TableRank[table'[t].state] <= TableRank[table[t].state]
        /\ \A f \in Folders : FolderRank[folder'[f]] <= FolderRank[folder[f]]
        /\ \A s \in AllSchemas : SchemaRank[schema'[s]] <= SchemaRank[schema[s]]
        /\ \A c \in Catalogs : CatalogRank[catalog'[c].state] <= CatalogRank[catalog[c].state]
    BY <1>1, <1>6
  <2> QED BY <1>0, <1>6, <2>1, LessAhead
<1>7. CASE Return
  <2>1. UNCHANGED <<disk, table, folder, schema, catalog>> /\ result = "none" /\ result' # "none"
    BY <1>7 DEF Return, tableLevel, catalogLevel
  <2> QED BY <1>6, <2>1
<1>8. CASE OpenCatalogs
  <2>0. /\ UNCHANGED <<disk, table, tables, folder, schema, schemas, err>> /\ result = "none"
        /\ \A c \in Catalogs : catalog[c].state = "idle"
    BY <1>8 DEF OpenCatalogs, tableLevel
  <2>1. CASE result' = "failure" /\ UNCHANGED catalog
    BY <1>6, <2>0, <2>1
  <2>2. CASE /\ catalog' = [c \in Catalogs |-> [catalog[c] EXCEPT !.state = "file"]]
             /\ catalogs' = Made(Catalogs) /\ UNCHANGED result
    <3>1. \A c \in Catalogs : catalog'[c].state = "file"
      <4>1. \A c \in Catalogs : catalog[c] \in CatalogRecords
        BY <1>0 DEF Typed
      <4> QED BY <2>2, <4>1 DEF CatalogRecords
    <3>2. CatalogRank["file"] < CatalogRank["idle"] /\ CatalogRank["file"] <= CatalogRank["idle"]
      BY DEF CatalogRank
    <3>3. \A c \in Catalogs : CatalogRank[catalog'[c].state] <= CatalogRank[catalog[c].state]
                              /\ CatalogRank[catalog'[c].state] < CatalogRank[catalog[c].state]
      BY <2>0, <3>1, <3>2
    <3>4. /\ \A t \in AllTables : TableRank[table'[t].state] <= TableRank[table[t].state]
          /\ \A f \in Folders : FolderRank[folder'[f]] <= FolderRank[folder[f]]
          /\ \A s \in AllSchemas : SchemaRank[schema'[s]] <= SchemaRank[schema[s]]
      BY <1>1, <2>0
    <3>5. Catalogs # {}
      <4>1. ASSUME Catalogs = {}
            PROVE  UNCHANGED vars
        <5>1. catalog' = catalog
          BY <1>0, <2>2, <4>1 DEF Typed
        <5>2. catalogs = EmptyFor({})
          BY <4>1 DEF Untouched
        <5> QED BY <2>0, <2>2, <4>1, <5>1, <5>2 DEF vars, Made
      <4> QED BY <4>1
    <3> QED BY <1>0, <2>0, <2>2, <3>3, <3>4, <3>5, LessAhead
  <2> QED BY <1>8, <2>1, <2>2 DEF OpenCatalogs
<1>9. ~Returned
  BY DEF Returned
<1> QED BY <1>2, <1>3, <1>4, <1>5, <1>7, <1>8, <1>9 DEF Next, Caller

\* As long as the load has not returned, a goroutine can go on, or the caller can.
LEMMA IInvGoesOn ==
  ASSUME IInv, Launched
  PROVE  NeverStuck
<1> SUFFICES ASSUME ~\E t \in AllTables : TableCanGo(t), ~\E f \in Folders : FolderCanGo(f),
                    ~\E s \in AllSchemas : SchemaCanGo(s), ~\E c \in Catalogs : CatalogCanGo(c),
                    \A c \in Catalogs : catalog[c].state # "idle"
             PROVE  \A c \in Catalogs : catalog[c].state \in Over
  BY DEF NeverStuck, Launched
<1>0. Typed
  BY DEF IInv
<1>1. ASSUME NEW f \in Folders, folder[f] # "idle"
      PROVE  folder[f] \in Over
  <2>1. folder[f] \in FolderStates /\ ~FolderCanGo(f)
    BY <1>0 DEF Typed
  <2>2. CASE folder[f] = "workers"
    <3>1. ASSUME NEW t \in TablesOf(f)
          PROVE  table[t].state \in Over
      <4>1. t \in AllTables /\ ~TableCanGo(t)
        BY BelowCatalogs
      <4>2. table[t].state \in TableStates
        BY <1>0, <4>1 DEF Typed, Tables
      <4>3. table[t].state # "idle"
        BY <2>2 DEF Launched
      <4> QED BY <4>1, <4>2, <4>3 DEF TableCanGo, TableStates, Over
    <3> QED BY <2>1, <2>2, <3>1 DEF FolderCanGo
  <2> QED BY <1>1, <2>1, <2>2 DEF FolderCanGo, FolderStates, Over
<1>2. ASSUME NEW s \in AllSchemas, schema[s] # "idle"
      PROVE  schema[s] \in Over
  <2>1. \A kind \in Kinds : folder[<<s, kind>>] \in Over
    BY <1>1, <1>2, FolderPairs DEF Launched
  <2>2. schema[s] \in SchemaStates /\ ~SchemaCanGo(s)
    BY <1>0 DEF Typed
  <2> QED BY <1>2, <2>1, <2>2 DEF SchemaCanGo, SchemaStates, Over
<1>3. ASSUME NEW c \in Catalogs
      PROVE  catalog[c].state \in Over
  <2>1. catalog[c].state \in CatalogStates /\ ~CatalogCanGo(c) /\ catalog[c].state # "idle"
    BY <1>0 DEF Typed, CatalogRecords
  <2>2. catalog[c].state = "workers" => \A s \in SchemasOf(c) : schema[s] \in Over
    BY <1>2, BelowCatalogs DEF Launched
  <2>3. catalog[c].state # "workers"
    BY <2>1, <2>2 DEF CatalogCanGo
  <2> QED BY <2>1, <2>3 DEF CatalogCanGo, CatalogStates, Loading
<1> QED BY <1>3

\* The load is over after a number of steps that the tree on the disk sets from the start,
\* whatever cannot be read, and on the way to its return no level waits for one that waits
\* for it or was never started.
THEOREM LoadRunsOut ==
  Spec => [](StepsAhead \in Nat /\ NeverStuck) /\ StepsRunOut
<1> DEFINE Inv == IInv /\ Launched /\ Untouched
           Runs == Inv /\ [Next]_vars
           Less == StepsAhead' < StepsAhead
<1>1. Init => Inv
  BY InitIInv, LaunchedInit DEF Init, Untouched
<1>2. Runs => Inv'
  BY IInvIsInductive, LaunchedStep, UntouchedStep
<1>3. Inv => StepsAhead \in Nat /\ NeverStuck
  <2> SUFFICES ASSUME Inv PROVE StepsAhead \in Nat
    BY IInvGoesOn
  <2> QED BY StepsAreFinite DEF IInv
<1>4. Runs => [Less]_vars
  BY IInvIsInductive, StepIsAhead
<1> QED BY <1>1, <1>2, <1>3, <1>4, PTL DEF Spec, StepsRunOut
=============================================================================
