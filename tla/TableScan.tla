------------------------------ MODULE TableScan ------------------------------
(***************************************************************************)
(* pkg/schemer/scan_by_table.go and the end of scanTables (scanner.go):    *)
(* ScanCatalog over a provider that is asked table by table.  One worker   *)
(* per table runs two workers of its own, columns and indexes, and the     *)
(* index worker runs one more per index; then the constraints of one table *)
(* after the other are read by the scanner's own goroutine.  Every closure *)
(* has an err of its own.                                                  *)
(*                                                                         *)
(* The collections have been read (BulkScan models that loop, and the      *)
(* record counters whose errors go nowhere).  parallel.Run appears as its  *)
(* contract, RunContract.                                                  *)
(***************************************************************************)
EXTENDS ScanState, Functions

CONSTANT TableDatabases   \* provider contents, per table: columns, indexes, their columns, rows

\* Column names and, in a key, positions are taken once.
IsTable(columnsOf) ==
  /\ IsList(columnsOf) /\ \A i \in DOMAIN columnsOf : columnsOf[i].pk \in Nat
  /\ \A i, j \in DOMAIN columnsOf : i # j =>
       /\ columnsOf[i].name # columnsOf[j].name
       /\ columnsOf[i].pk = columnsOf[j].pk => columnsOf[i].pk = 0

\* What the provider has to say comes in lists, each of which has an end; asked for the
\* constraints of a table, it gives rows of that table.
IsTableCatalog(d) ==
  /\ IsList(d.tables)
  /\ \A k \in DOMAIN d.tables : LET t == d.tables[k] IN
       /\ IsTable(d.columns[t]) /\ IsList(d.indexes[t]) /\ IsList(d.constraints[t])
       /\ \A i \in DOMAIN d.indexes[t] : IsList(d.indexColumns[t][i])
       /\ \A i \in DOMAIN d.constraints[t] : d.constraints[t][i].table = t
ASSUME TableDatabasesAssumption == \A d \in TableDatabases : IsTableCatalog(d)

VARIABLES
  columns,      \* per table: state of scanTableCols and the columns it has read
  indexes,      \* per table: state of scanTableIndexes and the indexes it has read
  indexColumns, \* per table and index: state of scanIndexColumns, columns read
  at            \* the constraints loop: place of its table, rows read; 0 before it

tableScanVars == <<db, late, columns, indexes, indexColumns, keys, at, result>>

ListedTables == db.tables
AllTables == {ListedTables[i] : i \in 1..Len(ListedTables)}
IndexesOf(t) == 1..Len(db.indexes[t])
Over == {"end", "failed"}

TableScanTypeOK ==
  /\ late \in BOOLEAN
  /\ columns \in [AllTables -> [state : {"reading"} \cup Over, read : Nat]]
  /\ indexes \in [AllTables -> [state : {"reading", "columns"} \cup Over, read : Nat]]
  /\ \A t \in AllTables :
       /\ columns[t].read <= Len(db.columns[t])
       /\ indexes[t].read <= Len(db.indexes[t])
       /\ indexColumns[t] \in [IndexesOf(t) -> [state : {"idle", "reading"} \cup Over, read : Nat]]
       /\ \A i \in IndexesOf(t) : indexColumns[t][i].read <= Len(db.indexColumns[t][i])
  /\ DOMAIN keys = AllTables
  /\ at \in [table : 0..Len(ListedTables) + 1, row : Nat]
  /\ result \in {"none", "nil", "failure"}

TableScanInit ==
  /\ db \in TableDatabases
  /\ late = FALSE
  /\ columns = [t \in AllTables |-> [state |-> "reading", read |-> 0]]
  /\ indexes = [t \in AllTables |-> [state |-> "reading", read |-> 0]]
  /\ indexColumns = [t \in AllTables |-> [i \in IndexesOf(t) |-> [state |-> "idle", read |-> 0]]]
  /\ keys = [t \in AllTables |-> EmptyKeys]
  /\ at = [table |-> 0, row |-> 0]
  /\ result = "none"

TimeRunsOut ==
  /\ ~late /\ result = "none"
  /\ late' = TRUE
  /\ UNCHANGED <<db, columns, indexes, indexColumns, keys, at, result>>

\* How a loop over a reader may end: io.EOF after the last of n rows, while the deadline
\* has not passed; an error of the provider at any row; the deadline.
LoopEnds(read, n, state) ==
  \/ state = "end" /\ ~late /\ read = n
  \/ state = "failed"

----------------------------------------------------------------------------
\* scanTableCols

ReadColumn(t) ==
  /\ columns[t].state = "reading" /\ ~late
  /\ columns[t].read < Len(db.columns[t])
  /\ columns' = [columns EXCEPT ![t].read = @ + 1]
  /\ UNCHANGED <<db, late, indexes, indexColumns, keys, at, result>>

KeyColumns(t) == {c \in 1..columns[t].read : db.columns[t][c].pk > 0}
Orders(t) == Bijection(1..Cardinality(KeyColumns(t)), KeyColumns(t))

\* Mutant: the key's columns stay in the order of the table's.
TableOrders(t) == {order \in Orders(t) : \A i, j \in DOMAIN order : i < j => order[i] < order[j]}

\* How sort.Sort may arrange the key's columns.
KeyOrders(t) ==
  {order \in Orders(t) :
     \A i, j \in DOMAIN order : i < j => db.columns[t][order[i]].pk <= db.columns[t][order[j]].pk}

\* The deferred function builds the primary key however the loop has ended.
ColumnsEnd(t) ==
  /\ columns[t].state = "reading"
  /\ \E state \in Over :
       /\ LoopEnds(columns[t].read, Len(db.columns[t]), state)
       /\ columns' = [columns EXCEPT ![t].state = state]
  /\ IF KeyColumns(t) = {} THEN UNCHANGED keys
     ELSE \E order \in KeyOrders(t) :
            keys' = [keys EXCEPT ![t].pk = [i \in DOMAIN order |-> db.columns[t][order[i]].name]]
  /\ UNCHANGED <<db, late, indexes, indexColumns, at, result>>

----------------------------------------------------------------------------
\* scanTableIndexes and its workers, scanIndexColumns

ReadIndex(t) ==
  /\ indexes[t].state = "reading" /\ ~late
  /\ indexes[t].read < Len(db.indexes[t])
  /\ indexes' = [indexes EXCEPT ![t].read = @ + 1]
  /\ UNCHANGED <<db, late, columns, indexColumns, keys, at, result>>

\* At the end of the indexes the workers start; after an error none does.
IndexesRead(t) ==
  /\ indexes[t].state = "reading"
  /\ \E state \in Over :
       /\ LoopEnds(indexes[t].read, Len(db.indexes[t]), state)
       /\ indexes' = [indexes EXCEPT ![t].state = IF state = "end" THEN "columns" ELSE state]
       /\ indexColumns' = IF state = "failed" THEN indexColumns
                          ELSE [indexColumns EXCEPT ![t] =
                                  [i \in DOMAIN @ |-> [@[i] EXCEPT !.state = "reading"]]]
  /\ UNCHANGED <<db, late, columns, keys, at, result>>

ReadIndexColumn(t, i) ==
  /\ indexColumns[t][i].state = "reading" /\ ~late
  /\ indexColumns[t][i].read < Len(db.indexColumns[t][i])
  /\ indexColumns' = [indexColumns EXCEPT ![t][i].read = @ + 1]
  /\ UNCHANGED <<db, late, columns, indexes, keys, at, result>>

IndexColumnsEnd(t, i) ==
  /\ indexColumns[t][i].state = "reading"
  /\ \E state \in Over :
       /\ LoopEnds(indexColumns[t][i].read, Len(db.indexColumns[t][i]), state)
       /\ indexColumns' = [indexColumns EXCEPT ![t][i].state = state]
  /\ UNCHANGED <<db, late, columns, indexes, keys, at, result>>

\* Mutant: the error of the inner parallel.Run is dropped.
NestedErrorDropped(t) == "end"

NestedOutcome(t) ==
  IF \E i \in IndexesOf(t) : indexColumns[t][i].state = "failed" THEN "failed" ELSE "end"

\* Mutant: the inner run waits for its workers to succeed.
NestedRunWaits(t) ==
  /\ indexes[t].state = "columns"
  /\ \A i \in IndexesOf(t) : indexColumns[t][i].state = "end"
  /\ indexes' = [indexes EXCEPT ![t].state = NestedOutcome(t)]
  /\ UNCHANGED <<db, late, columns, indexColumns, keys, at, result>>

\* The inner parallel.Run returns.
NestedRunReturns(t) ==
  /\ indexes[t].state = "columns"
  /\ \A i \in IndexesOf(t) : indexColumns[t][i].state \in Over
  /\ indexes' = [indexes EXCEPT ![t].state = NestedOutcome(t)]
  /\ UNCHANGED <<db, late, columns, indexColumns, keys, at, result>>

----------------------------------------------------------------------------
\* The outer parallel.Run, then scanTableConstraints for each table.

PropsFailed(t) == columns[t].state = "failed" \/ indexes[t].state = "failed"

OuterRunReturns ==
  /\ at.table = 0 /\ result = "none"
  /\ \A t \in AllTables : columns[t].state \in Over /\ indexes[t].state \in Over
  /\ IF \E t \in AllTables : PropsFailed(t)
     THEN result' = "failure" /\ UNCHANGED at
     ELSE at' = [table |-> 1, row |-> 0] /\ UNCHANGED result
  /\ UNCHANGED <<db, late, columns, indexes, indexColumns, keys>>

InConstraints == at.table \in 1..Len(ListedTables) /\ result = "none"
Rows == db.constraints[ListedTables[at.table]]

\* The deadline is not looked at any more.
ReadConstraint ==
  /\ InConstraints /\ at.row < Len(Rows)
  /\ LET done == ProcessConstraint(keys, ListedTables, ListedTables[at.table], Rows[at.row + 1])
     IN  /\ keys' = done.keys
         /\ IF done.ok THEN at' = [at EXCEPT !.row = @ + 1] /\ UNCHANGED result
                       ELSE result' = "failure" /\ UNCHANGED at
  /\ UNCHANGED <<db, late, columns, indexes, indexColumns>>

ConstraintsFail ==
  /\ InConstraints
  /\ result' = "failure"
  /\ UNCHANGED <<db, late, columns, indexes, indexColumns, keys, at>>

NextTable ==
  /\ InConstraints /\ at.row = Len(Rows)
  /\ at' = [table |-> at.table + 1, row |-> 0]
  /\ UNCHANGED <<db, late, columns, indexes, indexColumns, keys, result>>

Succeed ==
  /\ at.table = Len(ListedTables) + 1 /\ result = "none"
  /\ result' = "nil"
  /\ UNCHANGED <<db, late, columns, indexes, indexColumns, keys, at>>

ScanReturned == result # "none" /\ UNCHANGED tableScanVars

ColumnsStep(t) == ReadColumn(t) \/ ColumnsEnd(t)
IndexesStep(t) == ReadIndex(t) \/ IndexesRead(t) \/ NestedRunReturns(t)
IndexColumnsStep(t, i) == ReadIndexColumn(t, i) \/ IndexColumnsEnd(t, i)
ScannerStep == OuterRunReturns \/ ReadConstraint \/ NextTable \/ ConstraintsFail \/ Succeed

TableScanNext ==
  \/ TimeRunsOut \/ ScannerStep \/ ScanReturned
  \/ \E t \in AllTables :
       \/ ColumnsStep(t) \/ IndexesStep(t)
       \/ \E i \in IndexesOf(t) : IndexColumnsStep(t, i)

\* Every goroutine runs and the provider answers every call.
TableScanSpec ==
  /\ TableScanInit /\ [][TableScanNext]_tableScanVars
  /\ WF_tableScanVars(ScannerStep)
  /\ WF_tableScanVars(\E t \in AllTables : ColumnsStep(t))
  /\ WF_tableScanVars(\E t \in AllTables : IndexesStep(t))
  /\ WF_tableScanVars(\E t \in AllTables : \E i \in IndexesOf(t) : IndexColumnsStep(t, i))
----------------------------------------------------------------------------
FullyRead(t) ==
  /\ columns[t] = [state |-> "end", read |-> Len(db.columns[t])]
  /\ indexes[t] = [state |-> "end", read |-> Len(db.indexes[t])]
  /\ \A i \in IndexesOf(t) :
       indexColumns[t][i] = [state |-> "end", read |-> Len(db.indexColumns[t][i])]

\* A scan that returns no error has read every row of every table, three levels of
\* workers down; after a failure anywhere no constraint is looked at.
NoErrorNoGap ==
  (result = "nil" \/ at.table > 0) => \A t \in AllTables : FullyRead(t)

Position(t, name) == (CHOOSE c \in {db.columns[t][i] : i \in DOMAIN db.columns[t]} : c.name = name).pk

\* The primary key of a table begins with its key columns by position, and what the
\* constraint rows of the table add to it follows.
PrimaryKeyOrdered ==
  \A t \in AllTables : columns[t].state \in Over =>
    LET own == {c \in 1..columns[t].read : db.columns[t][c].pk > 0}
        pk == keys[t].pk
    IN  /\ Len(pk) >= Cardinality(own)
        /\ {pk[i] : i \in 1..Cardinality(own)} = {db.columns[t][c].name : c \in own}
        /\ \A i, j \in 1..Cardinality(own) :
             i < j => Position(t, pk[i]) < Position(t, pk[j])

\* The scan comes to its end, whatever fails and whenever.
TableScanEnds == <>(result # "none")
==============================================================================
