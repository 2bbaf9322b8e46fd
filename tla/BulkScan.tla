------------------------------ MODULE BulkScan -------------------------------
(***************************************************************************)
(* pkg/schemer/scanner.go: ScanCatalog over a provider that serves columns,*)
(* constraints and indexes of all tables in one stream each.  The scanner  *)
(* reads the collections, then runs three stream workers and one record    *)
(* counter per table under parallel.Run.  The three stream workers assign  *)
(* the same captured variable err and test it afterwards.                  *)
(*                                                                         *)
(* parallel.Run appears as its contract (RunContract, implemented by       *)
(* ParallelRun): it returns when every worker has, with an error when one  *)
(* of them failed.                                                         *)
(***************************************************************************)
EXTENDS ScanState

CONSTANT Databases    \* provider contents: [collections, rows]; rows per stream

Streams == {"columns", "constraints", "indexes", "indexColumns"}
Workers == {"columns", "constraints", "indexes"}

\* What a catalog is: it names a collection once, and an index of a table once.
IndexKey(row) == <<row.table, row.name>>
IsCatalog(d) ==
  /\ IsList(d.collections) /\ \A s \in Streams : IsList(d.rows[s])
  /\ \A i, j \in DOMAIN d.collections : d.collections[i].table = d.collections[j].table => i = j
  /\ \A i, j \in DOMAIN d.rows["indexes"] :
       IndexKey(d.rows["indexes"][i]) = IndexKey(d.rows["indexes"][j]) => i = j
ASSUME DatabasesAssumption == \A d \in Databases : IsCatalog(d)

VARIABLES
  phase,      \* "collections", "workers", "returned"
  read,       \* how many collections the scanner has read
  schemas,    \* per schema of the catalog: its tables and its views
  stream,     \* per stream: state, rows read, the cursor of SequentialFind
  attached,   \* per stream and table: the rows attached to the table
  count,      \* per table: RecordsCount, "none" until known
  err,        \* the error variable of scanTables, captured by the stream workers
  worker      \* per worker: control state

vars == <<db, phase, read, schemas, late, stream, attached, keys, count, err, worker, result>>
catalogVars == <<read, schemas>>
scanVars == <<stream, attached, keys>>

Collections == {db.collections[i].table : i \in 1..Len(db.collections)}
Tables == [i \in 1..read |-> db.collections[i].table]
Counted == {db.collections[i].table : i \in {j \in 1..read : db.collections[j].kind = "BASE TABLE"}}

TypeOK ==
  /\ phase \in {"collections", "workers", "returned"}
  /\ read \in 0..Len(db.collections)
  /\ DOMAIN schemas \subseteq {t[1] : t \in Collections}
  /\ late \in BOOLEAN
  /\ stream \in [Streams -> [state : {"idle", "reading", "end", "provider", "deadline",
                                      "unknown", "no reference"},
                             pos : Nat, cursor : Nat \ {0}]]
  /\ \A s \in Streams : stream[s].pos <= Len(db.rows[s])
  /\ DOMAIN attached = Streams /\ \A s \in Streams : DOMAIN attached[s] = Collections
  /\ DOMAIN keys = Collections
  /\ count \in [Collections -> {"none", "failed", "counted"}]
  /\ err \in {"nil", "failure"}
  /\ worker \in [Workers -> {"idle", "scanning", "assigned", "ok", "err"}]
  /\ result \in {"none", "nil", "failure"}

Init ==
  /\ db \in Databases
  /\ phase = "collections"
  /\ read = 0
  /\ schemas = <<>>
  /\ late = FALSE
  /\ stream = [s \in Streams |-> [state |-> "idle", pos |-> 0, cursor |-> 1]]
  /\ attached = [s \in Streams |-> [t \in Collections |-> <<>>]]
  /\ keys = [t \in Collections |-> EmptyKeys]
  /\ count = [t \in Collections |-> "none"]
  /\ err = "nil"
  /\ worker = [w \in Workers |-> "idle"]
  /\ result = "none"

DeadlinePasses ==
  /\ ~late /\ phase # "returned"
  /\ late' = TRUE
  /\ UNCHANGED <<db, phase, catalogVars, scanVars, count, err, worker, result>>

----------------------------------------------------------------------------
\* The loop over collections.

Fail ==
  /\ phase' = "returned" /\ result' = "failure"
  /\ UNCHANGED <<db, late, scanVars, count, err, worker>>

\* The deadline, or an error of GetCollections or NextCollection.
CollectionsFail ==
  /\ phase = "collections"
  /\ Fail
  /\ UNCHANGED catalogVars

ListedIn(c) ==
  LET s == c.table[1]
      old == IF s \in DOMAIN schemas THEN schemas[s] ELSE [tables |-> <<>>, views |-> <<>>]
      new == CASE c.kind = "BASE TABLE" -> [old EXCEPT !.tables = Append(@, c.table)]
               [] c.kind = "VIEW" -> [old EXCEPT !.views = Append(@, c.table)]
               [] OTHER -> old
  IN  [x \in DOMAIN schemas \cup {s} |-> IF x = s THEN new ELSE schemas[x]]

\* A collection of an unknown kind ends the scan, after its schema has been created.
ReadCollection ==
  /\ phase = "collections" /\ ~late
  /\ read < Len(db.collections)
  /\ read' = read + 1
  /\ schemas' = ListedIn(db.collections[read + 1])
  /\ IF db.collections[read + 1].kind \in {"BASE TABLE", "VIEW"}
     THEN UNCHANGED <<db, phase, late, scanVars, count, err, worker, result>>
     ELSE Fail

StartWorkers ==
  /\ phase = "collections" /\ ~late
  /\ read = Len(db.collections)
  /\ phase' = "workers"
  /\ worker' = [w \in Workers |-> "scanning"]
  /\ stream' = [s \in Streams |-> IF s \in Workers THEN [stream[s] EXCEPT !.state = "reading"]
                                  ELSE stream[s]]
  /\ UNCHANGED <<db, catalogVars, late, attached, keys, count, err, result>>

----------------------------------------------------------------------------
\* One stream: scanColumnsInBulk, scanConstraintsInBulk, scanIndexesInBulk and, when the
\* last has seen the end of its rows, scanIndexColumnsInBulk.

Row(s) == db.rows[s][stream[s].pos + 1]

\* Index columns are looked up among the index rows, the others among the tables.
FindKeys(s) ==
  IF s = "indexColumns"
  THEN [i \in 1..stream["indexes"].pos |-> IndexKey(db.rows["indexes"][i])]
  ELSE Tables

RowKey(s) == IF s = "indexColumns" THEN <<Row(s).table, Row(s).index>> ELSE Row(s).table

\* The table that SequentialFind's hit belongs to.
HitTable(s, i) == IF s = "indexColumns" THEN FindKeys(s)[i][1] ELSE Tables[i]

StopsWith(s, state, i) == [stream EXCEPT ![s].state = state, ![s].cursor = i]

\* Mutant: a loop breaks at the deadline, as it does at the end of the rows.
BreaksWhenLate(s) ==
  /\ stream[s].state = "reading"
  /\ \/ stream' = [stream EXCEPT ![s].state = "provider"]
     \/ /\ late
        /\ stream' = [x \in Streams |->
             CASE x = s -> [stream[s] EXCEPT !.state = "end"]
               [] s = "indexes" /\ x = "indexColumns" -> [stream[x] EXCEPT !.state = "reading"]
               [] OTHER -> stream[x]]
  /\ UNCHANGED <<db, phase, catalogVars, late, attached, keys, count, err, worker, result>>

\* The provider's reader fails, hands out an unusable row, or cannot be opened; or the look at
\* the deadline, before each row, finds it passed.  A look and the reading that follows it are
\* one step: nothing but looks depends on the deadline, so one that passes in between may as
\* well pass after the row.
ReaderFails(s) ==
  /\ stream[s].state = "reading"
  /\ \/ stream' = [stream EXCEPT ![s].state = "provider"]
     \/ late /\ stream' = [stream EXCEPT ![s].state = "deadline"]
  /\ UNCHANGED <<db, phase, catalogVars, late, attached, keys, count, err, worker, result>>

\* io.EOF.  The index worker goes on with the index columns.
EndOfRows(s) ==
  /\ stream[s].state = "reading" /\ ~late
  /\ stream[s].pos = Len(db.rows[s])
  /\ stream' = [x \in Streams |->
       CASE x = s -> [stream[s] EXCEPT !.state = "end"]
         [] s = "indexes" /\ x = "indexColumns" -> [stream[x] EXCEPT !.state = "reading"]
         [] OTHER -> stream[x]]
  /\ UNCHANGED <<db, phase, catalogVars, late, attached, keys, count, err, worker, result>>

ReadRow(s) ==
  LET i == SequentialFind(FindKeys(s), stream[s].cursor, RowKey(s))
      done == IF s = "constraints" /\ i <= Len(FindKeys(s))
              THEN ProcessConstraint(keys, Tables, Tables[i], Row(s))
              ELSE [ok |-> TRUE, keys |-> keys]
  IN
  /\ stream[s].state = "reading" /\ ~late
  /\ stream[s].pos < Len(db.rows[s])
  /\ \/ /\ i > Len(FindKeys(s))
        /\ stream' = StopsWith(s, "unknown", i)
        /\ UNCHANGED <<attached, keys>>
     \/ /\ i <= Len(FindKeys(s)) /\ ~done.ok
        /\ stream' = StopsWith(s, "no reference", i)
        /\ keys' = done.keys
        /\ UNCHANGED attached
     \/ /\ i <= Len(FindKeys(s)) /\ done.ok
        /\ stream' = [stream EXCEPT ![s].pos = @ + 1, ![s].cursor = CursorAfterHit(i)]
        /\ attached' = [attached EXCEPT ![s][HitTable(s, i)] = Append(@, Row(s))]
        /\ keys' = done.keys
  /\ UNCHANGED <<db, phase, catalogVars, late, count, err, worker, result>>

\* A RecordsCount query: its error is logged and goes no further.
CountRecords(t) ==
  /\ phase = "workers" /\ t \in Counted /\ count[t] = "none"
  /\ \E c \in {"counted", "failed"} : count' = [count EXCEPT ![t] = c]
  /\ UNCHANGED <<db, phase, catalogVars, scanVars, late, err, worker, result>>

----------------------------------------------------------------------------
\* The stream workers' results, through the shared err.

\* The streams a worker reads, in order.
StreamsOf(w) == IF w = "indexes" THEN {"indexes", "indexColumns"} ELSE {w}
Broken(s) == stream[s].state \in {"provider", "deadline", "unknown", "no reference"}
ScanFailed(w) == \E s \in StreamsOf(w) : Broken(s)
ScanEnded(w) == ScanFailed(w) \/ \A s \in StreamsOf(w) : stream[s].state = "end"
Outcome(w) == IF ScanFailed(w) THEN "failure" ELSE "nil"

\* if err = s.scanColumnsInBulk(...); the assignment,
AssignErr(w) ==
  /\ worker[w] = "scanning" /\ ScanEnded(w)
  /\ err' = Outcome(w)
  /\ worker' = [worker EXCEPT ![w] = "assigned"]
  /\ UNCHANGED <<db, phase, catalogVars, scanVars, late, count, result>>

\* and the test err != nil.  The three goroutines share err without a lock, so the test
\* may see what the worker has just assigned (the compiler kept it in a register) or
\* what memory holds by now.
TestErr(w) ==
  /\ worker[w] = "assigned"
  /\ \E e \in {Outcome(w), err} :
       worker' = [worker EXCEPT ![w] = IF e = "nil" THEN "ok" ELSE "err"]
  /\ UNCHANGED <<db, phase, catalogVars, scanVars, late, count, err, result>>

RunReturns ==
  /\ phase = "workers"
  /\ \A w \in Workers : worker[w] \in {"ok", "err"}
  /\ \A t \in Counted : count[t] # "none"
  /\ phase' = "returned"
  /\ result' = IF \E w \in Workers : worker[w] = "err" THEN "failure" ELSE "nil"
  /\ err' = result'
  /\ UNCHANGED <<db, catalogVars, scanVars, late, count, worker>>

Returned == phase = "returned" /\ UNCHANGED vars

StreamStep(s) == ReadRow(s) \/ EndOfRows(s) \/ ReaderFails(s)
WorkerStep(w) == AssignErr(w) \/ TestErr(w)
CollectionStep == ReadCollection \/ StartWorkers \/ CollectionsFail

Next ==
  \/ DeadlinePasses
  \/ CollectionStep \/ RunReturns \/ Returned
  \/ \E s \in Streams : StreamStep(s)
  \/ \E w \in Workers : WorkerStep(w)
  \/ \E t \in Collections : CountRecords(t)

\* Every goroutine runs, and the provider answers every call; the deadline need not pass.
Spec ==
  /\ Init /\ [][Next]_vars
  /\ WF_vars(CollectionStep) /\ WF_vars(RunReturns)
  /\ \A s \in Streams : WF_vars(StreamStep(s))
  /\ \A w \in Workers : WF_vars(WorkerStep(w))
  /\ WF_vars(\E t \in Collections : CountRecords(t))
----------------------------------------------------------------------------
RowsOf(s, t) == {i \in 1..stream[s].pos : db.rows[s][i].table = t}
Rank(i, S) == Cardinality({j \in S : j <= i})

\* Every row that a stream has read is attached to the table it names, once, in the
\* order of the stream, however the workers interleave; nothing else is attached.
RowsLandInOrder ==
  \A s \in Streams, t \in Collections :
    /\ Len(attached[s][t]) = Cardinality(RowsOf(s, t))
    /\ \A i \in RowsOf(s, t) : attached[s][t][Rank(i, RowsOf(s, t))] = db.rows[s][i]

\* The place of a row's key among all that the provider lists, 0 when it lists none.
Place(s, r) ==
  LET hits == IF s = "indexColumns"
              THEN {i \in 1..Len(db.rows["indexes"]) :
                      /\ db.rows["indexes"][i].table = r.table
                      /\ db.rows["indexes"][i].name = r.index}
              ELSE {i \in 1..Len(db.collections) : db.collections[i].table = r.table}
  IN  IF hits = {} THEN 0 ELSE First(hits)

InListOrder(s) ==
  \A i \in 1..Len(db.rows[s]) :
    /\ Place(s, db.rows[s][i]) > 0
    /\ i > 1 => Place(s, db.rows[s][i - 1]) <= Place(s, db.rows[s][i])

\* "SequentialFind will work if calls to it are issued in lexical order" (sorted.go):
\* rows in the order of the collections (index columns: of the indexes) are all found,
\* and a stream in any other order never ends well, it is never cut short in silence.
OrderDecidesFind ==
  \A s \in Streams :
    IF InListOrder(s) THEN stream[s].state # "unknown" ELSE stream[s].state # "end"

\* Foreign keys and what the referenced tables know of them agree at every moment, in
\* circles of references, too.
ReferencesMirrored == Mirrored(keys, Tables)

\* A deadline that passes while collections are being read, or while none of the three workers
\* has come to the end of its rows, fails the scan, and soon: no worker goes on to the end of
\* its rows, none takes the deadline for that end, and no error is lost, since all three have
\* one to leave in the shared err.  (With one worker at its end already the error may be lost.)
RowsLeft(w) == \E s \in StreamsOf(w) : stream[s].pos < Len(db.rows[s])
LateScanFails ==
  (late /\ (phase = "workers" => \A w \in Workers : RowsLeft(w)) /\ phase # "returned")
    ~> (result = "failure")

\* scanner_full_test.go:234 wants the error of one stream to be the error of the scan.
FailureIsReported ==
  result = "nil" => \A w \in Workers : ~ScanFailed(w)
==============================================================================
