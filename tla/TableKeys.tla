------------------------------ MODULE TableKeys ------------------------------
(***************************************************************************)
(* pkg/schemer/scan_constraints.go and sorted.go: how one constraint row   *)
(* becomes part of a table's keys, and how rows find their tables.  Pure   *)
(* operators; the scanners that call them are BulkScan and TableScan.      *)
(*                                                                         *)
(* A table is a tuple <<schema, name>>.  A constraint row is a record      *)
(* [table, type, name, column, ref]; catalogs, and the match, update and   *)
(* delete rules that are copied unread, are left out.                      *)
(***************************************************************************)
EXTENDS Naturals, Sequences, FiniteSets

CONSTANT Lower        \* strings.ToLower on the names that occur, as a function

IsList(s) == s \in Seq({s[i] : i \in DOMAIN s})

EmptyKeys == [pk |-> <<>>, alternate |-> <<>>, foreign |-> <<>>, referencedBy |-> <<>>]

First(S) == CHOOSE x \in S : \A y \in S : x <= y

\* SequentialFind moves a cursor forward to the first match; a key that is not ahead runs
\* the cursor off the end, where it finds nothing ever after.
\* Mutant: only the last component of the key is compared (names without schemas).
SequentialFindByName(list, i, key) ==
  LET hits == {j \in i..Len(list) : list[j][2] = key[2]}
  IN  IF hits = {} THEN Len(list) + 1 ELSE First(hits)

SequentialFind(list, i, key) ==
  LET hits == {j \in i..Len(list) : list[j] = key}
  IN  IF hits = {} THEN Len(list) + 1 ELSE First(hits)

\* A hit returns from inside the loop, before i++.
\* Mutant: the cursor moves past the hit.
PastHit(i) == i + 1

CursorAfterHit(i) == i

LowerKey(t) == <<Lower[t[1]], Lower[t[2]]>>

\* FindTable: a full scan, any order of calls, names compared in lower case; 0 for nil.
FindTable(tables, key) ==
  LET hits == {j \in 1..Len(tables) : LowerKey(tables[j]) = LowerKey(key)}
  IN  IF hits = {} THEN 0 ELSE First(hits)

\* A row continues the last key of the list when that key has its name.
ContinuesLast(list, name) == list # <<>> /\ list[Len(list)].name = name

AddColumn(list, i, column) == [list EXCEPT ![i].columns = Append(@, column)]

\* The entry of `list` for `key`, where `field` names the records' key: its place, or
\* one past the end.
EntryAt(list, field, key) ==
  LET hits == {i \in 1..Len(list) : list[i][field] = key}
  IN  IF hits = {} THEN Len(list) + 1 ELSE First(hits)

\* The referenced table learns that foreign key `name` of `table` has `column`.
\* Mutant: a table that is referenced already is not looked up.
MirrorAlwaysNew(refs, table, name, column) ==
  Append(refs, [table |-> table, foreign |-> <<[name |-> name, columns |-> <<column>>]>>])

Mirror(refs, table, name, column) ==
  LET i == EntryAt(refs, "table", table)
      known == IF i > Len(refs) THEN Append(refs, [table |-> table, foreign |-> <<>>]) ELSE refs
      k == EntryAt(known[i].foreign, "name", name)
      fks == IF k > Len(known[i].foreign)
             THEN Append(known[i].foreign, [name |-> name, columns |-> <<>>])
             ELSE known[i].foreign
  IN  [known EXCEPT ![i].foreign = AddColumn(fks, k, column)]

AddUnique(list, row) ==
  IF ContinuesLast(list, row.name)
  THEN AddColumn(list, Len(list), row.column)
  ELSE Append(list, [name |-> row.name, columns |-> <<row.column>>])

\* processConstraint on the keys of all tables: the table's own lists, and for the first
\* row of a foreign key the referenced table's.  A row of a known foreign key touches
\* only the referring side.  `ok` is FALSE when the referenced table is unknown; the
\* foreign key has been added to its own table by then.
ForeignKeyRow(keys, tables, t, row) ==
  LET own == keys[t].foreign
      ref == FindTable(tables, row.ref)
      added == [keys EXCEPT ![t].foreign =
                  Append(@, [name |-> row.name, columns |-> <<row.column>>, ref |-> row.ref])]
  IN  IF ContinuesLast(own, row.name)
      THEN [ok |-> TRUE, keys |-> [keys EXCEPT ![t].foreign = AddColumn(@, Len(own), row.column)]]
      ELSE IF ref = 0
      THEN [ok |-> FALSE, keys |-> added]
      ELSE [ok |-> TRUE,
            keys |-> [added EXCEPT ![tables[ref]].referencedBy =
                        Mirror(@, row.table, row.name, row.column)]]

ProcessConstraint(keys, tables, t, row) ==
  CASE row.type = "PRIMARY KEY" ->
         [ok |-> TRUE, keys |-> [keys EXCEPT ![t].pk = Append(@, row.column)]]
    [] row.type = "UNIQUE" ->
         [ok |-> TRUE, keys |-> [keys EXCEPT ![t].alternate = AddUnique(@, row)]]
    [] row.type = "FOREIGN KEY" -> ForeignKeyRow(keys, tables, t, row)
    [] OTHER -> [ok |-> TRUE, keys |-> keys]
-----------------------------------------------------------------------------
\* Where `refs` (the ReferencedBy of a table) has foreign key `name` of table t.
MirrorsOf(refs, t, name) ==
  UNION {{<<i, k>> : k \in {x \in DOMAIN refs[i].foreign : refs[i].foreign[x].name = name}} :
           i \in {x \in DOMAIN refs : refs[x].table = t}}

\* The foreign keys of t whose referenced table is r.
ForeignKeysTo(keys, tables, t, r) ==
  {i \in DOMAIN keys[t].foreign :
     LET ref == FindTable(tables, keys[t].foreign[i].ref) IN ref # 0 /\ tables[ref] = r}

\* Each foreign key has one place with its referenced table, its first column stands
\* there, and the referenced table has one entry per referring table and no place for a
\* key that does not exist.
Mirrored(keys, tables) ==
  \A t, r \in DOMAIN keys :
    /\ Cardinality({e \in DOMAIN keys[r].referencedBy : keys[r].referencedBy[e].table = t}) <= 1
    /\ \A i \in ForeignKeysTo(keys, tables, t, r) :
         LET fk == keys[t].foreign[i]
             places == MirrorsOf(keys[r].referencedBy, t, fk.name)
         IN  /\ Cardinality(places) = 1
             /\ \A p \in places : LET columns == keys[r].referencedBy[p[1]].foreign[p[2]].columns
                                  IN  \E c \in DOMAIN columns : columns[c] = fk.columns[1]
    /\ \A e \in DOMAIN keys[r].referencedBy :
         keys[r].referencedBy[e].table = t =>
           \A k \in DOMAIN keys[r].referencedBy[e].foreign :
             \E i \in ForeignKeysTo(keys, tables, t, r) :
               keys[t].foreign[i].name = keys[r].referencedBy[e].foreign[k].name
==============================================================================
