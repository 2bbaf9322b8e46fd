------------------------------ MODULE MCBulkScan -----------------------------
(***************************************************************************)
(* Small providers for BulkScan: two schemas, a table of the same name in  *)
(* each, a view, rows in the order of the collections and out of it, a     *)
(* composite foreign key, a name that differs by case, an unknown table.   *)
(***************************************************************************)
EXTENDS BulkScan

MCLower == [n \in {"s1", "s2", "t", "u", "T", "x"} |-> IF n = "T" THEN "t" ELSE n]

T1 == <<"s1", "t">>
T2 == <<"s2", "t">>
U2 == <<"s2", "u">>

Collection(t, kind) == [table |-> t, kind |-> kind]
Col(t, n) == [table |-> t, name |-> n]
IndexCol(t, i, n) == [table |-> t, index |-> i, name |-> n]
Key(t, type, n, c) == [table |-> t, type |-> type, name |-> n, column |-> c, ref |-> <<"x", "x">>]
Fk(t, n, c, ref) == [table |-> t, type |-> "FOREIGN KEY", name |-> n, column |-> c, ref |-> ref]

Rows(columns, constraints, indexes, indexColumns) ==
  [columns |-> columns, constraints |-> constraints, indexes |-> indexes,
   indexColumns |-> indexColumns]

Both == <<Collection(T1, "BASE TABLE"), Collection(T2, "BASE TABLE")>>

\* Two tables that refer to each other, a composite foreign key, sorted streams.
Referring == [collections |-> Both,
  rows |-> Rows(<<>>,
                <<Fk(T1, "f", "a", <<"s2", "T">>), Fk(T1, "f", "b", <<"s2", "T">>),
                  Fk(T2, "f", "a", T1)>>,
                <<>>, <<>>)]

\* Indexes of the same name on tables of the same name in two schemas.
Indexed == [collections |-> <<Collection(T1, "VIEW"), Collection(T2, "BASE TABLE")>>,
  rows |-> Rows(<<Col(T2, "a")>>, <<Key(T2, "PRIMARY KEY", "p", "a")>>,
                <<Col(T1, "i"), Col(T2, "i")>>,
                <<IndexCol(T2, "i", "a"), IndexCol(T2, "i", "b")>>)]

\* Rows of a foreign key that are not next to each other, and a second key to one table.
Scattered == [collections |-> Both,
  rows |-> Rows(<<>>,
                <<Fk(T1, "f", "a", T2), Fk(T1, "g", "a", T2), Fk(T1, "f", "b", T2),
                  Key(T1, "UNIQUE", "k", "a"), Key(T1, "UNIQUE", "k", "b"),
                  Key(T2, "PRIMARY KEY", "p", "a")>>,
                <<>>, <<>>)]

\* Columns and indexes out of order, a foreign key to an unknown table.
Unsorted == [collections |-> <<Collection(T1, "BASE TABLE"), Collection(U2, "VIEW")>>,
  rows |-> Rows(<<Col(U2, "a"), Col(T1, "a")>>,
                <<Key(T1, "CHECK", "c", "a"), Fk(T1, "f", "a", T2)>>,
                <<Col(T1, "i"), Col(T1, "j")>>,
                <<IndexCol(T1, "j", "a"), IndexCol(T1, "i", "a")>>)]

\* A collection of a kind the scanner does not know.
Unknown == [collections |-> <<Collection(T1, "BASE TABLE"), Collection(T2, "SYNONYM")>>,
  rows |-> Rows(<<>>, <<>>, <<>>, <<>>)]

MCDatabases == {Referring, Indexed, Scattered, Unsorted, Unknown}
==============================================================================
