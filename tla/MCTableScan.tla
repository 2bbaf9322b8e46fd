----------------------------- MODULE MCTableScan -----------------------------
(***************************************************************************)
(* Two tables: composite keys in and out of order, two indexes on a table, *)
(* constraints of all types that refer back and forth, an unknown table.   *)
(***************************************************************************)
EXTENDS TableScan

MCLower == [n \in {"s", "t", "T", "u", "x"} |-> IF n = "T" THEN "t" ELSE n]

T == <<"s", "t">>
U == <<"s", "u">>
Both(x, y) == [t \in {T, U} |-> IF t = T THEN x ELSE y]
Col(n, pk) == [name |-> n, pk |-> pk]
Row(t, type, n, c, ref) == [table |-> t, type |-> type, name |-> n, column |-> c, ref |-> ref]

Composite ==
  [tables |-> <<T, U>>,
   columns |-> Both(<<Col("a", 2), Col("b", 0), Col("c", 1)>>, <<Col("a", 1)>>),
   indexes |-> Both(<<"i", "j">>, <<>>),
   indexColumns |-> Both(<<<<"a", "b">>, <<"a">>>>, <<>>),
   constraints |-> Both(
     <<Row(T, "PRIMARY KEY", "p", "b", U), Row(T, "FOREIGN KEY", "f", "a", U),
       Row(T, "FOREIGN KEY", "f", "b", U), Row(T, "FOREIGN KEY", "g", "a", U)>>,
     <<Row(U, "FOREIGN KEY", "f", "a", <<"s", "T">>), Row(U, "UNIQUE", "k", "a", T)>>)]

UnknownReference ==
  [tables |-> <<T, U>>,
   columns |-> Both(<<Col("a", 0)>>, <<Col("b", 3), Col("a", 1)>>),
   indexes |-> Both(<<>>, <<"i">>),
   indexColumns |-> Both(<<>>, <<<<"a">>>>),
   constraints |-> Both(<<Row(T, "CHECK", "c", "a", U)>>,
                        <<Row(U, "FOREIGN KEY", "f", "a", <<"s", "x">>)>>)]

MCDatabases == {Composite, UnknownReference}
==============================================================================
