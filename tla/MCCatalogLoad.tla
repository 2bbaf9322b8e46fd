---------------------------- MODULE MCCatalogLoad ----------------------------
(***************************************************************************)
(* Trees to load: one schema with two tables and a view, for the appends;  *)
(* two schemas beside a plain file; two catalogs of one table each, for    *)
(* the climb of errors; three catalogs, for the shared err.                *)
(***************************************************************************)
EXTENDS CatalogLoad, TLC

Tree(schemasOf, files, tablesOf) ==
  LET cs == DOMAIN schemasOf
      ss == UNION {ToSet(schemasOf[c]) : c \in cs}
  IN  [catalogs |-> cs, schemas |-> schemasOf, files |-> [c \in cs |-> files],
       tables |-> [f \in ss \X {"tables", "views"} |->
                     IF f \in DOMAIN tablesOf THEN tablesOf[f] ELSE {}]]

WideSchema == Tree("c1" :> <<"s1">>, 0,
                   <<"s1", "tables">> :> {"t1", "t2", "t3"} @@ <<"s1", "views">> :> {"v1"})
TwoSchemas == Tree("c1" :> <<"s1", "s2">>, 1,
                   <<"s1", "tables">> :> {"t1"} @@ <<"s2", "views">> :> {"v1"})
TwoCatalogs == Tree("c1" :> <<"s1">> @@ "c2" :> <<"s2">>, 0,
                    <<"s1", "tables">> :> {"t1"} @@ <<"s2", "views">> :> {"v1"})
ThreeCatalogs == Tree("c1" :> <<>> @@ "c2" :> <<>> @@ "c3" :> <<>>, 0, <<>>)

MCDisks == {WideSchema, TwoSchemas, TwoCatalogs, ThreeCatalogs}
==============================================================================
