------------------------------ MODULE Pointers -------------------------------
(***************************************************************************)
(* pkg/datatug: what the Validate methods of ModelRules and ProjectRules   *)
(* go through without looking first.  Shape(value, safe) says that value   *)
(* has the lists of its type, and, if safe, that validation has nothing to *)
(* fall over in it: no pointer that is followed is nil, no check's data    *)
(* null, and no key has more names than validation can compare.            *)
(***************************************************************************)
EXTENDS ProjectRules

IsList(list) == DOMAIN list \subseteq Nat
IsSlice(list) == Len(list) \in Nat /\ DOMAIN list = 1..Len(list)

PointerTo(value, Shape(_, _), safe) == IF value = NIL THEN ~safe ELSE Shape(value, safe)
PointersTo(list, Shape(_, _), safe) == IsList(list) /\ \A i \in DOMAIN list : PointerTo(list[i], Shape, safe)
ListOf(list, Shape(_, _), safe) == IsList(list) /\ \A i \in DOMAIN list : Shape(list[i], safe)

\* Of a type whose rules follow nothing.
AnyShape(value, safe) == TRUE

ItemShape(item) == IsList(item.userIds)
WithItem(value, safe) == ItemShape(value.item)

EnvironmentShape(env, safe) == ItemShape(env.item) /\ PointersTo(env.dbServers, AnyShape, safe)

FieldShape(field, safe) == PointersTo(field.namePatterns, AnyShape, safe)
EntityShape(entity, safe) == ItemShape(entity.item) /\ PointersTo(entity.fields, FieldShape, safe)

TableShape(table, safe) ==
  /\ IsList(table.uniqueKeys)
  /\ PointersTo(table.columns, AnyShape, safe) /\ PointersTo(table.foreignKeys, AnyShape, safe)
DbSchemaShape(schema, safe) ==
  ItemShape(schema.item) /\ PointersTo(schema.tables, TableShape, safe) /\ PointersTo(schema.views, TableShape, safe)
CatalogShape(catalog, safe) == ItemShape(catalog.item) /\ PointersTo(catalog.dbSchemas, DbSchemaShape, safe)
ProjDbServerShape(server, safe) == ItemShape(server.item) /\ PointersTo(server.catalogs, CatalogShape, safe)
\* A nil server is looked for.
DriverShape(driver, safe) ==
  /\ IsList(driver.servers)
  /\ \A i \in DOMAIN driver.servers : driver.servers[i] = NIL \/ ProjDbServerShape(driver.servers[i], safe)

OptionsShape(check, safe) == IsSlice(check.options) /\ (safe => \A i \in DOMAIN check.options : check.options[i] # NIL)
CheckShape(check, safe) ==
  check.data # NIL => /\ safe => check.data.kind # "null"
                      /\ check.data.kind = OptionsCheck.kind => OptionsShape(check.data, safe)
ColumnModelShape(model, safe) ==
  PointersTo(model.byEnv, AnyShape, safe) /\ PointersTo(model.checks, CheckShape, safe)
TableModelShape(model, safe) ==
  /\ PointersTo(model.columnModels, ColumnModelShape, safe)
  /\ PointersTo(model.byEnv, AnyShape, safe) /\ PointersTo(model.checks, CheckShape, safe)
SchemaModelShape(schema, safe) ==
  /\ ItemShape(schema.item)
  /\ PointersTo(schema.tableModels, TableModelShape, safe) /\ PointersTo(schema.viewModels, TableModelShape, safe)
DbModelShape(model, safe) == ItemShape(model.item) /\ PointersTo(model.schemas, SchemaModelShape, safe)
ModelEnvShape(env, safe) == PointersTo(env.modelCatalogs, AnyShape, safe)
DbModelFileShape(file, safe) == ItemShape(file.item) /\ PointersTo(file.modelEnvs, ModelEnvShape, safe)

WidgetShape(widget, safe) ==
  /\ widget.name \in {"SQL", "HTTP", "tabs"} => IsList(widget.def.base.parameters)
  /\ widget.name = "HTTP" => IsList(widget.def.request.headers)
CardShape(card, safe) == PointerTo(card.widget, WidgetShape, safe)
RowShape(row, safe) == ListOf(row.cards, CardShape, safe)
BoardShape(board, safe) == ItemShape(board.item) /\ ListOf(board.rows, RowShape, safe)

KeyShape(columns, key, safe) == IsSlice(key.names) /\ (safe => Len(key.names) <= Len(columns) + 1)
RecordsetShape(recordset, safe) ==
  LET columns == recordset.columnDefs
  IN  /\ ItemShape(recordset.item) /\ IsSlice(columns)
      /\ recordset.primaryKey = NIL \/ KeyShape(columns, recordset.primaryKey, safe)
      /\ IsList(recordset.alternateKeys)
      /\ \A i \in DOMAIN recordset.alternateKeys : KeyShape(columns, recordset.alternateKeys[i], safe)

QueryShape(query, safe) == ItemShape(query.item) /\ IsList(query.parameters)
QueryInFolderShape(query, safe) == QueryShape(query.query, safe)

StoreShape(store, safe) == ListOf(store.projects, WithItem, safe)
UserShape(user, safe) == ListOf(user.stores, StoreShape, safe)

ProjectShape(project, safe) ==
  /\ PointersTo(project.environments, EnvironmentShape, safe)
  /\ PointersTo(project.entities, EntityShape, safe)
  /\ PointersTo(project.dbModels, DbModelShape, safe)
  /\ PointersTo(project.boards, BoardShape, safe)
  /\ PointersTo(project.dbDrivers, DriverShape, safe)
  /\ PointersTo(project.actions, WithItem, safe)
=============================================================================
