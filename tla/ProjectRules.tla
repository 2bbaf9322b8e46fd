---------------------------- MODULE ProjectRules -----------------------------
(***************************************************************************)
(* pkg/datatug, continued: the Validate methods of entities, database      *)
(* models with their checks, boards with their widgets, queries,           *)
(* recordsets and of a whole project, over the rules for items, servers    *)
(* and tables of ModelRules.                                               *)
(***************************************************************************)
EXTENDS ModelRules

-----------------------------------------------------------------------------
(* Entities. *)

KnownTypes ==
  {"string", "text", "JSON", "bit", "boolean", "number", "integer", "decimal", "float", "money", "date", "datetime",
   "time", "GUID", "UUID", "binary", "image"}

StringPattern == [kind |-> "StringPattern", type |-> "regexp", value |-> "v"]
ValidatePattern(pattern) ==
  First(<<Must(pattern.type \in {"exact", "regexp"}),
          Must(pattern.type = "regexp" => Compiles(pattern.value)),
          Must(pattern.value # Nothing)>>)
ValidatePatterns(patterns) == EachFollowed(patterns, ValidatePattern)

EntityField == [kind |-> "EntityField", id |-> "f", type |-> "string", namePatterns |-> <<StringPattern>>]
ValidateEntityField(field) ==
  First(<<Must(field.id # Nothing /\ field.type \in KnownTypes), ValidatePatterns(field.namePatterns)>>)
ValidateEntityFields(fields) == EachFollowed(fields, ValidateEntityField)

\* An entity has tags of its own, which hide those of its item from the encoder.
Entity == [kind |-> "Entity", item |-> Item, fields |-> <<EntityField>>, tags |-> <<"e">>]
ValidateEntity(entity) ==
  First(<<ValidateItem(entity.item, FALSE), ValidateEntityFields(entity.fields), ValidateTags(entity.tags)>>)
ValidateEntities(entities) == EachFollowed(entities, ValidateEntity)

FieldRef == [kind |-> "EntityFieldRef", entity |-> "e", field |-> "f"]
ValidateFieldRef(ref) == Must(~IsBlank(ref.entity) /\ ~IsBlank(ref.field))

-----------------------------------------------------------------------------
(* Checks.  data is the raw JSON: NIL if absent, "null", or what it holds. *)

SQLCheck == [kind |-> "SQLCheck", queryText |-> "q"]
RegexpCheck == [kind |-> "RegexpValueCheck", regexp |-> "r"]
OptionsCheck == [kind |-> "OptionsValueCheck", type |-> "string", options |-> <<"string">>]
JSONNull == [kind |-> "null"]

ValidateSQLCheck(check) == Must(check.queryText # Nothing)
ValidateRegexpCheck(check) == Must(check.regexp # Nothing /\ Compiles(check.regexp))
\* Options are named by the Go type they decode to; NIL has none and panics.
ValidateOptionsCheck(check) ==
  First(<<Must(check.type # Nothing /\ check.options # <<>>)>> \o
        [i \in DOMAIN check.options |->
           IF check.options[i] = NIL THEN Panic ELSE Must(check.options[i] = check.type)])

\* null decodes into the interface, not into the check it points to.
ValidateCheckData(type, data) ==
  CASE type \notin {"options", "regexp", "sql"} -> Error
    [] data.kind = "null" -> Panic
    [] type = "options" /\ data.kind = OptionsCheck.kind -> ValidateOptionsCheck(data)
    [] type = "regexp" /\ data.kind = RegexpCheck.kind -> ValidateRegexpCheck(data)
    [] type = "sql" /\ data.kind = SQLCheck.kind -> ValidateSQLCheck(data)
    [] OTHER -> Error

CheckOf(type, data) == [kind |-> "Check", id |-> "x", title |-> "t", type |-> type, data |-> data]
ValidateCheck(check) ==
  First(<<Must(check.id # Nothing /\ check.title # Nothing /\ check.data # NIL /\ check.type # Nothing),
          IF check.data = NIL THEN OK ELSE ValidateCheckData(check.type, check.data)>>)
ValidateChecks(checks) == EachFollowed(checks, ValidateCheck)

-----------------------------------------------------------------------------
(* Models of databases. *)

EnvState == [kind |-> "EnvState", status |-> "exists"]
ValidateEnvState(state) == Must(state.status \in {"exists", "missing"})
ValidateStateByEnv(states) == EachFollowed(states, ValidateEnvState)

ColumnModel == [kind |-> "ColumnModel", column |-> ColumnInfo, byEnv |-> <<EnvState>>,
                checks |-> <<CheckOf("regexp", RegexpCheck)>>]
\* Mutant: the checks of a column are left to those of its table.
ColumnModelUnchecked(model) == First(<<ValidateColumnInfo(model.column), ValidateStateByEnv(model.byEnv)>>)
ValidateColumnModel(model) ==
  First(<<ValidateColumnInfo(model.column), ValidateStateByEnv(model.byEnv), ValidateChecks(model.checks)>>)
ValidateColumnModels(models) == EachFollowed(models, ValidateColumnModel)

TableModel == [kind |-> "TableModel", columnModels |-> <<ColumnModel>>, byEnv |-> <<EnvState>>,
               checks |-> <<CheckOf("sql", SQLCheck), CheckOf("options", OptionsCheck)>>]
ValidateTableModel(model) ==
  First(<<ValidateColumnModels(model.columnModels), ValidateStateByEnv(model.byEnv), ValidateChecks(model.checks)>>)

SchemaModel == [kind |-> "Schema", item |-> Item, tableModels |-> <<TableModel>>, viewModels |-> <<TableModel>>]
ValidateSchemaModel(schema) ==
  First(<<ValidateItem(schema.item, FALSE),
          EachFollowed(schema.tableModels, ValidateTableModel),
          EachFollowed(schema.viewModels, ValidateTableModel)>>)

ModelCatalog == [kind |-> "DbModelDbCatalog", id |-> "c"]
ValidateModelCatalog(catalog) == Must(catalog.id # Nothing)
ValidateModelCatalogs(catalogs) == EachFollowed(catalogs, ValidateModelCatalog)

\* The error of the catalogs is taken for none, a panic is not.
ModelEnv == [kind |-> "DbModelEnv", id |-> "e", modelCatalogs |-> <<ModelCatalog>>]
ValidateModelEnv(env) ==
  First(<<Must(env.id # Nothing),
          IF ValidateModelCatalogs(env.modelCatalogs) = Panic THEN Panic ELSE OK>>)
ValidateModelEnvs(environments) == EachFollowed(environments, ValidateModelEnv)

\* The environments of a model are part of it and not looked at ...
DbModel == [kind |-> "DbModel", item |-> Item, schemas |-> <<SchemaModel>>, modelEnvs |-> <<ModelEnv>>]
ValidateDbModel(model) ==
  First(<<ValidateItem(model.item, FALSE), EachFollowed(model.schemas, ValidateSchemaModel)>>)
ValidateDbModels(models) == EachFollowed(models, ValidateDbModel)

\* ... but in the file that keeps them.
DbModelFile == [kind |-> "DbModelFile", item |-> Item, modelEnvs |-> <<ModelEnv>>]
ValidateDbModelFile(file) == First(<<ValidateItem(file.item, FALSE), ValidateModelEnvs(file.modelEnvs)>>)

-----------------------------------------------------------------------------
(* Parameters.  A default is named by its Go type: JSON knows no int. *)

ParameterOf(type, default) ==
  [kind |-> "ParameterDef", id |-> "p", type |-> type, default |-> default, meta |-> FieldRef]
DefaultFits(type, default) ==
  CASE type = "string" -> default = "string"
    [] type = "number" -> default = "float64"
    [] type = "boolean" -> default = "bool"
    [] type \in {"integer", "bit"} -> default = "int"
    [] OTHER -> TRUE
ValidateParameter(parameter) ==
  Must(/\ parameter.id # Nothing
       /\ parameter.type # Nothing
       /\ parameter.default # NIL => DefaultFits(parameter.type, parameter.default))
ValidateParameters(parameters) == Each(parameters, ValidateParameter)

-----------------------------------------------------------------------------
(* Boards. *)

WidgetBase == [kind |-> "WidgetBase", title |-> "t", parameters |-> <<ParameterOf("number", "float64")>>]
ValidateWidgetBase(base, isTitleRequired) ==
  First(<<ValidateStringField(base.title, isTitleRequired), ValidateParameters(base.parameters)>>)

SQLWidget == [kind |-> "SQLWidgetDef", base |-> WidgetBase, queryText |-> "q"]
ValidateSQLWidget(widget) ==
  First(<<ValidateWidgetBase(widget.base, FALSE), Must(widget.queryText # Nothing)>>)

Header == [kind |-> "HTTPHeaderItem", name |-> "n", value |-> "v"]
ValidateHeader(header) == Must(header.name # Nothing /\ header.value # Nothing)
ValidateHeaders(headers) == Each(headers, ValidateHeader)

BodilessMethods == {"GET", "HEAD", "OPTIONS"}
Methods == BodilessMethods \cup {"POST", "PUT", "DELETE", "CONNECT", "TRACE", "PATCH"}
Request == [kind |-> "HTTPRequest", url |-> "u", timeout |-> 0, method |-> "GET", content |-> Nothing,
            headers |-> <<Header>>, parameters |-> <<ParameterOf("string", "string")>>]
ValidateRequest(request) ==
  First(<<Must(request.url # Nothing /\ request.timeout >= 0),
          Must(request.method \in Methods),
          Must(request.method \in BodilessMethods => request.content = Nothing),
          ValidateHeaders(request.headers)>>)

HTTPWidget == [kind |-> "HTTPWidgetDef", base |-> WidgetBase, request |-> Request]
ValidateHTTPWidget(widget) ==
  First(<<ValidateWidgetBase(widget.base, FALSE), ValidateRequest(widget.request)>>)

WidgetOf(name, def) == [kind |-> "BoardWidget", name |-> name, def |-> def]
Tab == [kind |-> "TabWidget", title |-> "t", widget |-> WidgetOf("HTTP", HTTPWidget)]
TabsWidget == [kind |-> "TabsWidgetDef", base |-> WidgetBase, tabs |-> <<Tab>>]
ValidateTabsWidget(widget) == ValidateWidgetBase(widget.base, FALSE)

\* Whatever Data holds is decoded into the type the name asks for.
ValidateWidget(widget) ==
  CASE widget.name = "SQL" -> ValidateSQLWidget(widget.def)
    [] widget.name = "HTTP" -> ValidateHTTPWidget(widget.def)
    [] widget.name = "tabs" -> ValidateTabsWidget(widget.def)
    [] OTHER -> Error

\* The pointer to the widget is followed, though the field may be left out.
CardOf(widget) == [kind |-> "BoardCard", id |-> "c", cols |-> 0, widget |-> widget]
ValidateCard(card) ==
  First(<<Must(card.id # Nothing /\ card.cols >= 0), Follow(card.widget, ValidateWidget)>>)
ValidateCards(cards) == Each(cards, ValidateCard)

Row == [kind |-> "BoardRow", cards |-> <<CardOf(WidgetOf("SQL", SQLWidget)), CardOf(WidgetOf("HTTP", HTTPWidget)),
                                         CardOf(WidgetOf("tabs", TabsWidget))>>]
ValidateRow(row) == ValidateCards(row.cards)
ValidateRows(rows) == Each(rows, ValidateRow)

Board == [kind |-> "Board", item |-> TitledItem, rows |-> <<Row>>]
ValidateBoard(board) == First(<<ValidateItem(board.item, TRUE), ValidateRows(board.rows)>>)
ValidateBoards(boards) == EachFollowed(boards, ValidateBoard)

-----------------------------------------------------------------------------
(* Recordsets. *)

ColumnDef == [kind |-> "RecordsetColumnDef", name |-> "c", type |-> "string", meta |-> FieldRef, hideIf |-> <<"p">>]
ValidateHideIf(parameters) == Must(\A i \in DOMAIN parameters : parameters[i] # Nothing)
ValidateColumnDef(column) ==
  First(<<Must(~IsBlank(column.name) /\ ~IsBlank(column.type)),
          IfAny(column.meta, ValidateFieldRef),
          ValidateHideIf(column.hideIf)>>)
ValidateColumnDefs(columns) == Each(columns, ValidateColumnDef)

ToLower(name) == IF name = "A" THEN "a" ELSE name
\* As it is asked: case sensitive, yet a column's lower case will do.
HasColumn(columns, name) == \E i \in DOMAIN columns : name \in {columns[i].name, ToLower(columns[i].name)}

\* The i-th name is compared with the first i-1 columns, not with the first
\* i-1 names, up to the first that is equal or beyond the last column.
ColumnsDifferUpTo(columns, name, last) ==
  First([j \in 1..last |-> IF j > Len(columns) THEN Panic ELSE Must(columns[j].name # name)])
\* Mutant: it is compared with one more.
CompareWithColumnsThrough(columns, names, i) == ColumnsDifferUpTo(columns, names[i], i)
CompareWithColumns(columns, names, i) == ColumnsDifferUpTo(columns, names[i], i - 1)
ValidateKeyColumnNames(columns, names) ==
  First([i \in DOMAIN names |->
           IF HasColumn(columns, names[i]) THEN CompareWithColumns(columns, names, i) ELSE Error])

\* Of a recordset's keys nothing is asked but the names of their columns.
RecordsetKey == [UniqueKey EXCEPT !.kind = "RecordsetKey"]
Recordset == [kind |-> "RecordsetDefinition", item |-> TitledItem, type |-> "json", jsonSchema |-> "{}",
              columnDefs |-> <<ColumnDef>>, primaryKey |-> RecordsetKey, alternateKeys |-> <<RecordsetKey>>,
              foreignKeys |-> <<ForeignKey>>]
ValidateRecordset(recordset) ==
  LET NamesColumns(key) == ValidateKeyColumnNames(recordset.columnDefs, key.names)
  IN  First(<<ValidateItem(recordset.item, TRUE),
              Must(recordset.type \in {"recordset", "json"}),
              Must(recordset.type = "json" => recordset.jsonSchema \notin {Nothing, Misspelt}),
              ValidateColumnDefs(recordset.columnDefs),
              IfAny(recordset.primaryKey, NamesColumns),
              Each(recordset.alternateKeys, NamesColumns)>>)

-----------------------------------------------------------------------------
(* Queries. *)

Target == [kind |-> "QueryDefTarget", catalog |-> Nothing]
Query == [kind |-> "QueryDef", item |-> TitledItem, type |-> "HTTP", text |-> Nothing, targets |-> <<Target>>,
          parameters |-> <<ParameterOf("integer", NIL), ParameterOf("boolean", "bool")>>, recordsets |-> <<Recordset>>]
\* An integer has a default as long as it has not been read from a file.
CountingQuery == [Query EXCEPT !.parameters[1].default = "int"]
ValidateQuery(query) ==
  First(<<ValidateItem(query.item, TRUE),
          Must(query.type \in {"folder", "HTTP", "SQL", "GraphQL"}),
          Must(query.type = "folder" => query.text = Nothing),
          Must(query.type = "HTTP" => \A i \in DOMAIN query.targets : query.targets[i].catalog = Nothing),
          ValidateParameters(query.parameters)>>)
ValidateQueries(queries) == EachFollowed(queries, ValidateQuery)

QueryInFolder == [kind |-> "QueryDefWithFolderPath", folderPath |-> "f", query |-> Query]
ValidateQueryInFolder(query) == First(<<Must(query.folderPath # Nothing), ValidateQuery(query.query)>>)

FolderOf(folders, items) == [kind |-> "QueriesFolder", item |-> Item, folders |-> folders, items |-> items]

-----------------------------------------------------------------------------
(* Folders, actions and projects. *)

\* numberOf is a map; the method takes the counts of zero out of it.
Folder == [kind |-> "Folder", name |-> "f", numberOf |-> <<0, 1>>]
ValidateFolder(folder) ==
  Must(~IsBlank(folder.name) /\ Trimmed(folder.name) /\ \A i \in DOMAIN folder.numberOf : folder.numberOf[i] >= 0)
WithoutZeros(folder) ==
  LET counted == {i \in DOMAIN folder.numberOf : folder.numberOf[i] # 0}
  IN  [folder EXCEPT !.numberOf = [i \in counted |-> folder.numberOf[i]]]

ActionOf(next) == [kind |-> "Action", item |-> Item, type |-> "sql", next |-> next]
ValidateAction(action) == First(<<Must(action.type \in {"sql", "http"}), ValidateItem(action.item, FALSE)>>)
ValidateActions(actions) == EachFollowed(actions, ValidateAction)

Repository == [kind |-> "ProjectRepository", type |-> "git"]
ValidateRepository(repository) == IF repository = NIL THEN OK ELSE Must(repository.type # Nothing)

ProjectFile == [kind |-> "ProjectFile", created |-> "at", access |-> "private", repository |-> Repository]
ValidateProjectFile(file) ==
  First(<<Must(file.created \notin {NIL, Nothing}), Must(file.access \in AccessLevels)>>)

\* The access of the project's own hides that of its item.
ProjectBrief == [kind |-> "ProjectBrief", item |-> TitledItem, access |-> "public", repository |-> Repository]
ValidateProjectBrief(brief) ==
  First(<<ValidateItem(brief.item, TRUE), Must(brief.access \in AccessLevels), ValidateRepository(brief.repository)>>)

StoreBrief == [kind |-> "StoreBrief", type |-> "agent", projects |-> <<ProjectBrief>>]
StoreTypes == {"firestore", "github.com", "agent"}
ValidateStore(store) == First(<<Must(store.type \in StoreTypes), Each(store.projects, ValidateProjectBrief)>>)
User == [kind |-> "UserDatatugInfo", stores |-> <<StoreBrief>>]
ValidateUser(user) == Each(user.stores, ValidateStore)

Project ==
  [kind |-> "Project", item |-> Item, access |-> "private",
   environments |-> <<Environment>>, entities |-> <<Entity>>, dbModels |-> <<DbModel>>, boards |-> <<Board>>,
   dbDrivers |-> <<Driver>>, actions |-> <<ActionOf(<<ActionOf(<<>>)>>)>>,
   queries |-> FolderOf(<<FolderOf(<<>>, <<>>)>>, <<Query>>), repository |-> Repository]
ValidateProject(project) ==
  First(<<Must(project.access \in AccessLevels),
          Must(project.item.title # TooLong),
          ValidateEnvironments(project.environments),
          ValidateEntities(project.entities),
          ValidateDbModels(project.dbModels),
          ValidateBoards(project.boards),
          ValidateProjDbDrivers(project.dbDrivers),
          ValidateActions(project.actions)>>)
=============================================================================
