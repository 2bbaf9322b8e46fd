----------------------------- MODULE ModelRules -----------------------------
(***************************************************************************)
(* pkg/datatug: the Validate methods of the model types, one operator per  *)
(* method.  Each yields what a call of the method comes to: no error, an   *)
(* error, or a panic (a nil pointer that is followed, an index beyond the  *)
(* end of a slice).  A method returns at its first error, so what it does  *)
(* is the first outcome of its steps that is not nil.                      *)
(*                                                                         *)
(* A string is an atom; the few that matter have names.  Embedded structs  *)
(* are fields of their own, maps are sequences.  With each type stands a   *)
(* sound value of it, whose lists hold an element each.                    *)
(***************************************************************************)
EXTENDS Naturals, Integers, Sequences, FiniteSets, FiniteSetsExt

CONSTANT NIL    \* a nil pointer or interface

Nothing == ""
Blank == " "
Untrimmed == " x"
TooLong == "longer than the limit"
Misspelt == "misspelt"
BadRegexp == "("

OK == "nil"
Error == "error"
Panic == "panic"
Must(condition) == IF condition THEN OK ELSE Error

\* The first outcome that is not nil.
First(outcomes) ==
  LET stops == {i \in DOMAIN outcomes : outcomes[i] # OK}
  IN  IF stops = {} THEN OK ELSE outcomes[Min(stops)]

\* Slices of values, and slices of pointers whose element is followed unseen.
Each(list, Validate(_)) == First([i \in DOMAIN list |-> Validate(list[i])])
Follow(pointer, Validate(_)) == IF pointer = NIL THEN Panic ELSE Validate(pointer)
EachFollowed(list, Validate(_)) == First([i \in DOMAIN list |-> Follow(list[i], Validate)])
IfAny(pointer, Validate(_)) == IF pointer = NIL THEN OK ELSE Validate(pointer)

NoneRepeats(list) == \A i, j \in DOMAIN list : list[i] = list[j] => i = j
Trimmed(text) == text # Untrimmed
IsBlank(text) == text \in {Nothing, Blank}
Compiles(regexp) == regexp # BadRegexp

-----------------------------------------------------------------------------
(* Project items. *)

ValidateStringField(text, isRequired) ==
  Must(~(isRequired /\ IsBlank(text)) /\ text # TooLong)

ValidateTags(tags) ==
  Must((\A i \in DOMAIN tags : tags[i] \notin {Nothing, TooLong}) /\ NoneRepeats(tags))

\* A folder path is the sequence of its segments; "user:" names no user.
ValidateFolderPath(path) ==
  Must(/\ path # <<>>
       /\ path[1] \in {"~", "user:u"}
       /\ \A i \in DOMAIN path \ {1} : ~IsBlank(path[i]) /\ Trimmed(path[i]) /\ path[i] # "~")

Brief == [kind |-> "ProjItemBrief", id |-> "x", title |-> "t", folder |-> <<"~", "f">>, tags |-> <<"g">>]
ValidateBrief(brief, isTitleRequired) ==
  First(<<Must(brief.id # Nothing),
          ValidateStringField(brief.title, isTitleRequired),
          ValidateTags(brief.tags),
          IF brief.folder = <<>> THEN OK ELSE ValidateFolderPath(brief.folder)>>)

AccessLevels == {"private", "protected", "public"}
Item == [kind |-> "ProjectItem", id |-> "x", title |-> "t", folder |-> <<"user:u", "f">>,
         tags |-> <<"g">>, userIds |-> <<"u">>, access |-> Nothing]
TitledItem == [Item EXCEPT !.kind = "TitledItem"]
ValidateUserID(userID) == Must(~IsBlank(userID))
ValidateItem(item, isTitleRequired) ==
  First(<<ValidateBrief(item, isTitleRequired),
          Must(item.access \in AccessLevels \cup {Nothing}),
          Each(item.userIds, ValidateUserID),
          Must(NoneRepeats(item.userIds))>>)

-----------------------------------------------------------------------------
(* Database servers. *)

Drivers == {"sqlite3", "sqlserver", "mysql", "oracle"}
Server == [kind |-> "ServerRef", driver |-> "sqlserver", host |-> "h", port |-> 1, path |-> Nothing]
\* A database file has a path and no host, and fails at the last but one step.
SqliteServer == [Server EXCEPT !.driver = "sqlite3", !.host = Nothing, !.port = 0, !.path = "p"]
ValidateServerRef(server) ==
  First(<<Must(server.driver \in Drivers),
          Must(server.driver = "sqlite3" => server.host = Nothing /\ server.port = 0),
          Must(server.host # Nothing),
          Must(server.port >= 0)>>)

EnvDbServer == [kind |-> "EnvDbServer", server |-> Server, catalogIds |-> <<"c">>]
ValidateEnvDbServer(server) ==
  First(<<ValidateServerRef(server.server),
          Must(\A i \in DOMAIN server.catalogIds : ~IsBlank(server.catalogIds[i])),
          Must(NoneRepeats(server.catalogIds))>>)
ValidateEnvDbServers(servers) == EachFollowed(servers, ValidateEnvDbServer)

Environment == [kind |-> "Environment", item |-> Item, dbServers |-> <<EnvDbServer>>]
ValidateEnvironment(env) ==
  First(<<ValidateItem(env.item, FALSE), ValidateEnvDbServers(env.dbServers)>>)
ValidateEnvironments(environments) == EachFollowed(environments, ValidateEnvironment)

EnvDb == [kind |-> "EnvDb", item |-> Item, server |-> Server]
ValidateEnvDb(db) == First(<<ValidateItem(db.item, FALSE), ValidateServerRef(db.server)>>)

ServerFile == [kind |-> "ProjDbServerFile", server |-> Server, catalogIds |-> <<"c">>]
ValidateServerFile(file) ==
  First(<<ValidateServerRef(file.server),
          Must(\A i \in DOMAIN file.catalogIds : ~IsBlank(file.catalogIds[i]))>>)

-----------------------------------------------------------------------------
(* Tables, their keys and columns. *)

UniqueKey == [kind |-> "UniqueKey", name |-> "k", names |-> <<"c">>]
ValidateUniqueKey(key) ==
  Must(key.name # Nothing /\ key.names # <<>> /\ \A i \in DOMAIN key.names : key.names[i] # Nothing)
ValidateUniqueKeyPointer(key) == IfAny(key, ValidateUniqueKey)

ForeignKey == [kind |-> "ForeignKey", name |-> "f", names |-> <<"c">>]
ValidateForeignKey(key) == Must(key.name # Nothing /\ key.names # <<>>)
ValidateForeignKeys(keys) == EachFollowed(keys, ValidateForeignKey)

Index == [kind |-> "Index", name |-> "i", type |-> "b", names |-> <<"c">>]

ValidateTableProps(table) ==
  First(<<Must(table.dbType \in {"BASE TABLE", "VIEW"}), Each(table.uniqueKeys, ValidateUniqueKeyPointer)>>)

CharacterSet == [kind |-> "CharacterSet", name |-> "s"]
Collation == [kind |-> "Collation", name |-> "o"]
ValidateCharacterSet(set) == Must(set.name # Nothing)
ValidateCollation(collation) == Must(collation.name # Nothing)

ColumnInfo == [kind |-> "ColumnInfo", name |-> "c", ordinalPosition |-> 0, dateTimePrecision |-> 0,
               charMaxLength |-> -1, charOctetLength |-> -1, characterSet |-> CharacterSet, collation |-> Collation]
ValidateColumnProps(column) ==
  First(<<Must(column.name # Nothing /\ column.ordinalPosition >= 0 /\ column.dateTimePrecision >= 0),
          Must(column.charMaxLength >= -1 /\ column.charOctetLength >= -1),
          IfAny(column.characterSet, ValidateCharacterSet),
          IfAny(column.collation, ValidateCollation)>>)
ValidateColumnInfo(column) == ValidateColumnProps(column)
ValidateTableColumns(columns) == EachFollowed(columns, ValidateColumnInfo)

Table == [kind |-> "CollectionInfo", dbType |-> "BASE TABLE", uniqueKeys |-> <<UniqueKey>>, primaryKey |-> UniqueKey,
          columns |-> <<ColumnInfo>>, foreignKeys |-> <<ForeignKey>>, indexes |-> <<Index>>]
ValidateTable(table) ==
  First(<<ValidateTableProps(table),
          ValidateUniqueKeyPointer(table.primaryKey),
          ValidateTableColumns(table.columns),
          ValidateForeignKeys(table.foreignKeys)>>)

DbSchema == [kind |-> "DbSchema", item |-> Item, tables |-> <<Table>>, views |-> <<Table>>]
ValidateDbSchema(schema) ==
  First(<<ValidateItem(schema.item, FALSE),
          EachFollowed(schema.tables, ValidateTable),
          EachFollowed(schema.views, ValidateTable)>>)
ValidateDbSchemas(schemas) == EachFollowed(schemas, ValidateDbSchema)

Catalog == [kind |-> "DbCatalog", item |-> Item, driver |-> "sqlserver", path |-> Nothing, dbSchemas |-> <<DbSchema>>]
ValidateCatalogBase(catalog) ==
  First(<<ValidateItem(catalog.item, FALSE),
          Must(catalog.driver # Nothing),
          Must(catalog.driver = "sqlite3" => catalog.path # Nothing)>>)
ValidateCatalog(catalog) ==
  First(<<ValidateCatalogBase(catalog), ValidateDbSchemas(catalog.dbSchemas)>>)
ValidateCatalogs(catalogs) == EachFollowed(catalogs, ValidateCatalog)

\* GetID of the reference, as an atom that tells two references apart.
ServerID(server) == IF server.port = 0 THEN <<server.driver, server.host>>
                    ELSE <<server.driver, server.host, server.port>>
ProjDbServer == [kind |-> "ProjDbServer", item |-> [Item EXCEPT !.id = "h"], key |-> ServerID(Server),
                 server |-> Server, catalogs |-> <<Catalog>>]
\* key is the ID of the item, kept beside it as GetID builds it.
ValidateProjDbServer(server) ==
  First(<<Must(ServerID(server.server) = server.key),
          ValidateItem(server.item, FALSE),
          ValidateServerRef(server.server),
          ValidateCatalogs(server.catalogs)>>)
\* The only list whose elements are looked at before they are followed.
\* Mutant: the list of servers follows its pointers like the others.
FollowProjDbServers(servers) == EachFollowed(servers, ValidateProjDbServer)
ValidateProjDbServers(servers) ==
  Each(servers, LAMBDA server : IF server = NIL THEN Error ELSE ValidateProjDbServer(server))

\* ProjItemBrief.Validate is the method of the tags it embeds: no ID is asked for.
Driver == [kind |-> "ProjDbDriver", item |-> Item, servers |-> <<ProjDbServer>>]
ValidateProjDbDriver(driver) ==
  First(<<ValidateTags(driver.item.tags), ValidateProjDbServers(driver.servers)>>)
ValidateProjDbDrivers(drivers) == EachFollowed(drivers, ValidateProjDbDriver)
=============================================================================
