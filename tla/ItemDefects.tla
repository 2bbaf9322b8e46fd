----------------------------- MODULE ItemDefects -----------------------------
(***************************************************************************)
(* The items that are given to ItemLife: every item with one defect more   *)
(* than another, a field the rules of its type refuse or a nil pointer,    *)
(* at any depth.  A defect names the types it occurs in, the field, and    *)
(* what the field then holds.                                              *)
(***************************************************************************)
EXTENDS ProjectRules
LOCAL INSTANCE SequencesExt

Items == {"ProjectItem", "TitledItem"}
Briefs == {"ProjItemBrief", "TitledBrief"}
Titled == {"TitledItem", "TitledBrief"}
Keys == {"UniqueKey", "RecordsetKey"}
Projects == {"Project", "ProjectFile", "ProjectBrief"}

Defects == <<
  <<Items \cup Briefs, "id", Nothing>>,
  <<Items \cup Briefs, "title", TooLong>>,
  <<Titled, "title", Blank>>,
  <<Items \cup Briefs \cup {"Entity"}, "tags", <<"g", "g">>>>,
  <<Items \cup Briefs \cup {"Entity"}, "tags", <<Nothing>>>>,
  <<Items \cup Briefs, "folder", <<"f">>>>,
  <<Items \cup Briefs, "folder", <<"~", Untrimmed>>>>,
  <<Items, "userIds", <<Blank>>>>,
  <<Items, "userIds", <<"u", "u">>>>,
  <<Items \cup Projects, "access", "secret">>,
  <<{"ServerRef"}, "driver", Misspelt>>,
  <<{"ServerRef"}, "host", Nothing>>,
  <<{"ServerRef"}, "port", -1>>,
  <<{"EnvDbServer", "ProjDbServerFile"}, "catalogIds", <<Blank>>>>,
  <<{"EnvDbServer"}, "catalogIds", <<"c", "c">>>>,
  <<{"ProjDbServer"}, "key", <<"mysql", "h", 1>>>>,
  <<Keys \cup {"ForeignKey"}, "name", Nothing>>,
  <<{"UniqueKey", "ForeignKey"}, "names", <<>>>>,
  <<{"UniqueKey"}, "names", <<Nothing>>>>,
  <<{"RecordsetKey"}, "names", <<"other">>>>,
  <<{"CollectionInfo"}, "dbType", Misspelt>>,
  <<{"CharacterSet", "Collation", "ColumnInfo", "RecordsetColumnDef", "HTTPHeaderItem"}, "name", Nothing>>,
  <<{"ColumnInfo"}, "ordinalPosition", -1>>,
  <<{"ColumnInfo"}, "charMaxLength", -2>>,
  <<{"ColumnInfo"}, "charOctetLength", -2>>,
  <<{"DbCatalog"}, "driver", Nothing>>,
  <<{"DbCatalog"}, "driver", "sqlite3">>,
  <<{"StringPattern"}, "type", Misspelt>>,
  <<{"StringPattern"}, "value", BadRegexp>>,
  <<{"EntityField", "Check", "ParameterDef", "BoardCard", "DbModelEnv", "DbModelDbCatalog"}, "id", Nothing>>,
  <<{"EntityField", "Check", "RecordsetDefinition", "QueryDef", "Action", "StoreBrief"}, "type", Misspelt>>,
  <<{"RecordsetColumnDef", "QueryDefBrief"}, "type", Blank>>,
  <<{"EntityFieldRef"}, "entity", Blank>>,
  <<{"EntityFieldRef"}, "field", Nothing>>,
  <<{"SQLCheck", "SQLWidgetDef"}, "queryText", Nothing>>,
  <<{"RegexpValueCheck"}, "regexp", BadRegexp>>,
  <<{"OptionsValueCheck"}, "options", <<"float64">>>>,
  <<{"OptionsValueCheck"}, "options", <<>>>>,
  <<{"Check"}, "title", Nothing>>,
  <<{"Check"}, "data", NIL>>,
  <<{"EnvState"}, "status", Misspelt>>,
  <<{"ParameterDef"}, "default", "slice">>,
  <<{"WidgetBase"}, "title", TooLong>>,
  <<{"HTTPRequest"}, "url", Nothing>>,
  <<{"HTTPRequest"}, "timeout", -1>>,
  <<{"HTTPRequest"}, "method", Misspelt>>,
  <<{"HTTPRequest"}, "content", "text">>,
  <<{"BoardWidget"}, "name", Misspelt>>,
  <<{"BoardCard"}, "cols", -1>>,
  <<{"RecordsetColumnDef"}, "hideIf", <<Nothing>>>>,
  <<{"RecordsetDefinition"}, "jsonSchema", Misspelt>>,
  <<{"QueryDefTarget"}, "catalog", "c">>,
  <<{"QueryDefWithFolderPath"}, "folderPath", Nothing>>,
  <<{"Folder"}, "name", Blank>>,
  <<{"Folder"}, "name", Untrimmed>>,
  <<{"Folder"}, "numberOf", <<-1, 0>>>>,
  <<{"ProjectFile"}, "created", NIL>>,
  <<{"ProjectRepository"}, "type", Nothing>> >>

\* Fields that hold values, lists of values, pointers and lists of pointers.
ValueFields == {"item", "brief", "server", "def", "data", "base", "request", "column", "query"}
ValueLists == {"rows", "cards", "parameters", "headers", "targets", "tabs", "columnDefs", "alternateKeys",
               "recordsets", "projects", "stores"}
PointerFields == {"primaryKey", "characterSet", "collation", "meta", "repository", "widget", "data", "queries"}
PointerLists == {"environments", "dbServers", "entities", "fields", "namePatterns", "dbModels", "schemas",
                 "tableModels", "viewModels", "columnModels", "byEnv", "modelEnvs", "modelCatalogs", "checks",
                 "boards", "dbDrivers", "servers", "catalogs", "dbSchemas", "tables", "views", "uniqueKeys",
                 "columns", "foreignKeys", "indexes", "actions", "next", "folders", "items"}
\* The options of a check are interfaces.
NilLists == PointerLists \cup {"options"}
NilAt(field) == IF field = "data" THEN JSONNull ELSE NIL

FlawIn(value, how, field) == [how |-> how, kind |-> value.kind, field |-> field, via |-> {}]
Through(value, field, deeper) == [deeper EXCEPT !.via = @ \cup {<<value.kind, field>>}]

\* Make(x) for each x of a list, one after the other.
Joined(list, Make(_)) == FoldLeft(LAMBDA made, x : made \o Make(x), <<>>, list)

\* Every value with one defect more than value, with the defect.
RECURSIVE Variants(_)
Variants(value) ==
  LET Fields(set) == SetToSeq(DOMAIN value \cap set)
      With(field, part) == [value EXCEPT ![field] = part]
      At(field, i, part) == [value EXCEPT ![field][i] = part]
      Here(defect) ==
        IF value.kind \in defect[1] /\ defect[2] \in DOMAIN value
        THEN <<<<With(defect[2], defect[3]), FlawIn(value, "value", defect[2])>>>> ELSE <<>>
      Inside(part, field, Put(_)) ==
        IF part = NIL THEN <<>>
        ELSE Joined(Variants(part), LAMBDA deeper : <<<<Put(deeper[1]), Through(value, field, deeper[2])>>>>)
      Nil(spoilt, field) == <<<<spoilt, FlawIn(value, "nil", field)>>>>
      InField(field) == Inside(value[field], field, LAMBDA part : With(field, part))
      InList(field) ==
        Joined([i \in DOMAIN value[field] |-> i],
               LAMBDA i : Inside(value[field][i], field, LAMBDA part : At(field, i, part)))
      NilElements(field) == Joined([i \in DOMAIN value[field] |-> i], LAMBDA i : Nil(At(field, i, NIL), field))
  IN  Joined(Defects, Here)
      \o Joined(Fields(ValueFields \cup PointerFields), InField)
      \o Joined(Fields(ValueLists \cup PointerLists), InList)
      \o Joined(Fields(NilLists), NilElements)
      \o Joined(Fields(PointerFields), LAMBDA field : Nil(With(field, NilAt(field)), field))
=============================================================================
