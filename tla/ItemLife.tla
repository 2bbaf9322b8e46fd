------------------------------ MODULE ItemLife ------------------------------
(***************************************************************************)
(* A model item on its way through the store: it is made, validated, saved *)
(* as JSON, loaded without validation, and saved again.  saveJSONFile      *)
(* (storage/filestore/saver_filesystem.go) validates what it is given, and *)
(* readFile (utils.go) does not: what an item is held to is up to the      *)
(* rules of ProjectRules and to what JSON makes of its fields.  Pointers   *)
(* says what these rules go through.                                       *)
(*                                                                         *)
(* Items are given as Inputs (ItemDefects makes them: sound, or with one   *)
(* defect anywhere), or are recordsets with any columns and key of at most *)
(* MaxNames names.  The rules of folders in folders call themselves and    *)
(* are a parameter, ValidateTree, which FolderRules gives.                 *)
(***************************************************************************)
EXTENDS Pointers

CONSTANTS MaxNames,             \* columns of a recordset, and names in its key
          Inputs,               \* items that are made: their types, and what is wrong with them
          ValidateTree(_, _)    \* what the rules of a tree of folders come to

VARIABLES root,     \* the name of the item's type
          item,     \* the item in memory
          flaw,     \* what is wrong with it, and where
          file,     \* the item as the store keeps it
          step,     \* "made", "checked", "saved", "loaded", "saved again"
          verdict   \* what the last validation has come to

itemVars == <<root, item, flaw, file, step, verdict>>

-----------------------------------------------------------------------------
(* The types of items and their rules. *)

StoredRoots == {"Environment", "Entity", "Board", "Query", "CountingQuery", "QueryInFolder", "ProjectFile", "Folder"}
\* Types two of whose rules contradict each other: no item of them passes.
RefusedRoots == {"SqliteServer", "StructuredQuery"}
Roots == StoredRoots \cup RefusedRoots \cup
  {"Project", "Driver", "DbModelFile", "EnvDb", "ServerFile", "QueriesFolder", "FolderBrief", "User", "Recordset"}

RulesOf(name, value) ==
  CASE name = "Environment" -> ValidateEnvironment(value)
    [] name = "Entity" -> ValidateEntity(value)
    [] name = "Board" -> ValidateBoard(value)
    [] name \in {"Query", "CountingQuery", "StructuredQuery"} -> ValidateQuery(value)
    [] name = "QueryInFolder" -> ValidateQueryInFolder(value)
    [] name = "ProjectFile" -> ValidateProjectFile(value)
    [] name = "Folder" -> ValidateFolder(value)
    [] name \in {"ServerFile", "SqliteServer"} -> ValidateServerFile(value)
    [] name = "Project" -> ValidateProject(value)
    [] name = "Driver" -> ValidateProjDbDriver(value)
    [] name = "DbModelFile" -> ValidateDbModelFile(value)
    [] name = "EnvDb" -> ValidateEnvDb(value)
    [] name \in {"QueriesFolder", "FolderBrief"} -> ValidateTree(name, value)
    [] name = "User" -> ValidateUser(value)
    [] name = "Recordset" -> ValidateRecordset(value)

\* What validation goes through, and can fall over, in the items whose rules are known here.
FolderTrees == {"QueriesFolder", "FolderBrief"}
Shaped(name, value, safe) ==
  CASE name = "Environment" -> EnvironmentShape(value, safe)
    [] name = "Entity" -> EntityShape(value, safe)
    [] name = "Board" -> BoardShape(value, safe)
    [] name \in {"Query", "CountingQuery", "StructuredQuery"} -> QueryShape(value, safe)
    [] name = "QueryInFolder" -> QueryInFolderShape(value, safe)
    [] name = "Project" -> ProjectShape(value, safe)
    [] name = "Driver" -> DriverShape(value, safe)
    [] name = "DbModelFile" -> DbModelFileShape(value, safe)
    [] name = "EnvDb" -> WithItem(value, safe)
    [] name = "User" -> UserShape(value, safe)
    [] name = "Recordset" -> RecordsetShape(value, safe)
    [] OTHER -> TRUE

-----------------------------------------------------------------------------
(* What JSON makes of an item. *)

\* JSON has one type of numbers, and an entity hides the tags of its item.  What a widget of a
\* board holds is any JSON: validation makes a widget of it, and no int comes back there either.
AfterDecoding(parameter) ==
  IF parameter.default = "int" THEN [parameter EXCEPT !.default = "float64"] ELSE parameter
ParametersDecoded(list) == [i \in DOMAIN list |-> AfterDecoding(list[i])]
WidgetDecoded(widget) == [widget EXCEPT !.def.base.parameters = ParametersDecoded(@)]
CardDecoded(card) == IF card.widget = NIL THEN card ELSE [card EXCEPT !.widget = WidgetDecoded(@)]
RowDecoded(row) == [row EXCEPT !.cards = [i \in DOMAIN row.cards |-> CardDecoded(row.cards[i])]]
BoardDecoded(board) == [board EXCEPT !.rows = [i \in DOMAIN board.rows |-> RowDecoded(board.rows[i])]]
Decoded(name, value) ==
  CASE name \in {"Query", "CountingQuery"} -> [value EXCEPT !.parameters = ParametersDecoded(@)]
    [] name = "QueryInFolder" -> [value EXCEPT !.query.parameters = ParametersDecoded(@)]
    [] name = "Board" -> BoardDecoded(value)
    [] name = "Entity" -> [value EXCEPT !.item.tags = <<>>]
    [] OTHER -> value

\* Items are values of their types, as far as validation goes through them and decoding
\* changes them.
IsParameter(value) == DOMAIN value = DOMAIN ParameterOf("string", NIL)
AreParameters(list) == IsList(list) /\ \A i \in DOMAIN list : IsParameter(list[i])
IsQuery(value) == DOMAIN value = DOMAIN Query /\ AreParameters(value.parameters)
DefFields(name) ==
  DOMAIN (CASE name = "SQL" -> SQLWidget [] name = "HTTP" -> HTTPWidget [] name = "tabs" -> TabsWidget)
IsWidget(value) ==
  /\ DOMAIN value = DOMAIN WidgetOf("SQL", NIL)
  /\ value.name \in {"SQL", "HTTP", "tabs"} =>
       /\ DOMAIN value.def = DefFields(value.name) /\ DOMAIN value.def.base = DOMAIN WidgetBase
       /\ AreParameters(value.def.base.parameters)
\* A widget is no nil pointer, nor is it one when it is decoded.
IsCard(value) ==
  /\ DOMAIN value = DOMAIN CardOf(NIL)
  /\ value.widget = NIL \/ (IsWidget(value.widget) /\ WidgetDecoded(value.widget) # NIL)
IsRow(value) ==
  DOMAIN value = DOMAIN Row /\ IsList(value.cards) /\ \A i \in DOMAIN value.cards : IsCard(value.cards[i])
IsBoard(value) ==
  DOMAIN value = DOMAIN Board /\ IsList(value.rows) /\ \A i \in DOMAIN value.rows : IsRow(value.rows[i])
IsOfType(name, value) ==
  /\ name \in {"Query", "CountingQuery"} => IsQuery(value)
  /\ name = "Board" => IsBoard(value)
  /\ name = "QueryInFolder" => DOMAIN value = DOMAIN QueryInFolder /\ IsQuery(value.query)
  /\ name = "Entity" => DOMAIN value = DOMAIN Entity /\ DOMAIN value.item = DOMAIN Item
  /\ name = "Folder" => DOMAIN value = DOMAIN Folder
  /\ Shaped(name, value, FALSE)

ASSUME NamesAssumption == MaxNames \in Nat
ASSUME NILAssumption == NIL \notin {"int", "float64"}     \* the default of a parameter has a type or is nil
ASSUME InputsAssumption ==
  \A made \in Inputs : made.root \in Roots /\ IsOfType(made.root, made.item) /\ made.flaw.how # "key"

-----------------------------------------------------------------------------
(* The life of an item. *)

NoFlaw == [how |-> "none", kind |-> "", field |-> "", via |-> {}]

Names == {"A", "a", "b"}
NameLists == UNION {[1..n -> Names] : n \in 0..MaxNames}
RecordsetOf(names, key) ==
  [Recordset EXCEPT !.columnDefs = [i \in DOMAIN names |-> [ColumnDef EXCEPT !.name = names[i]]],
                    !.primaryKey.names = key, !.alternateKeys = <<>>]

ItemInit ==
  /\ file = NIL /\ step = "made" /\ verdict = OK
  /\ \/ \E made \in Inputs : root = made.root /\ item = made.item /\ flaw = made.flaw
     \/ \E names, key \in NameLists :
          root = "Recordset" /\ item = RecordsetOf(names, key) /\ flaw = [NoFlaw EXCEPT !.how = "key"]

\* Validate is called on its own.
Check ==
  /\ step = "made" /\ root \notin StoredRoots
  /\ verdict' = RulesOf(root, item) /\ step' = "checked"
  /\ UNCHANGED <<root, item, flaw, file>>

\* Validation of a folder changes it: all zeros are gone once it has passed;
\* of those before an error, only the ones the map happens to yield first.
AfterValidation(name, value, outcome) ==
  IF name # "Folder" THEN {value}
  ELSE IF outcome = OK THEN {WithoutZeros(value)} ELSE {value, WithoutZeros(value)}

\* Mutant: the file is written before what goes into it is validated.
WriteFirst(outcome, next) ==
  /\ verdict' = outcome
  /\ step' = IF outcome = OK THEN next ELSE "checked"
  /\ item' \in AfterValidation(root, item, outcome)
  /\ file' = item
  /\ UNCHANGED <<root, flaw>>
\* saveJSONFile writes what passes, and nothing else.
SaveJSONFile(outcome, next) ==
  /\ verdict' = outcome
  /\ step' = IF outcome = OK THEN next ELSE "checked"
  /\ item' \in AfterValidation(root, item, outcome)
  /\ file' = IF outcome = OK THEN item' ELSE file
  /\ UNCHANGED <<root, flaw>>
Save == step = "made" /\ root \in StoredRoots /\ SaveJSONFile(RulesOf(root, item), "saved")
SaveAgain == step = "loaded" /\ SaveJSONFile(RulesOf(root, item), "saved again")

\* readJSONFile decodes into a new item and returns it as it is.
Load ==
  /\ step = "saved"
  /\ item' = Decoded(root, file) /\ step' = "loaded"
  /\ UNCHANGED <<root, flaw, file, verdict>>

ItemNext == Check \/ Save \/ Load \/ SaveAgain
ItemSpec == ItemInit /\ [][ItemNext]_itemVars

-----------------------------------------------------------------------------
(* Properties. *)

Validated == step # "made"
\* What the first validation came to: there is a file if it was passed.
FirstVerdict == IF file = NIL THEN verdict ELSE OK

\* Parts of an item its rules never look at: queries, repository and item of
\* a project (but its title and ID), the environments of a model and their
\* catalogs, tabs of a tabbed widget, parameters of a request, and so on.
Unread ==
  {<<"Project", "queries">>, <<"Project", "repository">>, <<"DbModel", "modelEnvs">>,
   <<"TabsWidgetDef", "tabs">>, <<"HTTPRequest", "parameters">>, <<"Action", "next">>,
   <<"CollectionInfo", "indexes">>, <<"RecordsetDefinition", "foreignKeys">>, <<"QueryDef", "recordsets">>,
   <<"ParameterDef", "meta">>, <<"RecordsetKey", "name">>, <<"ProjectFile", "repository">>}
Places == flaw.via \cup {<<flaw.kind, flaw.field>>}
Overlooked ==
  \/ Places \cap Unread # {}
  \/ <<"DbModelEnv", "modelCatalogs">> \in Places /\ flaw.how = "value"
  \/ <<"Project", "item">> \in Places /\ flaw.field # "title"
  \/ <<"ProjDbDriver", "item">> \in Places /\ flaw.field # "tags"

NilAllowed ==
  {<<"ColumnInfo", "characterSet">>, <<"ColumnInfo", "collation">>, <<"CollectionInfo", "primaryKey">>,
   <<"CollectionInfo", "uniqueKeys">>, <<"RecordsetColumnDef", "meta">>, <<"RecordsetDefinition", "primaryKey">>,
   <<"ProjectBrief", "repository">>}
NilRefused == {<<"ProjDbDriver", "servers">>}

(* What a defect comes to does not depend on where it sits: but for the    *)
(* parts in Unread, every type hands each part to the part's own rules.    *)
(* Validation panics at nil elements of the lists, at a card without       *)
(* widget and at a check whose data is null; servers in a driver are the   *)
(* one list that reports a nil element.                                    *)
NoDefectSlipsThrough ==
  (Validated /\ flaw.how # "key" /\ root \notin RefusedRoots)
    => LET allowed == <<flaw.kind, flaw.field>> \in NilAllowed
           refused == <<flaw.kind, flaw.field>> \in NilRefused
       IN  /\ FirstVerdict = OK <=> flaw.how = "none" \/ Overlooked \/ (flaw.how = "nil" /\ allowed)
           /\ FirstVerdict = Panic <=> flaw.how = "nil" /\ ~Overlooked /\ ~allowed /\ ~refused

(* The panic of a recordset key takes at least two names more than there   *)
(* are columns.                                                            *)
OnlyLongKeysPanic == (flaw.how = "key" /\ verdict = Panic) => Len(item.primaryKey.names) > Len(item.columnDefs) + 1

(* However many defects an item has, validation panics only if it has a    *)
(* nil pointer that is followed, null for the data of a check or a key     *)
(* with too many names, and accepts no item that has one: the next         *)
(* validation of what is stored does not panic either.  The file of a      *)
(* model's environments is the exception: a nil catalog behind another     *)
(* that is refused is not seen, as the refusal is dropped.                 *)
PanicsAreNilOrLongKeys ==
  /\ (Validated /\ root \notin FolderTrees) =>
       /\ verdict = Panic => ~Shaped(root, item, TRUE)
       /\ verdict = OK /\ root # "DbModelFile" => Shaped(root, item, TRUE)
  /\ OnlyLongKeysPanic

\* The parameters that are validated, and the integers with a default among them: in a file
\* that is a number like any other.
Elements(list) == {list[i] : i \in DOMAIN list}
CardsOf(board) == UNION {Elements(row.cards) : row \in Elements(board.rows)}
WidgetsOf(board) == {card.widget : card \in CardsOf(board)} \ {NIL}
ParametersOf(name, value) ==
  CASE name \in {"Query", "CountingQuery"} -> Elements(value.parameters)
    [] name = "QueryInFolder" -> Elements(value.query.parameters)
    [] name = "Board" -> UNION {Elements(widget.def.base.parameters) : widget \in WidgetsOf(value)}
    [] OTHER -> {}
IsInteger(parameter) == parameter.type \in {"integer", "bit"} /\ parameter.default = "int"
HoldsInteger(name, value) == \E parameter \in ParametersOf(name, value) : IsInteger(parameter)
OnlyIntegersRefused ==
  /\ verdict' # OK /\ file' # NIL => HoldsInteger(root, file')
  /\ SaveAgain /\ verdict' = OK => ~HoldsInteger(root, file)

(* What is refused is not in the store, unless it has been accepted and is *)
(* a query, or a board with a widget, one of whose integers has a default: *)
(* JSON gives it back as a float64, and ParameterDef.Validate asks for an  *)
(* int.  Such an item is always refused when it is saved again, and        *)
(* everything else accepted.                                               *)
SavedItemsStaySound == [][OnlyIntegersRefused]_itemVars

InColumnOrder(names, key) ==
  \E at \in [DOMAIN key -> DOMAIN names] :
    /\ \A i \in DOMAIN key : key[i] = names[at[i]]
    /\ \A i, j \in DOMAIN key : i < j => at[i] < at[j]

(* The rules of a recordset compare a name of its key with the columns at  *)
(* the places of the names before it: a key of distinct columns in the     *)
(* order of the recordset is always accepted.                              *)
KeysInOrderAccepted ==
  (Validated /\ flaw.how = "key") =>
    LET names == [i \in DOMAIN item.columnDefs |-> item.columnDefs[i].name]
    IN  (NoneRepeats(names) /\ InColumnOrder(names, item.primaryKey.names)) => verdict = OK
=============================================================================
