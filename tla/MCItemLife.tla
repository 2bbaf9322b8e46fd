------------------------------ MODULE MCItemLife ------------------------------
(***************************************************************************)
(* A sound item of each type, and each of them with one defect anywhere;   *)
(* and queries and boards with defaults that are integers.                 *)
(***************************************************************************)
EXTENDS ItemLife, ItemDefects, FolderRules
LOCAL INSTANCE SequencesExt

Sound(name) ==
  CASE name = "Environment" -> Environment
    [] name = "Entity" -> Entity
    [] name = "Board" -> Board
    [] name = "Query" -> Query
    [] name = "CountingQuery" -> CountingQuery
    [] name = "QueryInFolder" -> QueryInFolder
    [] name = "ProjectFile" -> ProjectFile
    [] name = "Folder" -> Folder
    [] name = "SqliteServer" -> [ServerFile EXCEPT !.server = SqliteServer]
    [] name = "StructuredQuery" -> [Query EXCEPT !.type = "StructuredSQL"]
    [] name = "Project" -> Project
    [] name = "Driver" -> Driver
    [] name = "DbModelFile" -> DbModelFile
    [] name = "EnvDb" -> EnvDb
    [] name = "ServerFile" -> ServerFile
    [] name = "QueriesFolder" -> FolderOf(<<FolderOf(<<>>, <<Query>>)>>, <<Query>>)
    [] name = "FolderBrief" -> FolderBriefOf(<<FolderBriefOf(<<>>, <<QueryBrief>>)>>, <<QueryBrief>>)
    [] name = "User" -> User
    [] name = "Recordset" -> Recordset

Made(name) == {<<Sound(name), NoFlaw>>} \cup ToSet(Variants(Sound(name)))
\* An int is a sound default of a type that the rules do not know.
Dated == [Query EXCEPT !.parameters[1] = ParameterOf("date", "int")]
\* Every kind of widget may ask for an integer, and for a bit.
CountingBoard(i, type) ==
  [Board EXCEPT !.rows[1].cards[i].widget.def.base.parameters = @ \o <<ParameterOf(type, "int")>>]
More ==
  {<<"Query", Dated>>} \cup {<<"Board", CountingBoard(i, type)>> : i \in 1..3, type \in {"integer", "bit"}}
MCInputs ==
  UNION {{[root |-> name, item |-> made[1], flaw |-> made[2]] : made \in Made(name)} : name \in Roots}
    \cup {[root |-> made[1], item |-> made[2], flaw |-> NoFlaw] : made \in More}
==============================================================================
