----------------------------- MODULE FolderRules -----------------------------
(***************************************************************************)
(* pkg/datatug/query.go: the Validate methods of nested folders of queries *)
(* and of their briefs, which call themselves.                             *)
(***************************************************************************)
EXTENDS ProjectRules

RECURSIVE ValidateQueriesFolder(_)
ValidateQueriesFolder(folder) ==
  First(<<ValidateItem(folder.item, FALSE),
          EachFollowed(folder.folders, ValidateQueriesFolder),
          ValidateQueries(folder.items)>>)

QueryBrief == [kind |-> "QueryDefBrief", brief |-> [Brief EXCEPT !.kind = "TitledBrief"], type |-> "SQL"]
ValidateQueryBrief(query) == First(<<ValidateBrief(query.brief, TRUE), Must(~IsBlank(query.type))>>)
FolderBriefOf(folders, items) ==
  [kind |-> "QueryFolderBrief", brief |-> [Brief EXCEPT !.kind = "TitledBrief"], folders |-> folders, items |-> items]
RECURSIVE ValidateFolderBrief(_)
ValidateFolderBrief(folder) ==
  First(<<ValidateBrief(folder.brief, TRUE),
          EachFollowed(folder.folders, ValidateFolderBrief),
          EachFollowed(folder.items, ValidateQueryBrief)>>)

(* The rules of a tree of the type that is named. *)
ValidateFolderTree(name, tree) ==
  IF name = "QueriesFolder" THEN ValidateQueriesFolder(tree) ELSE ValidateFolderBrief(tree)
=============================================================================
