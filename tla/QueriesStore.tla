---------------------------- MODULE QueriesStore ----------------------------
(***************************************************************************)
(* pkg/storage/filestore/store_queries.go and store_queries_saver.go.  A   *)
(* query has a JSON file, and CreateQuery keeps its text in a file of its  *)
(* own beside it, named after the query's type and written last; UpdateQuery *)
(* and SaveQuery keep the text in the JSON file and do not look at the     *)
(* other one, nor does anything else: it is neither read nor removed.      *)
(*                                                                         *)
(* Callers run concurrently, die between two steps, and any call to the    *)
(* file system that creates or writes may fail.                            *)
(***************************************************************************)
EXTENDS Naturals, FiniteSets

CONSTANTS Folders, Ids, Texts, Types, Clients,
          Root,     \* the store's own folder
          NoText,   \* the empty text
          Absent,   \* no such file
          Empty     \* a file that is opened, and not written

ASSUME RootAssumption == Root \in Folders /\ NoText \notin Texts
ASSUME NonemptyAssumption == Ids # {} /\ Types # {}

Unknown == "unknown"

Places == Folders \X Ids
Queries == [type : Types, text : Texts \cup {NoText}]
ASSUME MarkersAssumption ==
  {Absent, Empty} \cap (Queries \cup Texts) = {} /\ Absent # Empty
FolderOf(place) == place[1]

VARIABLES
  json,     \* per place: Absent, Empty or the query as it is encoded
  texts,    \* per place and type: Absent, Empty or a text
  dirs,     \* the folders there are
  readme,   \* per folder: "none", "title" or "edited"
  client,   \* per client: the call it is in
  settled,  \* history, per place: what the last call to change it alone has left
  once      \* history: the places that have had a query

vars == <<json, texts, dirs, readme, client, settled, once>>
disk == <<json, texts, dirs, readme>>
history == <<settled, once>>

NoCall == [op |-> "idle", place |-> <<Root, CHOOSE id \in Ids : TRUE>>, 
           query |-> [type |-> CHOOSE type \in Types : TRUE, text |-> NoText],
           step |-> "none", linked |-> FALSE, raced |-> FALSE]

TypeOK ==
  /\ json \in [Places -> Queries \cup {Absent, Empty}]
  /\ texts \in [Places \X Types -> Texts \cup {Absent, Empty}]
  /\ dirs \subseteq Folders
  /\ readme \in [Folders -> {"none", "title", "edited"}]
  /\ client \in [Clients ->
       [op : {"idle", "create", "save", "delete", "folder"}, place : Places, query : Queries,
        step : {"none", "mkdir", "create", "write", "createText", "writeText", "stat", "remove",
                "statReadme", "writeReadme"},
        linked : BOOLEAN, raced : BOOLEAN]]
  /\ settled \in [Places -> [op : {"create", "save", "delete", Unknown}, query : Queries]]
  /\ once \subseteq Places

Nobody == [op |-> Unknown, query |-> NoCall.query]

Init ==
  /\ json = [place \in Places |-> Absent]
  /\ texts = [file \in Places \X Types |-> Absent]
  /\ dirs = {}
  /\ readme = [folder \in Folders |-> "none"]
  /\ client = [c \in Clients |-> NoCall]
  /\ settled = [place \in Places |-> [Nobody EXCEPT !.op = "delete"]]
  /\ once = {}

-----------------------------------------------------------------------------
\* Calls.

Busy(c) == client[c].op # "idle"
Changes(c, place) == Busy(c) /\ client[c].op # "folder" /\ client[c].place = place

\* Two calls that change a place at a time are raced, both of them.
Begin(c, op, place, query, step) ==
  LET raced == {d \in Clients : Changes(d, place)}
  IN  /\ ~Busy(c)
      /\ client' = [d \in Clients |->
           IF d = c THEN [NoCall EXCEPT !.op = op, !.place = place, !.query = query, !.step = step,
                                        !.raced = raced # {}]
           ELSE IF d \in raced THEN [client[d] EXCEPT !.raced = TRUE] ELSE client[d]]
      /\ settled' = [settled EXCEPT ![place] = Nobody]
      /\ UNCHANGED <<disk, once>>

\* Validation comes first and refuses without a trace: only valid queries are given.
BeginCall(c) ==
  \/ \E place \in Places, query \in Queries :
       Begin(c, "create", place, query, "mkdir") \/ Begin(c, "save", place, query, "mkdir")
  \/ \E place \in Places : Begin(c, "delete", place, NoCall.query, "stat")

BeginFolder(c) ==
  /\ ~Busy(c)
  /\ \E folder \in Folders \ {Root} :
       client' = [client EXCEPT ![c] =
                    [NoCall EXCEPT !.op = "folder", !.place[1] = folder, !.step = "mkdir"]]
  /\ UNCHANGED <<disk, history>>

Goes(c, step) == client' = [client EXCEPT ![c].step = step]
Return(c) == client' = [client EXCEPT ![c] = NoCall]

\* The call returns nil; what it leaves is known if no other call interfered.
Succeed(c) ==
  /\ Return(c)
  /\ settled' = IF client[c].raced \/ client[c].op = "folder" THEN settled
                ELSE [settled EXCEPT ![client[c].place] = [op |-> client[c].op, query |-> client[c].query]]

\* The file system refuses and the call returns its error, or the process
\* dies: either way nothing is cleaned up.
Stop(c) ==
  /\ Busy(c)
  /\ Return(c)
  /\ UNCHANGED <<disk, history>>

-----------------------------------------------------------------------------
\* saveJSONFile: CreateQuery makes the query's folder, the others the store's.

Made(c) == IF client[c].op = "save" THEN {Root} ELSE {Root, FolderOf(client[c].place)}
MkdirAll(c) ==
  /\ client[c].step = "mkdir"
  /\ dirs' = dirs \cup Made(c)
  /\ Goes(c, IF client[c].op = "folder" THEN "statReadme" ELSE "create")
  /\ UNCHANGED <<json, texts, readme, history>>

\* Mutant: the text is written before the query.
TextFirst(c) ==
  /\ client[c].step = "create"
  /\ client[c].query.text # NoText
  /\ texts' = [texts EXCEPT ![<<client[c].place, client[c].query.type>>] = client[c].query.text]
  /\ Goes(c, "write")
  /\ UNCHANGED <<json, dirs, readme, history>>

\* os.Create truncates what is there; without the folder it fails, which shows when nil is written to.
Create(c) ==
  LET place == client[c].place
  IN  /\ client[c].step = "create"
      /\ IF FolderOf(place) \in dirs
         THEN /\ json' = [json EXCEPT ![place] = Empty]
              /\ once' = once \cup {place}
              /\ client' = [client EXCEPT ![c].step = "write", ![c].linked = TRUE]
         ELSE Return(c) /\ UNCHANGED <<json, once>>
      /\ UNCHANGED <<texts, dirs, readme, settled>>

\* CreateQuery encodes the query without its text.
Encoded(c) ==
  IF client[c].op = "create" THEN [client[c].query EXCEPT !.text = NoText] ELSE client[c].query
\* Mutant: a file that has been removed comes back.
WrittenAnyway(c) == [json EXCEPT ![client[c].place] = Encoded(c)]
\* A file removed since it was opened has no name any more.
Written(c) == IF client[c].linked THEN [json EXCEPT ![client[c].place] = Encoded(c)] ELSE json

HasTextFile(c) == client[c].op = "create" /\ client[c].query.text # NoText
Write(c) ==
  /\ client[c].step = "write"
  /\ json' = Written(c)
  /\ IF HasTextFile(c)
     THEN client' = [client EXCEPT ![c].step = "createText", ![c].linked = FALSE] /\ UNCHANGED settled
     ELSE Succeed(c)
  /\ UNCHANGED <<texts, dirs, readme, once>>

\* os.WriteFile: open with O_TRUNC, then write.
\* Mutant: the text of every query is kept in the store's folder.
TextFileAtRoot(c) == <<<<Root, client[c].place[2]>>, client[c].query.type>>
TextFile(c) == <<client[c].place, client[c].query.type>>
CreateText(c) ==
  /\ client[c].step = "createText"
  /\ texts' = [texts EXCEPT ![TextFile(c)] = Empty]
  /\ Goes(c, "writeText")
  /\ UNCHANGED <<json, dirs, readme, history>>
WriteText(c) ==
  /\ client[c].step = "writeText"
  /\ texts' = [texts EXCEPT ![TextFile(c)] = client[c].query.text]
  /\ Succeed(c)
  /\ UNCHANGED <<json, dirs, readme, once>>

-----------------------------------------------------------------------------
\* DeleteQuery: the JSON file, and nothing if there is none.

Stat(c) ==
  /\ client[c].step = "stat"
  /\ IF json[client[c].place] = Absent THEN Succeed(c) ELSE Goes(c, "remove") /\ UNCHANGED settled
  /\ UNCHANGED <<disk, once>>

Unlinked(place) ==
  [d \in Clients |-> IF client[d].place = place THEN [client[d] EXCEPT !.linked = FALSE] ELSE client[d]]
Remove(c) ==
  LET place == client[c].place
  IN  /\ client[c].step = "remove"
      /\ client' = [Unlinked(place) EXCEPT ![c] = NoCall]
      /\ IF json[place] = Absent    \* somebody else was faster: an error
         THEN UNCHANGED <<disk, history>>
         ELSE /\ json' = [json EXCEPT ![place] = Absent]
              /\ settled' = IF client[c].raced THEN settled
                            ELSE [settled EXCEPT ![place] = [op |-> "delete", query |-> client[c].query]]
              /\ UNCHANGED <<texts, dirs, readme, once>>

-----------------------------------------------------------------------------
\* CreateQueryFolder: its README is written unless there is one.

\* Mutant: the README is written whether there is one or not.
StatNothing(c) ==
  /\ client[c].step = "statReadme"
  /\ Goes(c, "writeReadme")
  /\ UNCHANGED <<disk, history>>
StatReadme(c) ==
  /\ client[c].step = "statReadme"
  /\ IF readme[FolderOf(client[c].place)] = "none"
     THEN Goes(c, "writeReadme")
     ELSE Return(c)
  /\ UNCHANGED <<disk, history>>

WriteReadme(c) ==
  /\ client[c].step = "writeReadme"
  /\ readme' = [readme EXCEPT ![FolderOf(client[c].place)] = "title"]
  /\ Return(c)
  /\ UNCHANGED <<json, texts, dirs, history>>

\* Somebody edits the README of a folder.
Edit(folder) ==
  /\ folder \in dirs /\ readme[folder] # "edited"
  /\ readme' = [readme EXCEPT ![folder] = "edited"]
  /\ client' = [c \in Clients |->
       IF client[c].op = "folder" /\ FolderOf(client[c].place) = folder
       THEN [client[c] EXCEPT !.raced = TRUE] ELSE client[c]]
  /\ UNCHANGED <<json, texts, dirs, history>>

Step(c) ==
  \/ MkdirAll(c) \/ Create(c) \/ Write(c) \/ CreateText(c) \/ WriteText(c)
  \/ Stat(c) \/ Remove(c) \/ StatReadme(c) \/ WriteReadme(c)
Next ==
  \/ \E c \in Clients : BeginCall(c) \/ BeginFolder(c) \/ Step(c) \/ Stop(c)
  \/ \E folder \in Folders \ {Root} : Edit(folder)
Spec == Init /\ [][Next]_vars

-----------------------------------------------------------------------------
(* Properties. *)

(* What the last call has left to itself is there: a query that was        *)
(* created has its text beside it, one that was saved has it inside, one   *)
(* that was deleted is gone.  A call that races another, dies or fails     *)
(* leaves a place nothing is known of.                                     *)
SettledQueriesKept ==
  \A place \in Places :
    LET last == settled[place]
    IN  /\ last.op = "create" =>
             /\ json[place] = [last.query EXCEPT !.text = NoText]
             /\ last.query.text # NoText => texts[<<place, last.query.type>>] = last.query.text
        /\ last.op = "save" => json[place] = last.query
        /\ last.op = "delete" => json[place] = Absent

(* A text is never there before its query: whoever finds a text whose      *)
(* query is missing finds what a deletion has left behind.                 *)
NoTextBeforeQuery ==
  \A place \in Places, type \in Types : texts[<<place, type>>] # Absent => place \in once

(* CreateQueryFolder leaves a README that was edited alone, unless it was  *)
(* edited while the call was under way.                                    *)
EditedReadmeKept ==
  [][\A folder \in Folders : (readme[folder] = "edited" /\ readme'[folder] # "edited") =>
       \E c \in Clients : client[c].op = "folder" /\ client[c].raced]_vars

(* To those who load queries the store is a table: QueryTable with the     *)
(* JSON files for its queries, the text files and READMEs hidden.          *)
Table == INSTANCE QueryTable WITH
  table <- json, NoQuery <- Absent, Unreadable <- Empty, Places <- Places, Queries <- Queries
ImplementsTable == Table!TableSpec
=============================================================================
