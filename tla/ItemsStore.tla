------------------------------ MODULE ItemsStore -----------------------------
(***************************************************************************)
(* pkg/storage/filestore/project_items_store.go with saveJSONFile,         *)
(* readJSONFile and loadDir: the generic store behind entities, boards,    *)
(* queries, servers, catalogs (one file per item) and behind environments, *)
(* folders, drivers (one directory per item).  There is no lock, no        *)
(* temporary file and no rename, so the steps are the file system's.       *)
(*                                                                         *)
(* A path is a pair <<id, role>>.  An item stored as a file has one path;  *)
(* an item stored as a directory is saved at "summary", its listing reads  *)
(* "listing" and its deletion looks for "file".  A write and a read of a   *)
(* file are one call each (json.Encoder writes once, and the decoder stops *)
(* after the first value, whatever a longer file leaves behind it).  The   *)
(* write may fail, or fall short, after os.Create has truncated the file.  *)
(***************************************************************************)
EXTENDS Naturals, FiniteSets

CONSTANTS Ids, Contents, Clients    \* Clients: concurrent callers, in any process

Absent == "absent"
Empty == "empty"                    \* created or truncated, and not written, or not to its end
Unknown == "unknown"

ASSUME ValuesAssumption ==
  {Absent, Empty, Unknown} \cap Contents = {} /\ Unknown \notin Ids

VARIABLES
  storedAs,     \* "file" or "dir", fixed when the store is made
  files,        \* per path: Absent, Empty or a content
  dirs,         \* the items whose directory exists (stored as directories)
  client,       \* per client: the call it is in
  settled,      \* history, per item: what the last call to change it alone has left
  torn          \* history: the items whose save died or failed between create and the write's end

vars == <<storedAs, files, dirs, client, settled, torn>>
disk == <<files, dirs>>
history == <<settled, torn>>

Paths == Ids \X {"file", "summary", "listing"}
\* Mutant: the directory of the item is forgotten.
SavedTogether(id) ==
  IF storedAs = "file" THEN <<id, "file">> ELSE <<CHOOSE i \in Ids : TRUE, "summary">>

SavedAt(id) == <<id, IF storedAs = "file" THEN "file" ELSE "summary">>
ListedAt(id) == <<id, IF storedAs = "file" THEN "file" ELSE "listing">>
DeletedAt(id) == <<id, "file">>

\* What Readdir returns.
Entries == IF storedAs = "file" THEN {id \in Ids : files[<<id, "file">>] # Absent} ELSE dirs

Idle == [op |-> "idle", id |-> Unknown, content |-> Absent, step |-> "returned", linked |-> FALSE,
         todo |-> {}, items |-> {}, present |-> {}, ever |-> {}, raced |-> FALSE, ok |-> TRUE]

TypeOK ==
  /\ storedAs \in {"file", "dir"}
  /\ files \in [Paths -> Contents \cup {Absent, Empty}]
  /\ dirs \subseteq Ids
  /\ client \in [Clients ->
       [op : {"idle", "save", "delete", "load", "list"}, id : Ids \cup {Unknown},
        content : Contents \cup {Absent},
        step : {"validate", "mkdir", "create", "write", "stat", "remove", "read", "readdir",
                "items", "returned"},
        linked : BOOLEAN, todo : SUBSET Ids, items : SUBSET Ids,
        present : SUBSET Ids, ever : SUBSET Ids, raced : BOOLEAN, ok : BOOLEAN]]
  /\ settled \in [Ids -> Contents \cup {Absent, Unknown}]
  /\ torn \subseteq Ids

Init ==
  /\ storedAs \in {"file", "dir"}
  /\ files = [p \in Paths |-> Absent]
  /\ dirs = {}
  /\ client = [c \in Clients |-> Idle]
  /\ settled = [id \in Ids |-> Absent]
  /\ torn = {}

----------------------------------------------------------------------------
\* History: which calls overlap, and what a listing could have seen.

Busy(c) == client[c].op # "idle" /\ client[c].step # "returned"
Changes(c, id) == Busy(c) /\ client[c].op \in {"save", "delete"} /\ client[c].id = id
Changing == {id \in Ids : \E c \in Clients : Changes(c, id)}

\* A call that changes `id` begins: whoever is busy with it, or lists, is raced.
Disturbed(id) ==
  [d \in Clients |->
     IF Busy(d) /\ (client[d].id = id \/ client[d].op = "list")
     THEN [client[d] EXCEPT !.raced = TRUE] ELSE client[d]]

\* Listings under way see `id` come and go.
Appears(clients, id) ==
  [d \in Clients |-> IF Busy(d) /\ client[d].op = "list"
                     THEN [clients[d] EXCEPT !.ever = @ \cup {id}] ELSE clients[d]]
Vanishes(clients, id) ==
  [d \in Clients |-> IF Busy(d) THEN [clients[d] EXCEPT !.present = @ \ {id}] ELSE clients[d]]

\* The items a reader must find: what a listing's directory holds, what has been saved.
There(op) ==
  CASE op = "list" -> Entries
    [] op = "load" -> {id \in Ids : settled[id] \notin {Absent, Unknown}}
    [] OTHER -> {}

Calls(op, id, content, step) ==
  [Idle EXCEPT !.op = op, !.id = id, !.content = content, !.step = step,
               !.present = There(op), !.ever = IF op = "list" THEN Entries ELSE {},
               !.raced = IF op = "list" THEN Changing \cup torn # {} ELSE id \in Changing \cup torn]

Begin(c, op, id, content, step) ==
  /\ client[c].op = "idle"
  /\ client' = [(IF op \in {"save", "delete"} THEN Disturbed(id) ELSE client)
                 EXCEPT ![c] = Calls(op, id, content, step)]
  /\ settled' = IF op \in {"save", "delete"} THEN [settled EXCEPT ![id] = Unknown] ELSE settled
  /\ UNCHANGED <<storedAs, disk, torn>>

\* A call that has changed `id` returns nil: what it leaves is known if nobody interfered.
Settles(c, value) ==
  settled' = IF client[c].raced THEN settled ELSE [settled EXCEPT ![client[c].id] = value]

Returns(c, ok) == [client EXCEPT ![c].step = "returned", ![c].ok = ok, ![c].linked = FALSE]
At(c, step) == Busy(c) /\ client[c].step = step

BeginCall(c) ==
  \/ \E id \in Ids, x \in Contents : Begin(c, "save", id, x, "validate")
  \/ \E id \in Ids : Begin(c, "delete", id, Absent, "stat") \/ Begin(c, "load", id, Absent, "read")
  \/ Begin(c, "list", Unknown, Absent, "readdir")

\* The caller has its answer.
End(c) ==
  /\ client[c].op # "idle" /\ client[c].step = "returned"
  /\ client' = [client EXCEPT ![c] = Idle]
  /\ UNCHANGED <<storedAs, disk, history>>

----------------------------------------------------------------------------
\* saveProjectItem and saveJSONFile

\* Validate refuses an invalid item before anything is touched.
Validate(c) ==
  /\ At(c, "validate")
  /\ \/ client' = [client EXCEPT ![c].step = "mkdir"]
     \/ client' = Returns(c, FALSE)
  /\ UNCHANGED <<storedAs, disk, history>>

\* MkdirAll; only the directory of a single item matters here.
MkdirAll(c) ==
  /\ At(c, "mkdir")
  /\ LET stepped == [client EXCEPT ![c].step = "create"]
     IN  IF storedAs = "dir"
         THEN /\ dirs' = dirs \cup {client[c].id}
              /\ client' = Appears(stepped, client[c].id)
         ELSE client' = stepped /\ UNCHANGED dirs
  /\ UNCHANGED <<storedAs, files, history>>

\* os.Create truncates.  Its error is dropped; Encode then fails on the nil file.
Create(c) ==
  /\ At(c, "create")
  /\ \/ LET stepped == [client EXCEPT ![c].step = "write", ![c].linked = TRUE]
        IN  /\ files' = [files EXCEPT ![SavedAt(client[c].id)] = Empty]
            /\ client' = IF storedAs = "file" THEN Appears(stepped, client[c].id) ELSE stepped
     \/ client' = Returns(c, FALSE) /\ UNCHANGED files
  /\ UNCHANGED <<storedAs, dirs, history>>

\* The write goes to the file that was opened, even when it has been removed since.
Write(c) ==
  /\ At(c, "write")
  /\ IF client[c].linked
     THEN /\ files' = [files EXCEPT ![SavedAt(client[c].id)] = client[c].content]
          /\ torn' = torn \ {client[c].id}
     ELSE UNCHANGED <<files, torn>>
  /\ client' = Returns(c, TRUE)
  /\ Settles(c, client[c].content)
  /\ UNCHANGED <<storedAs, dirs>>

\* What a failing write leaves at its path: the marshalling fails and nothing is written, the
\* disk takes a part of the text, or all of it but the newline at its end.  A part written over
\* the text of another save may be read as anything.
LeftBy(c) ==
  {files[SavedAt(client[c].id)], Empty, client[c].content}
    \cup (IF client[c].raced THEN Contents ELSE {})

\* Encode returns an error, with the file truncated already.
WriteFails(c) ==
  /\ At(c, "write")
  /\ IF client[c].linked
     THEN /\ \E left \in LeftBy(c) : files' = [files EXCEPT ![SavedAt(client[c].id)] = left]
          /\ torn' = torn \cup {client[c].id}
     ELSE UNCHANGED <<files, torn>>
  /\ client' = Returns(c, FALSE)
  /\ UNCHANGED <<storedAs, dirs, settled>>

----------------------------------------------------------------------------
\* deleteProjectItem

\* Mutant: a missing item is an error.
StatStrictly(c) ==
  /\ At(c, "stat")
  /\ IF files[DeletedAt(client[c].id)] = Absent
     THEN client' = Returns(c, FALSE) /\ UNCHANGED settled
     ELSE client' = [client EXCEPT ![c].step = "remove"] /\ UNCHANGED settled
  /\ UNCHANGED <<storedAs, disk, torn>>

Stat(c) ==
  /\ At(c, "stat")
  /\ IF files[DeletedAt(client[c].id)] = Absent
     THEN client' = Returns(c, TRUE) /\ Settles(c, Absent)
     ELSE client' = [client EXCEPT ![c].step = "remove"] /\ UNCHANGED settled
  /\ UNCHANGED <<storedAs, disk, torn>>

Unlinked(clients, id) ==
  [d \in Clients |-> [clients[d] EXCEPT !.linked = @ /\ clients[d].id # id]]

\* os.Remove fails when the file has gone since the Stat.
Remove(c) ==
  LET id == client[c].id
  IN  /\ At(c, "remove")
      /\ IF files[DeletedAt(id)] = Absent
         THEN client' = Returns(c, FALSE) /\ UNCHANGED <<files, history>>
         ELSE /\ files' = [files EXCEPT ![DeletedAt(id)] = Absent]
              /\ client' = Vanishes(Unlinked(Returns(c, TRUE), id), id)
              /\ torn' = torn \ {id}
              /\ Settles(c, Absent)
      /\ UNCHANGED <<storedAs, dirs>>

----------------------------------------------------------------------------
\* loadProjectItem and loadProjectItems

Readable(path) == files[path] \notin {Absent, Empty}

Read(c) ==
  /\ At(c, "read")
  /\ client' = [Returns(c, Readable(SavedAt(client[c].id)))
                 EXCEPT ![c].content = IF Readable(SavedAt(client[c].id))
                                       THEN files[SavedAt(client[c].id)] ELSE Absent]
  /\ UNCHANGED <<storedAs, disk, history>>

\* loadDir lists the directory once; a worker per entry follows.
Readdir(c) ==
  /\ At(c, "readdir")
  /\ client' = [client EXCEPT ![c].step = "items", ![c].todo = Entries]
  /\ UNCHANGED <<storedAs, disk, history>>

\* A worker: for a file an unreadable entry is an error; for a directory a missing file is
\* not, and the item is made of its id alone.  The workers of a directory share one err, which
\* does no harm: nothing is ever saved at the path they read, and they all set it to that.
\* Mutant: an entry that cannot be read is left out of the list.
SkipUnreadable(c) ==
  /\ At(c, "items")
  /\ \E id \in client[c].todo :
       client' = [client EXCEPT ![c].todo = @ \ {id},
                    ![c].items = IF Readable(ListedAt(id)) THEN @ \cup {id} ELSE @]
  /\ UNCHANGED <<storedAs, disk, history>>

LoadEntry(c) ==
  /\ At(c, "items")
  /\ \E id \in client[c].todo :
       LET loads == Readable(ListedAt(id)) \/ (storedAs = "dir" /\ files[ListedAt(id)] = Absent)
       IN  client' = [client EXCEPT ![c].todo = @ \ {id},
                        ![c].items = IF loads THEN @ \cup {id} ELSE @,
                        ![c].ok = @ /\ loads]
  /\ UNCHANGED <<storedAs, disk, history>>

\* A single unreadable entry makes the result nil and an error.
Listed(c) ==
  /\ At(c, "items") /\ client[c].todo = {}
  /\ client' = [client EXCEPT ![c].step = "returned",
                              ![c].items = IF client[c].ok THEN @ ELSE {}]
  /\ UNCHANGED <<storedAs, disk, history>>

----------------------------------------------------------------------------
\* The process of a caller dies; what it has done to the disk stays.
Crash(c) ==
  LET id == client[c].id
  IN  /\ Busy(c)
      /\ client' = [client EXCEPT ![c] = Idle]
      /\ torn' = IF client[c].op = "save" /\ client[c].step = "write" /\ client[c].linked
                 THEN torn \cup {id} ELSE torn
      /\ UNCHANGED <<storedAs, disk, settled>>

Step(c) ==
  \/ Validate(c) \/ MkdirAll(c) \/ Create(c) \/ Write(c) \/ WriteFails(c)
  \/ Stat(c) \/ Remove(c)
  \/ Read(c) \/ Readdir(c) \/ LoadEntry(c) \/ Listed(c)

Next == \E c \in Clients : BeginCall(c) \/ Step(c) \/ End(c) \/ Crash(c)
Spec == Init /\ [][Next]_vars
----------------------------------------------------------------------------
\* What a save or a delete of an item leaves behind, when no other call changes that item
\* meanwhile, is what every later call finds: calls for other items, listings, loads and
\* earlier saves that hold the removed file open do not disturb it.
SettledContent ==
  \A id \in Ids :
    settled[id] # Unknown /\ (storedAs = "file" \/ settled[id] # Absent)
      => files[SavedAt(id)] = settled[id]

Answered(c, op) == client[c].op = op /\ client[c].step = "returned"

\* A list without an error holds every item that was there all the time, and none that was
\* there at no time.
ListIsComplete ==
  \A c \in Clients : Answered(c, "list") /\ client[c].ok =>
    client[c].present \subseteq client[c].items /\ client[c].items \subseteq client[c].ever

\* A delete, a list, and the load of an item that has been saved fail only when another call
\* changes what they look at, or when a save that died or failed has left its remains there.
FailuresAreRaces ==
  \A c \in Clients :
    (client[c].step = "returned" /\ ~client[c].ok /\ ~client[c].raced) =>
      \/ client[c].op = "save"
      \/ client[c].op = "load" /\ client[c].id \notin client[c].present
==============================================================================
