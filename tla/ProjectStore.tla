----------------------------- MODULE ProjectStore ----------------------------
(***************************************************************************)
(* pkg/storage/filestore/store_project_saver.go and store_loader.go:       *)
(* SaveProject and LoadProject of a whole project, by concurrent callers,  *)
(* over the items stores (ItemsStore has the steps of one item).           *)
(*                                                                         *)
(* Both run one goroutine per part, and these one per item; each of the    *)
(* two levels of parallel.Run waits for all and fails if any failed, so a  *)
(* call is the set of what its goroutines still have to do.  DB models and *)
(* drivers are loaded and never saved.  Environments and drivers are       *)
(* directories: a listing finds them by name and loads no content.         *)
(*                                                                         *)
(* Bounds: MaxCalls, and one failing system call in a call (a project file *)
(* that is refused does not count).                                        *)
(***************************************************************************)
EXTENDS Naturals, FiniteSets

CONSTANTS
  Ids,
  Disks,      \* what there may be at first, by hands or by earlier versions of the project
  Projects,   \* what callers save: [Names -> [valid, created : BOOLEAN, items : SUBSET Places]]
  Clients,
  Loaders,    \* the clients that load, too
  MaxCalls    \* bound: calls in a behaviour

SavedParts == {"entities", "environments", "boards"}
DirParts == {"environments", "drivers"}
Parts == SavedParts \cup {"dbModels", "drivers"}
Places == SavedParts \X Ids
AllPlaces == Parts \X Ids
File == <<"project", "file">>          \* the project file, and the path of its steps
Listing(part) == <<part, "listing">>   \* the reading of a part's directory

Names == DOMAIN Projects
Absent == "absent"
Empty == "empty"       \* created or truncated; for a directory, made and without its file
Old == "old"           \* left by earlier versions of the project
Blank == "blank"       \* an item loaded without content
Unknown == "unknown"
Written == Names \cup {Old}

Contents == Written \cup {Absent, Empty}

ASSUME ProjectsAssumption ==
  /\ \A name \in Names : /\ Projects[name].valid \in BOOLEAN /\ Projects[name].created \in BOOLEAN
                         /\ Projects[name].items \subseteq Places
  /\ Disks \subseteq [AllPlaces \cup {File} -> Contents]
  /\ {Absent, Empty, Blank, Unknown} \cap Names = {}
  /\ "listing" \notin Ids
  /\ MaxCalls \in Nat

VARIABLES
  disk,      \* per place and for File: Absent, Empty, or whose content
  client,    \* per client: its call
  settled,   \* history: what a load that nobody disturbs must find
  calls      \* number of calls begun

storeVars == <<disk, client, settled, calls>>

Idle == [op |-> "idle", project |-> Unknown, depth |-> 0, step |-> "returned", todo |-> {},
         writing |-> {}, loaded |-> <<>>, ok |-> TRUE, raced |-> {}]

TypeOK ==
  /\ disk \in [AllPlaces \cup {File} -> Contents]
  /\ \A c \in Clients :
       /\ client[c].op \in {"idle", "save", "load"}
       /\ client[c].step \in {"validate", "mkdir", "file", "workers", "returned"}
       /\ client[c].project \in Names \cup {Unknown}
       /\ client[c].depth \in 0..2
       /\ client[c].todo \subseteq AllPlaces \cup {File} \cup {Listing(part) : part \in Parts}
       /\ client[c].writing \subseteq Places \cup {File}
       /\ DOMAIN client[c].loaded \subseteq AllPlaces
       /\ \A place \in DOMAIN client[c].loaded : client[c].loaded[place] \in Written \cup {Blank}
       /\ client[c].ok \in BOOLEAN /\ client[c].raced \subseteq AllPlaces \cup {File}
  /\ settled \in [AllPlaces \cup {File} -> Written \cup {Absent, Unknown}]
  /\ calls \in 0..MaxCalls

StoreInit ==
  /\ disk \in Disks
  /\ settled = [place \in DOMAIN disk |-> IF disk[place] = Empty THEN Unknown ELSE disk[place]]
  /\ client = [c \in Clients |-> Idle]
  /\ calls = 0

----------------------------------------------------------------------------
Busy(c) == client[c].step # "returned"
At(c, op, step) == Busy(c) /\ client[c].op = op /\ client[c].step = step
Moves(c, step) == client' = [client EXCEPT ![c].step = step]
Returns(c, ok) == client' = [client EXCEPT ![c].step = "returned", ![c].ok = ok]

\* History: the places that a project changes, those that are being changed, and the calls under
\* way or answered that a save of some places disturbs.
Touches(project) == IF project.valid THEN project.items \cup {File} ELSE {}
UnderWay == UNION {Touches(Projects[client[d].project]) :
                     d \in {d \in Clients : Busy(d) /\ client[d].op = "save"}}
Disturbed(places) == [d \in Clients |-> [client[d] EXCEPT !.raced = @ \cup places]]

BeginSave(c) ==
  \E name \in Names :
    LET places == Touches(Projects[name])
    IN  /\ client' = [Disturbed(places) EXCEPT ![c] =
                        [Idle EXCEPT !.op = "save", !.project = name, !.step = "validate",
                                     !.raced = UnderWay]]
        /\ settled' = [place \in DOMAIN disk |->
                         IF place \in places THEN Unknown ELSE settled[place]]

\* Depth 0 is "no limit".
BeginLoad(c) ==
  \E depth \in 0..2 :
    /\ client' = [client EXCEPT ![c] =
                    [Idle EXCEPT !.op = "load", !.depth = depth, !.step = "file",
                                 !.raced = UnderWay]]
    /\ UNCHANGED settled

Begin(c) ==
  /\ ~Busy(c) /\ calls < MaxCalls
  /\ BeginSave(c) \/ (c \in Loaders /\ BeginLoad(c))
  /\ calls' = calls + 1
  /\ UNCHANGED disk

----------------------------------------------------------------------------
\* SaveProject

Saved(c) == Projects[client[c].project]

\* Project.Validate looks into every part, but not at Created.
Validate(c) ==
  /\ At(c, "save", "validate")
  /\ IF Saved(c).valid THEN Moves(c, "mkdir") ELSE Returns(c, FALSE)
  /\ UNCHANGED <<disk, settled, calls>>

MkdirAll(c) ==
  /\ At(c, "save", "mkdir")
  /\ \/ Returns(c, FALSE)
     \/ client' = [client EXCEPT ![c].step = "workers", ![c].todo = Saved(c).items \cup {File}]
  /\ UNCHANGED <<disk, settled, calls>>

\* putProjectFile validates the file: a project without Created is refused here.
Refuses(c, place) == place = File /\ ~Saved(c).created

\* A worker opens its file, after the README for the project file; or it fails there.
Create(c, place) ==
  /\ At(c, "save", "workers") /\ place \in client[c].todo
  /\ \/ /\ ~Refuses(c, place)
        /\ client' = [client EXCEPT ![c].todo = @ \ {place}, ![c].writing = @ \cup {place}]
        /\ disk' = [disk EXCEPT ![place] = Empty]
     \/ /\ client[c].ok \/ Refuses(c, place)
        /\ client' = [client EXCEPT ![c].todo = @ \ {place}, ![c].ok = FALSE]
        /\ \/ UNCHANGED disk
           \/ place[1] \in DirParts /\ disk[place] = Absent /\ disk' = [disk EXCEPT ![place] = Empty]
  /\ UNCHANGED <<settled, calls>>

\* Mutant: the error of the encoder is dropped with that of Close.
WriteUnchecked(c, place) ==
  /\ At(c, "save", "workers") /\ place \in client[c].writing
  /\ client' = [client EXCEPT ![c].writing = @ \ {place}]
  /\ disk' \in {disk, [disk EXCEPT ![place] = client[c].project]}
  /\ UNCHANGED <<settled, calls>>

\* A write that fails leaves the file as it is.
Write(c, place) ==
  /\ At(c, "save", "workers") /\ place \in client[c].writing
  /\ \/ /\ client' = [client EXCEPT ![c].writing = @ \ {place}]
        /\ disk' = [disk EXCEPT ![place] = client[c].project]
     \/ /\ client[c].ok
        /\ client' = [client EXCEPT ![c].writing = @ \ {place}, ![c].ok = FALSE]
        /\ UNCHANGED disk
  /\ UNCHANGED <<settled, calls>>

\* Both levels of parallel.Run have returned.  Items that are no longer in the project stay.
SaveReturns(c) ==
  /\ At(c, "save", "workers") /\ client[c].todo = {} /\ client[c].writing = {}
  /\ Returns(c, client[c].ok)
  /\ settled' = [place \in DOMAIN disk |->
                   IF client[c].ok /\ place \in Touches(Saved(c)) \ client[c].raced
                   THEN client[c].project ELSE settled[place]]
  /\ UNCHANGED <<disk, calls>>

----------------------------------------------------------------------------
\* LoadProject

Readable(place) == disk[place] \in Written

\* Mutant: the depth the items are loaded with decides whether they are.
GoesDeeperNext(depth) == depth \notin {1, 2}

GoesDeeper(depth) == depth = 0 \/ depth > 1

\* The project file first; a depth of 1 stops here.
ReadFile(c) ==
  /\ At(c, "load", "file")
  /\ CASE ~Readable(File) -> Returns(c, FALSE)
       [] Readable(File) /\ GoesDeeper(client[c].depth) ->
            client' = [client EXCEPT ![c].step = "workers",
                                     ![c].todo = {Listing(part) : part \in Parts}]
       [] OTHER -> Returns(c, TRUE)
  /\ UNCHANGED <<disk, settled, calls>>

Entries(part) == {place \in {part} \X Ids : disk[place] # Absent}
Blanks(places) == [place \in places |-> Blank]
\* What has been loaded, with what is found.
With(loaded, found) ==
  [place \in DOMAIN loaded \cup DOMAIN found |->
     IF place \in DOMAIN found THEN found[place] ELSE loaded[place]]

\* loadDir reads the directory of a part once.  An environment is made of its name: the file
\* that is then looked for is never there.
ListPart(c, part) ==
  /\ At(c, "load", "workers") /\ Listing(part) \in client[c].todo
  /\ LET named == IF part = "environments" THEN Entries(part) ELSE {}
     IN  client' = [client EXCEPT ![c].todo = (@ \ {Listing(part)}) \cup (Entries(part) \ named),
                                  ![c].loaded = With(@, Blanks(named))]
  /\ UNCHANGED <<disk, settled, calls>>

Content(place) == IF place[1] \in DirParts THEN Blank ELSE disk[place]

\* A driver is made of its name and its servers are listed; Empty says of it that one of them
\* cannot be read.
LoadItem(c, place) ==
  /\ At(c, "load", "workers") /\ place \in client[c].todo \cap AllPlaces
  /\ client' = [client EXCEPT ![c].todo = @ \ {place},
                  ![c].loaded = IF Readable(place) THEN With(@, [p \in {place} |-> Content(p)]) ELSE @,
                  ![c].ok = @ /\ Readable(place)]
  /\ UNCHANGED <<disk, settled, calls>>

\* The workers have set the fields of the project; after any error the project is nil.
LoadReturns(c) ==
  /\ At(c, "load", "workers") /\ client[c].todo = {}
  /\ client' = [client EXCEPT ![c].step = "returned",
                              ![c].loaded = IF client[c].ok THEN @ ELSE <<>>]
  /\ UNCHANGED <<disk, settled, calls>>

----------------------------------------------------------------------------
\* The process of a caller dies; what its goroutines have done to the disk stays.
Crash(c) ==
  /\ Busy(c)
  /\ client' = [client EXCEPT ![c] = Idle]
  /\ UNCHANGED <<disk, settled, calls>>

SaveStep(c) ==
  \/ Validate(c) \/ MkdirAll(c) \/ SaveReturns(c)
  \/ \E place \in Places \cup {File} : Create(c, place) \/ Write(c, place)
LoadStep(c) ==
  \/ ReadFile(c) \/ LoadReturns(c)
  \/ \E part \in Parts : ListPart(c, part)
  \/ \E place \in AllPlaces : LoadItem(c, place)

StoreNext == \E c \in Clients : Begin(c) \/ SaveStep(c) \/ LoadStep(c) \/ Crash(c)

StoreSpec == StoreInit /\ [][StoreNext]_storeVars
----------------------------------------------------------------------------
Answered(c) == client[c].op = "load" /\ client[c].step = "returned"
FoundAt(c, place) == IF place \in DOMAIN client[c].loaded THEN client[c].loaded[place] ELSE Absent
Known(c, place) == settled[place] # Unknown /\ place \notin client[c].raced

\* A project that is loaded holds what the last save of every item has put there if it returned
\* nil, in all parts at once, and what earlier saves have left of items that are not in the
\* project any more; saves of other items, under way or dead, change nothing about it.  Of
\* environments and drivers it holds the names.
RoundTrip ==
  \A c \in Clients : Answered(c) /\ client[c].ok /\ client[c].depth # 1 =>
    \A place \in AllPlaces : Known(c, place) =>
      FoundAt(c, place) = IF place[1] \in DirParts /\ settled[place] # Absent
                        THEN Blank ELSE settled[place]

\* A load fails because the project file is missing, or because of a file that a save has been
\* writing meanwhile, has failed to write or died over, or that somebody else has left broken; a
\* depth of 1 asks for the project file only.
LoadFailureExplained ==
  \A c \in Clients : Answered(c) /\ ~client[c].ok =>
    \/ ~Known(c, File) \/ settled[File] = Absent
    \/ client[c].depth # 1 /\ \E place \in AllPlaces : ~Known(c, place)
==============================================================================
