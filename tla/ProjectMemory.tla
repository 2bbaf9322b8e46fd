---------------------------- MODULE ProjectMemory ----------------------------
(***************************************************************************)
(* pkg/datatug/project.go: a Project in memory, its database drivers and   *)
(* servers read from the store on first use and kept.  The project has no  *)
(* lock and its calls come one after the other; the directory they are     *)
(* read from belongs to everybody.                                         *)
(*                                                                         *)
(* LoadProjDbDrivers, of storage/filestore/proj_dbdrivers_store.go, lists  *)
(* the directories of the drivers, and then in parallel, per driver, its   *)
(* servers, and opens each of them.  Every listing and every opening is a  *)
(* step, and others change the store in between.                           *)
(*                                                                         *)
(* An entry of p.DbDrivers is a pointer: an index of `objects`.            *)
(***************************************************************************)
EXTENDS Naturals, Sequences, FiniteSets, SequencesExt

CONSTANTS
  Drivers, Servers,       \* Servers: references <<driver, n>>
  MaxAdded,               \* bound: calls of AddProjDbServer
  MaxChanges,             \* bound: changes of the store by others
  NIL

ASSUME NILAssumption == NIL \notin Seq(Nat)
ASSUME FiniteAssumption == IsFiniteSet(Drivers) /\ IsFiniteSet(Servers)

DriverOf(s) == s[1]

VARIABLES
  store,        \* the drivers' directories with their servers; NIL while there is no directory of drivers
  loading,      \* LoadProjDbDrivers, under a call of GetDBs or of AddProjDbServer
  list,         \* p.DbDrivers, NIL or a sequence of indices
  objects,      \* the ProjDbDriver objects: driver and servers
  added,        \* history: the servers whose AddProjDbServer has returned nil, in order
  always, ever, \* history: the servers in the store all through the last load, and at some time of it
  reported,     \* history: the last load has returned an error
  changes       \* bound: what MaxChanges counts

projectVars == <<list, objects, added, reported>>
memoryVars == <<store, loading, projectVars, always, ever, changes>>

StoreStates == {NIL} \cup UNION {[ds -> SUBSET Servers] : ds \in SUBSET Drivers}
WellPlaced(st) == st = NIL \/ \A d \in DOMAIN st : \A s \in st[d] : DriverOf(s) = d
InStore(st) == IF st = NIL THEN {} ELSE UNION {st[d] : d \in DOMAIN st}

\* No load: the step "add" is what AddProjDbServer does after one.
NotLoading == [step |-> "idle", adding |-> {}, drivers |-> {}, unlisted |-> {}, unread |-> {},
               read |-> {}, failed |-> {}]
LoadRuns == loading.step \in {"drivers", "servers"}

MemoryInit ==
  /\ store \in {st \in StoreStates : WellPlaced(st)}
  /\ loading = NotLoading
  /\ list = NIL /\ objects = <<>> /\ added = <<>> /\ reported = FALSE
  /\ always = {} /\ ever = {} /\ changes = 0

\* Another program changes the directory.
StoreChanges ==
  /\ changes < MaxChanges
  /\ store' \in {st \in StoreStates : WellPlaced(st) /\ st # store}
  /\ always' = IF LoadRuns THEN always \cap InStore(store') ELSE always
  /\ ever' = IF LoadRuns THEN ever \cup InStore(store') ELSE ever
  /\ changes' = changes + 1
  /\ UNCHANGED <<loading, projectVars>>

-----------------------------------------------------------------------------
\* GetDBs and LoadProjDbDrivers.

LoadAlways == TRUE     \* Mutant: every call loads again
MustLoad == list = NIL

\* GetDBs, or GetProjDbServer through it (adding nothing), or AddProjDbServer, finds that it
\* has to load.  On a project that has its drivers the first two change nothing.
LoadBegins(adding) ==
  /\ loading.step = "idle" /\ MustLoad
  /\ loading' = [NotLoading EXCEPT !.step = "drivers", !.adding = adding]
  /\ always' = InStore(store) /\ ever' = InStore(store)
  /\ UNCHANGED <<store, projectVars, changes>>

\* What has been loaded is kept before the error is looked at.
Keep(l, os, err) ==
  /\ list' = l /\ objects' = os /\ reported' = err
  /\ loading' = IF err \/ loading.adding = {} THEN NotLoading
                ELSE [NotLoading EXCEPT !.step = "add", !.adding = loading.adding]
  /\ UNCHANGED added

\* The directory of drivers: one that is not there is no error, one that cannot be read is.
ListDrivers ==
  /\ loading.step = "drivers"
  /\ \/ Keep(NIL, <<>>, TRUE)
     \/ store = NIL /\ Keep(NIL, <<>>, FALSE)
     \/ /\ store # NIL
        /\ loading' = [loading EXCEPT !.step = "servers",
                                     !.drivers = DOMAIN store, !.unlisted = DOMAIN store]
        /\ UNCHANGED projectVars
  /\ UNCHANGED <<store, always, ever, changes>>

\* The directory of a driver, by its goroutine: the same, as it may have gone in between.
ServersIn(d) == {s \in InStore(store) : DriverOf(s) = d}
ListServers(d) ==
  /\ d \in loading.unlisted
  /\ \/ loading' = [loading EXCEPT !.unlisted = @ \ {d}, !.unread = @ \cup ServersIn(d)]
     \/ loading' = [loading EXCEPT !.unlisted = @ \ {d}, !.failed = @ \cup {d}]
  /\ UNCHANGED <<store, projectVars, always, ever, changes>>

\* Mutant: a file that cannot be opened or decoded is left out.
SkipServer(s) ==
  /\ s \in loading.unread
  /\ \/ s \in InStore(store) /\ loading' = [loading EXCEPT !.unread = @ \ {s}, !.read = @ \cup {s}]
     \/ loading' = [loading EXCEPT !.unread = @ \ {s}]
  /\ UNCHANGED <<store, projectVars, always, ever, changes>>
\* The file of a listed server: one that has gone is an error, too.
OpenServer(s) ==
  /\ s \in loading.unread
  /\ \/ s \in InStore(store) /\ loading' = [loading EXCEPT !.unread = @ \ {s}, !.read = @ \cup {s}]
     \/ loading' = [loading EXCEPT !.unread = @ \ {s}, !.failed = @ \cup {DriverOf(s)}]
  /\ UNCHANGED <<store, projectVars, always, ever, changes>>

\* All goroutines have left: a driver whose servers could not all be read has none.
ServersOf(d) == IF d \in loading.failed THEN {} ELSE {s \in loading.read : DriverOf(s) = d}
LoadEnds ==
  /\ loading.step = "servers" /\ loading.unlisted = {} /\ loading.unread = {}
  /\ LET ds == SetToSeq(loading.drivers)
     IN  Keep([i \in DOMAIN ds |-> i],
              [i \in DOMAIN ds |-> [driver |-> ds[i], servers |-> SetToSeq(ServersOf(ds[i]))]],
              loading.failed # {})
  /\ UNCHANGED <<store, always, ever, changes>>

-----------------------------------------------------------------------------
\* AddProjDbServer.

\* GetByID.
EntriesOf(d, l, os) == IF l = NIL THEN {} ELSE {i \in DOMAIN l : os[l[i]].driver = d}
FirstOf(is) == CHOOSE i \in is : \A j \in is : i <= j

\* A driver that is not there gets an object, and is appended twice.
AddToNew(l, os, s) ==
  LET o == Len(os) + 1
  IN  [list |-> (IF l = NIL THEN <<>> ELSE l) \o <<o, o>>,
       objects |-> Append(os, [driver |-> DriverOf(s), servers |-> <<s>>])]
\* The entry of one that is there is appended a second time.
AddTo(l, os, s) ==
  LET found == EntriesOf(DriverOf(s), l, os)
  IN  IF found = {} THEN AddToNew(l, os, s)
      ELSE LET o == l[FirstOf(found)]
           IN  [list |-> Append(l, o), objects |-> [os EXCEPT ![o].servers = Append(@, s)]]

Adds(s) ==
  LET new == AddTo(list, objects, s)
  IN  /\ list' = new.list /\ objects' = new.objects
      /\ added' = Append(added, s)
      /\ UNCHANGED <<reported, store, always, ever, changes>>

AddProjDbServer(s) ==
  \/ /\ Len(added) < MaxAdded
     /\ \/ LoadBegins({s})
        \/ loading.step = "idle" /\ ~MustLoad /\ Adds(s) /\ UNCHANGED loading
  \/ loading.step = "add" /\ s \in loading.adding /\ Adds(s) /\ loading' = NotLoading

MemoryNext ==
  \/ StoreChanges
  \/ LoadBegins({}) \/ ListDrivers \/ (\E d \in Drivers : ListServers(d))
  \/ (\E s \in Servers : OpenServer(s)) \/ LoadEnds
  \/ \E s \in Servers : AddProjDbServer(s)

\* GetProjDbServer once the drivers are in memory: the first entry of the driver decides.
Found(s) ==
  LET entries == EntriesOf(DriverOf(s), list, objects)
  IN  entries # {} /\ s \in ToSet(objects[list[FirstOf(entries)]].servers)

-----------------------------------------------------------------------------
(* Properties. *)

(* When the load has returned no error, the project holds every server     *)
(* that was in the store all through the load and whatever has been added  *)
(* since, and nothing that was not in the store at some time of the load   *)
(* or added.  Servers that others change meanwhile may be there or not,    *)
(* also together when they never were in the store together.  A load that  *)
(* failed in part is kept, too, and less is said of it.                    *)
LoadedPlusAdded ==
  list # NIL /\ ~reported =>
    LET found == {s \in Servers : Found(s)}
    IN  /\ always \cup ToSet(added) \subseteq found
        /\ found \subseteq ever \cup ToSet(added)

(* A server whose AddProjDbServer has returned nil is found by             *)
(* GetProjDbServer from then on, after a load that reported an error too,  *)
(* and although the list holds an entry of its driver once per addition.   *)
AddedIsFound == \A s \in ToSet(added) : Found(s)
=============================================================================
