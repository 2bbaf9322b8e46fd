--------------------------- MODULE ProjectLife_proofs ---------------------------
(***************************************************************************)
(* Proofs about a project's life: what the callers of CreateProjectFiles   *)
(* see is true, comes in order and keeps the contract of parallel.Run; a   *)
(* server that was added to the project in memory is found, for any        *)
(* drivers and servers and any behaviour of the store's other users; and a *)
(* project that is loaded is what the saves have made of it, for any       *)
(* projects, callers and contents of the disk.                             *)
(***************************************************************************)
EXTENDS ProjectLife, ProjectStore, FiniteSetTheorems, TLAPS

Working == {"started", "marshal", "mkdir", "create", "copy"}
Leaving == {"leaving", "done"}

CreatorTypeOK ==
  /\ at \in [Workers -> Working \cup Leaving \cup {"failed", "reportFailure", "report"}]
  /\ files \in [Workers -> {"before", "empty", "written"}]
  /\ shown \in [Workers -> {"none", "...", "failed", "Done"}]
  /\ outcome \in [Workers -> {"pending", "ok", "err"}]
  /\ errs \in Seq(Workers)
  /\ result \in [returned : BOOLEAN, failed : Nat, first : Workers \cup {NoWorker}]

\* Where a goroutine is tells what its function has returned, and what has been shown.
AtTellsOutcome ==
  \A w \in Workers :
    /\ at[w] \in Working <=> outcome[w] = "pending"
    /\ at[w] \in {"failed", "reportFailure"} => outcome[w] = "err"
    /\ at[w] = "report" => outcome[w] = "ok"
    /\ outcome[w] = "ok" => files[w] = "written"
AtTellsShown ==
  \A w \in Workers :
    /\ at[w] = "started" => shown[w] = "none"
    /\ at[w] \notin Leaving \cup {"started"} => shown[w] = "..."
    /\ at[w] \in Leaving => shown[w] = IF outcome[w] = "ok" THEN "Done" ELSE "failed"

\* The goroutines that have been through the mutex, each of which has left its error once.
Recorded == {w \in Workers : outcome[w] = "err" /\ at[w] # "failed"}
ElementsOf(s) == {s[i] : i \in DOMAIN s}
ErrorsRecorded == ElementsOf(errs) = Recorded /\ Len(errs) = Cardinality(Recorded)

ReturnsLast ==
  /\ ~result.returned => result = [returned |-> FALSE, failed |-> 0, first |-> NoWorker]
  /\ result.returned => AllLeft /\ result.failed = Len(errs)

CreatorInv == CreatorTypeOK /\ AtTellsOutcome /\ AtTellsShown /\ ErrorsRecorded /\ ReturnsLast

-----------------------------------------------------------------------------
LEMMA CreatorInitInv == CreatorInit => CreatorInv
<1> SUFFICES ASSUME CreatorInit PROVE CreatorInv
  OBVIOUS
<1> USE DEF CreatorInit
<1>1. CreatorTypeOK /\ AtTellsOutcome /\ AtTellsShown /\ ReturnsLast
  BY DEF CreatorTypeOK, AtTellsOutcome, AtTellsShown, ReturnsLast, Working, Leaving, NoWorker
<1>2. Recorded = {} /\ ElementsOf(errs) = {} /\ Len(errs) = 0
  BY DEF Recorded, ElementsOf
<1> QED BY <1>1, <1>2, FS_EmptySet DEF CreatorInv, ErrorsRecorded

\* A step of a goroutine that leaves errs and the set of those recorded there alone.
LEMMA KeepsErrors ==
  ASSUME ErrorsRecorded, UNCHANGED errs, Recorded' = Recorded
  PROVE  ErrorsRecorded'
BY DEF ErrorsRecorded, ElementsOf

LEMMA ReportStartStep ==
  ASSUME NEW w \in Workers, CreatorInv, ReportStart(w)
  PROVE  CreatorInv'
<1> USE DEF CreatorInv, CreatorTypeOK, ReportStart, Goes, Shows
<1>1. CreatorTypeOK' /\ AtTellsOutcome' /\ AtTellsShown' /\ ReturnsLast'
  BY DEF AtTellsOutcome, AtTellsShown, ReturnsLast, AllLeft, Working, Leaving
<1>2. Recorded' = Recorded
  BY DEF Recorded
<1> QED BY <1>1, <1>2, KeepsErrors

LEMMA AdvanceStep ==
  ASSUME NEW w \in Workers, CreatorInv, Advance(w)
  PROVE  CreatorInv'
<1> USE DEF CreatorInv, CreatorTypeOK, Advance, Goes, Shows, StepAfter
<1>1. CreatorTypeOK' /\ AtTellsOutcome' /\ AtTellsShown' /\ ReturnsLast'
  BY DEF AtTellsOutcome, AtTellsShown, ReturnsLast, AllLeft, Working, Leaving
<1>2. Recorded' = Recorded
  BY DEF Recorded, AtTellsOutcome, Working
<1> QED BY <1>1, <1>2, KeepsErrors

LEMMA CopyStep ==
  ASSUME NEW w \in Workers, CreatorInv, Copy(w)
  PROVE  CreatorInv'
<1> USE DEF CreatorInv, CreatorTypeOK, Copy, Goes, Shows
<1>1. CreatorTypeOK' /\ AtTellsOutcome' /\ AtTellsShown' /\ ReturnsLast'
  BY DEF AtTellsOutcome, AtTellsShown, ReturnsLast, AllLeft, Working, Leaving
<1>2. Recorded' = Recorded
  BY DEF Recorded, AtTellsOutcome, Working
<1> QED BY <1>1, <1>2, KeepsErrors

LEMMA StepFailsStep ==
  ASSUME NEW w \in Workers, CreatorInv, StepFails(w)
  PROVE  CreatorInv'
<1> USE DEF CreatorInv, CreatorTypeOK, StepFails, Goes, Shows, StepAfter
<1>1. CreatorTypeOK' /\ AtTellsOutcome' /\ AtTellsShown' /\ ReturnsLast'
  BY DEF AtTellsOutcome, AtTellsShown, ReturnsLast, AllLeft, Working, Leaving
<1>2. Recorded' = Recorded
  BY DEF Recorded, AtTellsOutcome, Working
<1> QED BY <1>1, <1>2, KeepsErrors

LEMMA ReportFailureStep ==
  ASSUME NEW w \in Workers, CreatorInv, ReportFailure(w)
  PROVE  CreatorInv'
<1> USE DEF CreatorInv, CreatorTypeOK, ReportFailure, Goes, Shows
<1>1. CreatorTypeOK' /\ AtTellsOutcome' /\ AtTellsShown' /\ ReturnsLast'
  BY DEF AtTellsOutcome, AtTellsShown, ReturnsLast, AllLeft, Working, Leaving
<1>2. Recorded' = Recorded
  BY DEF Recorded, AtTellsOutcome, Working
<1> QED BY <1>1, <1>2, KeepsErrors

LEMMA ReportDoneStep ==
  ASSUME NEW w \in Workers, CreatorInv, ReportDone(w)
  PROVE  CreatorInv'
<1> USE DEF CreatorInv, CreatorTypeOK, ReportDone, Goes, Shows
<1>1. CreatorTypeOK' /\ AtTellsOutcome' /\ AtTellsShown' /\ ReturnsLast'
  BY DEF AtTellsOutcome, AtTellsShown, ReturnsLast, AllLeft, Working, Leaving
<1>2. Recorded' = Recorded
  BY DEF Recorded, AtTellsOutcome, Working
<1> QED BY <1>1, <1>2, KeepsErrors

LEMMA DoneStep ==
  ASSUME NEW w \in Workers, CreatorInv, Done(w)
  PROVE  CreatorInv'
<1> USE DEF CreatorInv, CreatorTypeOK, Done, Goes, Shows
<1>1. CreatorTypeOK' /\ AtTellsOutcome' /\ AtTellsShown' /\ ReturnsLast'
  BY DEF AtTellsOutcome, AtTellsShown, ReturnsLast, AllLeft, Working, Leaving
<1>2. Recorded' = Recorded
  BY DEF Recorded, AtTellsOutcome, Working
<1> QED BY <1>1, <1>2, KeepsErrors

LEMMA WorkersFinite == IsFiniteSet(Workers) /\ Cardinality(Workers) = 3
<1>1. 1 \in Int /\ 3 \in Int
  OBVIOUS
<1>2. IsFiniteSet(1..3) /\ Cardinality(1..3) = IF 1 > 3 THEN 0 ELSE 3 - 1 + 1
  BY <1>1, FS_Interval
<1> QED BY <1>2 DEF Workers

LEMMA ElementsOfAppend ==
  ASSUME NEW s \in Seq(Workers), NEW w \in Workers
  PROVE  ElementsOf(Append(s, w)) = ElementsOf(s) \cup {w} /\ Len(Append(s, w)) = Len(s) + 1
<1>1. /\ Len(Append(s, w)) = Len(s) + 1 /\ Len(s) \in Nat
      /\ DOMAIN s = 1..Len(s) /\ DOMAIN Append(s, w) = 1..(Len(s) + 1)
      /\ \A i \in 1..Len(s) : Append(s, w)[i] = s[i]
      /\ Append(s, w)[Len(s) + 1] = w
  OBVIOUS
<1>2. 1..(Len(s) + 1) = (1..Len(s)) \cup {Len(s) + 1}
  BY <1>1
<1> QED BY <1>1, <1>2 DEF ElementsOf

LEMMA AppendErrorStep ==
  ASSUME NEW w \in Workers, CreatorInv, AppendError(w)
  PROVE  CreatorInv'
<1> USE DEF CreatorInv, CreatorTypeOK, AppendError, Goes
<1>1. CreatorTypeOK' /\ AtTellsOutcome' /\ AtTellsShown' /\ ReturnsLast'
  BY DEF AtTellsOutcome, AtTellsShown, ReturnsLast, AllLeft, Working, Leaving
<1>2. Recorded' = Recorded \cup {w} /\ w \notin Recorded /\ Recorded \subseteq Workers
  BY DEF Recorded, AtTellsOutcome
<1>3. IsFiniteSet(Recorded)
  BY <1>2, WorkersFinite, FS_Subset
<1>4. Cardinality(Recorded') = Cardinality(Recorded) + 1
  BY <1>2, <1>3, FS_AddElement
<1>5. ElementsOf(errs') = ElementsOf(errs) \cup {w} /\ Len(errs') = Len(errs) + 1
  BY ElementsOfAppend
<1> QED BY <1>1, <1>2, <1>4, <1>5 DEF ErrorsRecorded

LEMMA ReturnStep ==
  ASSUME CreatorInv, ReturnToCaller
  PROVE  CreatorInv'
<1> USE DEF CreatorInv, CreatorTypeOK, ReturnToCaller
<1>1. CreatorTypeOK'
  <2>1. errs # <<>> => errs[1] \in Workers
    OBVIOUS
  <2> QED BY <2>1 DEF NoWorker
<1>2. AtTellsOutcome' /\ AtTellsShown' /\ ReturnsLast'
  BY DEF AtTellsOutcome, AtTellsShown, ReturnsLast, AllLeft
<1>3. Recorded' = Recorded
  BY DEF Recorded
<1> QED BY <1>1, <1>2, <1>3, KeepsErrors

LEMMA CreatorInvIsInductive == CreatorInv /\ [Next]_vars => CreatorInv'
<1> SUFFICES ASSUME CreatorInv, [Next]_vars PROVE CreatorInv'
  OBVIOUS
<1>1. ASSUME NEW w \in Workers, Goroutine(w) PROVE CreatorInv'
  BY <1>1, ReportStartStep, AdvanceStep, CopyStep, StepFailsStep, AppendErrorStep,
     ReportFailureStep, ReportDoneStep, DoneStep DEF Goroutine
<1>2. CASE ReturnToCaller
  BY <1>2, ReturnStep
<1>3. CASE UNCHANGED creatorVars
  <2>1. Recorded' = Recorded /\ UNCHANGED errs
    BY <1>3 DEF Recorded, creatorVars
  <2>2. ErrorsRecorded'
    BY <2>1, KeepsErrors DEF CreatorInv
  <2> QED BY <1>3, <2>2 DEF creatorVars, CreatorInv, CreatorTypeOK, AtTellsOutcome, AtTellsShown,
         ReturnsLast, AllLeft
<1> QED BY <1>1, <1>2, <1>3 DEF Next, Creates, Uses, CreatorNext, vars

\* CreateProjectFiles keeps the invariant of its three goroutines: their places tell what
\* they have returned and shown, and the error slice names those that have failed.
THEOREM CreatorInvariance == Spec => []CreatorInv
<1>1. Init => CreatorInv
  BY CreatorInitInv DEF Init
<1> QED BY <1>1, CreatorInvIsInductive, PTL DEF Spec

\* Whoever watches the statuses of CreateProjectFiles is told the truth, and a call that
\* returns nil has written all of its files.
THEOREM WatchersAreToldTheTruth == Spec => []StatusesAreTrue
<1>1. CreatorInv => StatusesAreTrue
  <2> SUFFICES ASSUME CreatorInv PROVE StatusesAreTrue
    OBVIOUS
  <2> USE DEF CreatorInv
  <2>1. ASSUME NEW w \in Workers, shown[w] = "Done" PROVE files[w] = "written" /\ outcome[w] = "ok"
    BY <2>1 DEF CreatorTypeOK, AtTellsShown, AtTellsOutcome
  <2>2. ASSUME NEW w \in Workers, shown[w] = "failed" PROVE \E i \in DOMAIN errs : errs[i] = w
    <3>1. at[w] \in Leaving /\ outcome[w] = "err"
      BY <2>2 DEF CreatorTypeOK, AtTellsShown, AtTellsOutcome, Working, Leaving
    <3>2. w \in ElementsOf(errs)
      BY <3>1 DEF Recorded, ErrorsRecorded, Leaving
    <3> QED BY <3>2 DEF ElementsOf
  <2>3. ASSUME result.returned, result.failed = 0, NEW w \in Workers PROVE files[w] = "written"
    <3>1. Len(errs) = 0 /\ at[w] = "done"
      BY <2>3 DEF ReturnsLast, AllLeft
    <3>2. Recorded = {}
      BY <3>1 DEF ErrorsRecorded, ElementsOf, CreatorTypeOK
    <3>3. outcome[w] = "ok"
      BY <3>1, <3>2 DEF Recorded, CreatorTypeOK, AtTellsOutcome, Working
    <3> QED BY <3>3 DEF AtTellsOutcome
  <2> QED BY <2>1, <2>2, <2>3 DEF StatusesAreTrue
<1> QED BY <1>1, CreatorInvariance, PTL

\* Nothing is shown after the call has returned, and no file gets a second last word.
THEOREM NoSecondLastWord == Spec => LastWordFirst
<1>1. CreatorInv /\ [Next]_vars =>
        [\A w \in Workers : shown'[w] # shown[w] =>
           ~result.returned /\ shown[w] \in {"none", "..."}]_creatorVars
  <2> SUFFICES ASSUME CreatorInv, [Next]_vars, NEW w \in Workers, shown'[w] # shown[w]
               PROVE  ~result.returned /\ shown[w] \in {"none", "..."}
    OBVIOUS
  <2> USE DEF CreatorInv
  <2>1. PICK v \in Workers : ReportStart(v) \/ ReportFailure(v) \/ ReportDone(v)
    BY DEF Next, Creates, Uses, CreatorNext, Goroutine, ReturnToCaller, Advance, Copy, StepFails,
           AppendError, Done, vars, creatorVars
  <2>2. v = w
    BY <2>1 DEF ReportStart, ReportFailure, ReportDone, Shows, CreatorTypeOK
  <2>3. at[w] \in {"started", "reportFailure", "report"}
    BY <2>1, <2>2 DEF ReportStart, ReportFailure, ReportDone
  <2> QED BY <2>3 DEF AtTellsShown, ReturnsLast, AllLeft, Leaving
<1> QED BY <1>1, CreatorInvariance, PTL DEF Spec, LastWordFirst

-----------------------------------------------------------------------------
LEMMA ThreeWorkers == Contract!Workers = Workers
<1>1. Cardinality(Workers) = 3
  BY WorkersFinite
<1>2. Contract!Cardinality(Workers) = Cardinality(Workers)
  BY DEF Cardinality, Contract!Cardinality
<1> QED BY <1>1, <1>2 DEF Contract!Workers, Workers

LEMMA ReturnKeepsContract ==
  ASSUME CreatorInv, ReturnToCaller
  PROVE  Contract!ReturnToCaller
<1> USE DEF CreatorInv, ReturnToCaller, AllLeft
<1>1. \A w \in Workers : at[w] = "done" /\ outcome[w] # "pending"
  BY DEF AtTellsOutcome, Working
<1>2. Contract!Failed = Recorded
  BY <1>1, ThreeWorkers DEF Contract!Failed, Recorded
<1>3. Len(errs) = Cardinality(Contract!Failed) /\ ElementsOf(errs) = Contract!Failed
  BY <1>2 DEF ErrorsRecorded
<1>4. errs = <<>> => Contract!Failed = {}
  BY <1>3 DEF ElementsOf
<1>5. errs # <<>> => errs[1] \in Contract!Failed
  <2> SUFFICES ASSUME errs # <<>> PROVE errs[1] \in ElementsOf(errs)
    BY <1>3
  <2>1. 1 \in DOMAIN errs
    BY DEF CreatorTypeOK
  <2> QED BY <2>1 DEF ElementsOf
<1>6. (IF errs = <<>> THEN NoWorker ELSE errs[1])
         \in IF Contract!Failed = {} THEN {Contract!NoWorker} ELSE Contract!Failed
  BY <1>4, <1>5 DEF NoWorker, Contract!NoWorker
<1>7. Contract!Cardinality(Contract!Failed) = Cardinality(Contract!Failed)
  BY DEF Cardinality, Contract!Cardinality
<1> QED BY <1>1, <1>3, <1>6, <1>7, ThreeWorkers DEF Contract!ReturnToCaller

LEMMA FinishKeepsContract ==
  ASSUME CreatorInv, NEW w \in Workers, Copy(w) \/ StepFails(w)
  PROVE  Contract!Finish(w)
<1> USE DEF CreatorInv
<1>1. outcome[w] = "pending"
  BY DEF Copy, StepFails, StepAfter, AtTellsOutcome, Working
<1>2. ~result.returned
  BY <1>1 DEF ReturnsLast, AllLeft, AtTellsOutcome, Working
<1> QED BY <1>1, <1>2 DEF Copy, StepFails, Contract!Finish

LEMMA StepsKeepContract ==
  ASSUME CreatorInv, [Next]_vars
  PROVE  [Contract!ContractNext]_(Contract!contractVars)
<1> USE DEF Contract!ContractNext, Contract!contractVars
<1>1. CASE ReturnToCaller
  BY <1>1, ReturnKeepsContract
<1>2. ASSUME NEW w \in Workers, Copy(w) \/ StepFails(w)
      PROVE  [Contract!ContractNext]_(Contract!contractVars)
  BY <1>2, FinishKeepsContract, ThreeWorkers
<1>3. ASSUME NEW w \in Workers, Goroutine(w), ~(Copy(w) \/ StepFails(w))
      PROVE  [Contract!ContractNext]_(Contract!contractVars)
  BY <1>3 DEF Goroutine, ReportStart, Advance, AppendError, ReportFailure, ReportDone, Done
<1>4. CASE UNCHANGED creatorVars
  BY <1>4 DEF creatorVars
<1> QED BY <1>1, <1>2, <1>3, <1>4 DEF Next, Creates, Uses, CreatorNext, vars

\* CreateProjectFiles has a runner of its own, and it keeps the contract of
\* parallel.Run: it returns once, after all workers, with the number of their errors
\* and the first of them.  (That it does return is left to the model checker.)
THEOREM CreatorImplementsContract == Spec => Contract!ContractSafety
<1>1. Init => Contract!ContractInit
  BY ThreeWorkers DEF Init, CreatorInit, Contract!ContractInit, Contract!Running, Contract!NoWorker,
     NoWorker
<1>2. CreatorInv /\ [Next]_vars => [Contract!ContractNext]_(Contract!contractVars)
  BY StepsKeepContract
<1> QED BY <1>1, <1>2, CreatorInvariance, PTL DEF Spec, Contract!ContractSafety

-----------------------------------------------------------------------------
\* The project in memory.

AnyDriver == Drivers \cup {DriverOf(s) : s \in Servers}
Objects == [driver : AnyDriver, servers : Seq(Servers)]
Lists == {NIL} \cup Seq(Nat)

\* The entries of a list point to objects.
Linked(l, os) == l # NIL => \A i \in DOMAIN l : l[i] \in DOMAIN os

\* Among the entries of a driver there is a first one.
HasFirst(is) == \E i \in is : \A j \in is : i <= j
FirstExists(l, os) ==
  \A t \in Servers : LET entries == EntriesOf(DriverOf(t), l, os)
                     IN  entries # {} => HasFirst(entries)

\* What is found in a list: Found in that of the project.
FoundIn(t, l, os) ==
  LET entries == EntriesOf(DriverOf(t), l, os)
  IN  entries # {} /\ t \in ToSet(os[l[FirstOf(entries)]].servers)

Sound(l, os) == l \in Lists /\ os \in Seq(Objects) /\ Linked(l, os) /\ FirstExists(l, os)

\* A load: what its goroutines work on, and no goroutine before or after it.
LoadTyped ==
  /\ loading \in [step : {"idle", "drivers", "servers", "add"}, adding : SUBSET Servers,
                  drivers : SUBSET Drivers, unlisted : SUBSET Drivers, unread : SUBSET Servers,
                  read : SUBSET Servers, failed : SUBSET AnyDriver]
  /\ always \subseteq Servers
  /\ loading.step # "servers" => loading.unlisted = {} /\ loading.unread = {} /\ loading.read = {}

\* A server that has been in the store since the load began is on its way to be read, unless the
\* load will report an error; and what has been read was in the store during the load.
OnTheWay ==
  \A s \in always : /\ DriverOf(s) \in loading.drivers
                    /\ \/ DriverOf(s) \in loading.unlisted \cup loading.failed
                       \/ s \in loading.unread \cup loading.read
LoadInv ==
  /\ LoadTyped
  /\ LoadRuns => list = NIL /\ always \subseteq InStore(store) /\ InStore(store) \subseteq ever
  /\ loading.step = "servers" => OnTheWay /\ loading.read \subseteq ever
  /\ loading.step = "add" /\ list = NIL => always = {}

MemoryInv ==
  /\ store \in StoreStates /\ WellPlaced(store)
  /\ Sound(list, objects)
  /\ added \in Seq(Servers) /\ (list = NIL => added = <<>>)
  /\ LoadInv
  /\ AddedIsFound
  /\ LoadedPlusAdded

\* SetToSeq lists every element of a finite set, once.
LEMMA SetToSeqLists ==
  ASSUME NEW S, IsFiniteSet(S)
  PROVE  SetToSeq(S) \in Seq(S) /\ ToSet(SetToSeq(S)) = S /\ IsInjective(SetToSeq(S))
<1> DEFINE n == Cardinality(S)
<1>1. n \in Nat /\ ExistsBijection(1..n, S)
  BY FS_CardinalityType
<1>2. PICK g \in Bijection(1..n, S) : TRUE
  BY <1>1 DEF ExistsBijection
<1>3. g \in [1..n -> S] /\ IsInjective(g)
  BY <1>2 DEF Bijection, Injection
<1>4. SetToSeq(S) \in [1..n -> S] /\ IsInjective(SetToSeq(S))
  BY <1>3 DEF SetToSeq
<1>5. SetToSeq(S) \in Injection(1..n, S)
  BY <1>4 DEF Injection
<1>6. IsFiniteSet(1..n) /\ Cardinality(1..n) = n
  <2> HIDE DEF n
  <2>1. 1 \in Int /\ n \in Int /\ n >= 0
    BY <1>1
  <2> QED BY <2>1, FS_Interval
<1>7. SetToSeq(S) \in Surjection(1..n, S)
  <2>1. IsFiniteSet(S) /\ Cardinality(1..n) = Cardinality(S)
    BY <1>6
  <2> QED BY <1>5, <2>1, FS_Injection
<1> QED BY <1>1, <1>4, <1>7 DEF Surjection, ToSet

\* The first of the entries is the least of them.
LEMMA FirstIsLeast ==
  ASSUME NEW is, HasFirst(is)
  PROVE  FirstOf(is) \in is /\ \A j \in is : FirstOf(is) <= j
BY DEF HasFirst, FirstOf

LEMMA FirstIsUnique ==
  ASSUME NEW is \in SUBSET Nat, NEW i \in is, \A j \in is : i <= j
  PROVE  FirstOf(is) = i
<1>1. HasFirst(is)
  BY DEF HasFirst
<1>2. FirstOf(is) \in is /\ \A j \in is : FirstOf(is) <= j
  BY <1>1, FirstIsLeast
<1>3. FirstOf(is) \in Nat /\ i \in Nat
  BY <1>2
<1>4. FirstOf(is) <= i /\ i <= FirstOf(is)
  BY <1>2
<1> QED BY <1>3, <1>4

LEMMA ToSetOfAppend ==
  ASSUME NEW S, NEW q \in Seq(S), NEW x \in S
  PROVE  Append(q, x) \in Seq(S) /\ ToSet(Append(q, x)) = ToSet(q) \cup {x}
<1>1. /\ Len(Append(q, x)) = Len(q) + 1 /\ Len(q) \in Nat
      /\ DOMAIN q = 1..Len(q) /\ DOMAIN Append(q, x) = 1..(Len(q) + 1)
      /\ \A i \in 1..Len(q) : Append(q, x)[i] = q[i]
      /\ Append(q, x)[Len(q) + 1] = x
  OBVIOUS
<1>2. 1..(Len(q) + 1) = (1..Len(q)) \cup {Len(q) + 1}
  BY <1>1
<1> QED BY <1>1, <1>2 DEF ToSet

LEMMA ElementsOfSeq ==
  ASSUME NEW S, NEW q \in Seq(S), NEW i \in DOMAIN q
  PROVE  q[i] \in S
OBVIOUS

LEMMA ReplacedInSeq ==
  ASSUME NEW S, NEW q \in Seq(S), NEW i \in DOMAIN q, NEW x \in S
  PROVE  [q EXCEPT ![i] = x] \in Seq(S)
OBVIOUS

LEMMA AddServerToObject ==
  ASSUME NEW ob \in Objects, NEW s \in Servers, NEW new, new = [ob EXCEPT !.servers = Append(@, s)]
  PROVE  /\ new \in Objects /\ new.driver = ob.driver
         /\ ToSet(new.servers) = ToSet(ob.servers) \cup {s}
<1>1. ob.servers \in Seq(Servers) /\ new.servers = Append(ob.servers, s) /\ new.driver = ob.driver
  BY DEF Objects
<1>2. Append(ob.servers, s) \in Seq(Servers) /\ ToSet(new.servers) = ToSet(ob.servers) \cup {s}
  BY <1>1, ToSetOfAppend
<1> QED BY <1>1, <1>2 DEF Objects

-----------------------------------------------------------------------------
\* AddProjDbServer, for a driver that is there: its first entry still is the first,
\* and the object it points to has one server more.
LEMMA AddToKnownDriver ==
  ASSUME NEW l, NEW os, Sound(l, os), NEW s \in Servers, EntriesOf(DriverOf(s), l, os) # {}
  PROVE  LET new == AddTo(l, os, s)
         IN  /\ Sound(new.list, new.objects) /\ new.list # NIL
             /\ \A t \in Servers :
                  FoundIn(t, new.list, new.objects) <=> (t = s \/ FoundIn(t, l, os))
<1> DEFINE o == l[FirstOf(EntriesOf(DriverOf(s), l, os))]
           new == AddTo(l, os, s)
           l2 == new.list
           os2 == new.objects
<1>0. /\ l2 = Append(l, o) /\ os2 = [os EXCEPT ![o].servers = Append(@, s)]
      /\ o = l[FirstOf(EntriesOf(DriverOf(s), l, os))]
      /\ l # NIL /\ l \in Seq(Nat) /\ os \in Seq(Objects)
      /\ Sound(l, os) /\ EntriesOf(DriverOf(s), l, os) # {}
  <2>1. l # NIL
    BY DEF EntriesOf
  <2> QED BY <2>1 DEF AddTo, Sound, Lists
<1> HIDE DEF o, l2, os2, new
<1> DEFINE E(t) == EntriesOf(DriverOf(t), l, os)
           E2(t) == EntriesOf(DriverOf(t), l2, os2)
           first == FirstOf(E(s))
<1>1. \A t \in Servers : E(t) = {i \in DOMAIN l : os[l[i]].driver = DriverOf(t)}
  BY <1>0 DEF EntriesOf
<1>2. first \in DOMAIN l /\ os[o].driver = DriverOf(s) /\ o \in DOMAIN os
  <2>1. HasFirst(E(s))
    BY <1>0 DEF Sound, FirstExists
  <2>2. first \in E(s)
    BY <2>1, FirstIsLeast
  <2> QED BY <1>0, <1>1, <2>2 DEF Sound, Linked
<1>3. o \in Nat /\ Len(l) \in Nat /\ DOMAIN l = 1..Len(l)
  BY <1>0, <1>2 DEF Sound, Linked
<1>4. /\ l2 \in Seq(Nat) /\ DOMAIN l2 = DOMAIN l \cup {Len(l) + 1}
      /\ \A i \in DOMAIN l : l2[i] = l[i]
      /\ l2[Len(l) + 1] = o
  BY <1>0, <1>3
<1>5. os[o] \in Objects
  BY <1>0, <1>2, ElementsOfSeq
<1>6. /\ os2[o] \in Objects /\ os2[o].driver = os[o].driver
      /\ ToSet(os2[o].servers) = ToSet(os[o].servers) \cup {s}
      /\ os2 = [os EXCEPT ![o] = os2[o]]
  <2>1. os2[o] = [os[o] EXCEPT !.servers = Append(@, s)]
    BY <1>0, <1>2
  <2>2. os2 = [os EXCEPT ![o] = os2[o]]
    BY <1>0, <1>2
  <2> HIDE DEF E, E2, first
  <2>3. /\ os2[o] \in Objects /\ os2[o].driver = os[o].driver
        /\ ToSet(os2[o].servers) = ToSet(os[o].servers) \cup {s}
    BY <1>5, <2>1, AddServerToObject, Zenon
  <2> QED BY <2>2, <2>3
<1>7. /\ DOMAIN os2 = DOMAIN os
      /\ \A i \in DOMAIN os : i # o => os2[i] = os[i]
  BY <1>0, <1>2
<1>8. os2 \in Seq(Objects)
  BY <1>0, <1>2, <1>6, ReplacedInSeq
<1>9. \A i \in DOMAIN os : os2[i].driver = os[i].driver
  BY <1>6, <1>7
<1>10. l2 # NIL
  BY <1>4, NILAssumption
<1>11. ASSUME NEW t \in Servers
       PROVE  E2(t) = IF DriverOf(t) = DriverOf(s) THEN E(t) \cup {Len(l) + 1} ELSE E(t)
  <2>1. E2(t) = {i \in DOMAIN l2 : os2[l2[i]].driver = DriverOf(t)}
    BY <1>10 DEF EntriesOf
  <2>2. \A i \in DOMAIN l : l[i] \in DOMAIN os
    BY <1>0 DEF Sound, Linked
  <2>3. \A i \in DOMAIN l : os2[l2[i]].driver = os[l[i]].driver
    BY <2>2, <1>4, <1>9
  <2>4. os2[l2[Len(l) + 1]].driver = DriverOf(s)
    BY <1>2, <1>4, <1>6
  <2>5. E(t) = {i \in DOMAIN l : os[l[i]].driver = DriverOf(t)}
    BY <1>1
  <2> HIDE DEF E, E2
  <2> QED BY <1>4, <2>1, <2>3, <2>4, <2>5
<1>12. ASSUME NEW t \in Servers, E(t) # {}
       PROVE  FirstOf(E(t)) \in E(t) /\ HasFirst(E2(t)) /\ FirstOf(E2(t)) = FirstOf(E(t))
  <2>1. HasFirst(E(t))
    BY <1>0, <1>12 DEF Sound, FirstExists
  <2>2. FirstOf(E(t)) \in E(t) /\ \A j \in E(t) : FirstOf(E(t)) <= j
    BY <2>1, FirstIsLeast
  <2>3. E(t) \subseteq 1..Len(l)
    BY <1>1, <1>3
  <2>4. FirstOf(E(t)) \in E2(t) /\ (\A j \in E2(t) : FirstOf(E(t)) <= j) /\ E2(t) \in SUBSET Nat
    <3>1. E2(t) \subseteq E(t) \cup {Len(l) + 1} /\ E(t) \subseteq E2(t)
      BY <1>11
    <3>2. FirstOf(E(t)) \in 1..Len(l) /\ FirstOf(E(t)) <= Len(l) + 1
      BY <1>3, <2>2, <2>3
    <3>3. \A j \in E2(t) : FirstOf(E(t)) <= j
      BY <3>1, <3>2, <2>2
    <3>4. Len(l) + 1 \in Nat /\ 1..Len(l) \subseteq Nat
      BY <1>3
    <3> HIDE DEF E, E2
    <3> QED BY <2>2, <2>3, <3>1, <3>3, <3>4
  <2> QED BY <2>2, <2>4, FirstIsUnique DEF HasFirst
<1>13. Linked(l2, os2)
  <2>1. \A i \in DOMAIN l : l[i] \in DOMAIN os
    BY <1>0 DEF Sound, Linked
  <2> QED BY <2>1, <1>2, <1>4, <1>7 DEF Linked
<1>14. FirstExists(l2, os2)
  <2> SUFFICES ASSUME NEW t \in Servers, E2(t) # {} PROVE HasFirst(E2(t))
    BY DEF FirstExists
  <2>1. E(t) # {}
    BY <1>0, <1>11
  <2> QED BY <2>1, <1>12
<1>15. ASSUME NEW t \in Servers
       PROVE  FoundIn(t, l2, os2) <=> (t = s \/ FoundIn(t, l, os))
  <2>1. CASE E(t) = {}
    <3>1. E2(t) = {}
      BY <1>0, <2>1, <1>11
    <3>2. t # s
      BY <1>0, <2>1
    <3> QED BY <2>1, <3>1, <3>2 DEF FoundIn
  <2>2. CASE E(t) # {}
    <3> DEFINE i == FirstOf(E(t))
    <3>1. E2(t) # {} /\ FirstOf(E2(t)) = i /\ i \in E(t) /\ i \in DOMAIN l
      BY <2>2, <1>1, <1>12 DEF HasFirst
    <3>2. l[i] \in DOMAIN os /\ l2[i] = l[i] /\ os[l[i]].driver = DriverOf(t)
      BY <1>0, <3>1, <1>1, <1>4 DEF Sound, Linked
    <3>3. FoundIn(t, l2, os2) <=> t \in ToSet(os2[l[i]].servers)
      BY <3>1, <3>2 DEF FoundIn
    <3>4. FoundIn(t, l, os) <=> t \in ToSet(os[l[i]].servers)
      BY <2>2 DEF FoundIn
    <3> HIDE DEF i
    <3>5. CASE l[i] = o
      <4>1. ToSet(os2[o].servers) = ToSet(os[o].servers) \cup {s}
        BY <1>6
      <4> QED BY <3>3, <3>4, <3>5, <4>1
    <3>6. CASE l[i] # o
      <4>1. t # s
        BY <1>0, <3>6 DEF i
      <4> QED BY <3>2, <3>3, <3>4, <3>6, <4>1, <1>7
    <3> QED BY <3>5, <3>6
  <2> QED BY <2>1, <2>2
<1> QED BY <1>0, <1>4, <1>8, <1>10, <1>13, <1>14, <1>15 DEF Sound, Lists, l2, os2, new

\* AddProjDbServer, for a driver that is not there: it gets an object and two entries.
LEMMA AddToNewDriver ==
  ASSUME NEW l, NEW os, Sound(l, os), NEW s \in Servers, EntriesOf(DriverOf(s), l, os) = {}
  PROVE  LET res == AddTo(l, os, s)
         IN  /\ Sound(res.list, res.objects) /\ res.list # NIL
             /\ \A t \in Servers :
                  FoundIn(t, res.list, res.objects) <=> (t = s \/ FoundIn(t, l, os))
<1> DEFINE base == IF l = NIL THEN <<>> ELSE l
           res == AddTo(l, os, s)
           l2 == res.list
           os2 == res.objects
<1>0. /\ l2 = base \o <<Len(os) + 1, Len(os) + 1>>
      /\ os2 = Append(os, [driver |-> DriverOf(s), servers |-> <<s>>])
      /\ base = IF l = NIL THEN <<>> ELSE l
      /\ l \in Lists /\ os \in Seq(Objects) /\ Sound(l, os) /\ EntriesOf(DriverOf(s), l, os) = {}
  BY DEF AddTo, AddToNew, Sound
<1> HIDE DEF base, l2, os2, res
<1> DEFINE new == [driver |-> DriverOf(s), servers |-> <<s>>]
           o == Len(os) + 1
           n == Len(base)
           E(t) == EntriesOf(DriverOf(t), l, os)
           E2(t) == EntriesOf(DriverOf(t), l2, os2)
<1>1. base \in Seq(Nat) /\ n \in Nat /\ DOMAIN base = 1..n
  BY <1>0 DEF Lists
<1>2. Len(os) \in Nat /\ o \in Nat /\ DOMAIN os = 1..Len(os)
  BY <1>0
<1>3. /\ l2 \in Seq(Nat) /\ Len(l2) = n + 2 /\ DOMAIN l2 = (1..n) \cup {n + 1, n + 2}
      /\ \A i \in 1..n : l2[i] = base[i]
      /\ l2[n + 1] = o /\ l2[n + 2] = o
  <2> HIDE DEF o
  <2>1. l2 = base \o <<o, o>> /\ <<o, o>> \in Seq(Nat) /\ Len(<<o, o>>) = 2
    BY <1>0, <1>2 DEF o
  <2>2. l2 \in Seq(Nat) /\ Len(l2) = n + 2 /\ DOMAIN l2 = 1..(n + 2)
    BY <1>1, <2>1
  <2>3. 1..(n + 2) = (1..n) \cup {n + 1, n + 2}
    BY <1>1
  <2>4. (\A i \in 1..n : l2[i] = base[i]) /\ l2[n + 1] = o /\ l2[n + 2] = o
    BY <1>1, <2>1
  <2> QED BY <2>2, <2>3, <2>4
<1>4. new \in Objects /\ ToSet(new.servers) = {s}
  BY DEF Objects, AnyDriver, ToSet
<1>5. /\ os2 \in Seq(Objects) /\ DOMAIN os2 = DOMAIN os \cup {o}
      /\ \A i \in DOMAIN os : os2[i] = os[i]
      /\ os2[o] = new
  BY <1>0, <1>2, <1>4
<1>6. l2 # NIL
  BY <1>3, NILAssumption
<1>7. /\ l = NIL => n = 0
      /\ l # NIL => l = base /\ \A i \in 1..n : l[i] \in DOMAIN os
  BY <1>0, <1>1 DEF Sound, Linked
<1>8. ASSUME NEW t \in Servers
      PROVE  /\ E(t) \subseteq 1..n
             /\ E2(t) = IF DriverOf(t) = DriverOf(s) THEN {n + 1, n + 2} ELSE E(t)
  <2>1. E2(t) = {i \in DOMAIN l2 : os2[l2[i]].driver = DriverOf(t)}
    BY <1>6 DEF EntriesOf
  <2>2. E(t) = {i \in 1..n : os[base[i]].driver = DriverOf(t)}
    BY <1>0, <1>1, <1>7 DEF EntriesOf
  <2>3. \A i \in 1..n : os2[l2[i]].driver = os[base[i]].driver
    BY <1>0, <1>3, <1>5, <1>7, <1>1
  <2>4. os2[l2[n + 1]].driver = DriverOf(s) /\ os2[l2[n + 2]].driver = DriverOf(s)
    BY <1>3, <1>5
  <2>5. DriverOf(t) = DriverOf(s) => E(t) = {}
    BY <1>0
  <2> HIDE DEF E, E2, n, o
  <2>6. \A i \in 1..n : i \in E2(t) <=> i \in E(t)
    BY <1>3, <2>1, <2>2, <2>3
  <2>7. DriverOf(t) = DriverOf(s) => n + 1 \in E2(t) /\ n + 2 \in E2(t)
    BY <1>3, <2>1, <2>4
  <2>8. DriverOf(t) # DriverOf(s) => n + 1 \notin E2(t) /\ n + 2 \notin E2(t)
    BY <2>1, <2>4
  <2>9. E(t) \subseteq 1..n /\ E2(t) \subseteq (1..n) \cup {n + 1, n + 2}
    BY <1>3, <2>1, <2>2
  <2>10. CASE DriverOf(t) = DriverOf(s)
    BY <2>10, <2>5, <2>6, <2>7, <2>9
  <2>11. CASE DriverOf(t) # DriverOf(s)
    BY <2>11, <2>6, <2>8, <2>9
  <2> QED BY <2>9, <2>10, <2>11
<1> HIDE DEF n, o, new
<1>9. Linked(l2, os2)
  <2> SUFFICES ASSUME NEW i \in DOMAIN l2 PROVE l2[i] \in DOMAIN os2
    BY DEF Linked
  <2>1. CASE i \in {n + 1, n + 2}
    BY <2>1, <1>3, <1>5
  <2>2. CASE i \in 1..n
    <3>1. l # NIL
      BY <2>2, <1>7
    <3> QED BY <2>2, <3>1, <1>3, <1>5, <1>7
  <2> QED BY <2>1, <2>2, <1>3
<1>10. HasFirst({n + 1, n + 2}) /\ FirstOf({n + 1, n + 2}) = n + 1
  <2>1. {n + 1, n + 2} \in SUBSET Nat /\ n + 1 \in {n + 1, n + 2} /\ \A j \in {n + 1, n + 2} : n + 1 <= j
    BY <1>1
  <2> QED BY <2>1, FirstIsUnique DEF HasFirst
<1>11. FirstExists(l2, os2)
  <2> SUFFICES ASSUME NEW t \in Servers, E2(t) # {} PROVE HasFirst(E2(t))
    BY DEF FirstExists
  <2>1. CASE DriverOf(t) = DriverOf(s)
    BY <2>1, <1>8, <1>10
  <2>2. CASE DriverOf(t) # DriverOf(s)
    BY <1>0, <2>2, <1>8 DEF Sound, FirstExists
  <2> QED BY <2>1, <2>2
<1>12. ASSUME NEW t \in Servers
       PROVE  FoundIn(t, l2, os2) <=> (t = s \/ FoundIn(t, l, os))
  <2>1. CASE DriverOf(t) = DriverOf(s)
    <3>1. E2(t) = {n + 1, n + 2} /\ FirstOf(E2(t)) = n + 1
      BY <2>1, <1>8, <1>10
    <3>2. FoundIn(t, l2, os2) <=> t \in ToSet(os2[l2[n + 1]].servers)
      BY <3>1 DEF FoundIn
    <3>3. os2[l2[n + 1]] = new
      BY <1>3, <1>5
    <3>4. ~FoundIn(t, l, os)
      BY <1>0, <2>1 DEF FoundIn
    <3> QED BY <3>2, <3>3, <3>4, <1>4
  <2>2. CASE DriverOf(t) # DriverOf(s)
    <3>1. E2(t) = E(t) /\ E(t) \subseteq 1..n
      BY <2>2, <1>8
    <3>2. ASSUME E(t) # {} PROVE os2[l2[FirstOf(E(t))]] = os[l[FirstOf(E(t))]]
      <4>1. FirstOf(E(t)) \in 1..n
        BY <1>0, <3>1, <3>2, FirstIsLeast DEF Sound, FirstExists
      <4> HIDE DEF E
      <4> QED BY <4>1, <1>1, <1>3, <1>5, <1>7
    <3> QED BY <2>2, <3>1, <3>2 DEF FoundIn
  <2> QED BY <2>1, <2>2
<1> QED BY <1>0, <1>3, <1>5, <1>6, <1>9, <1>11, <1>12 DEF Sound, Lists, l2, os2, res

\* Both: what is found after AddProjDbServer is what was found before, and the server.
LEMMA AddToAdds ==
  ASSUME NEW l, NEW os, Sound(l, os), NEW s \in Servers
  PROVE  LET new == AddTo(l, os, s)
         IN  /\ Sound(new.list, new.objects) /\ new.list # NIL
             /\ \A t \in Servers :
                  FoundIn(t, new.list, new.objects) <=> (t = s \/ FoundIn(t, l, os))
BY AddToKnownDriver, AddToNewDriver

-----------------------------------------------------------------------------
\* Loading.

LEMMA StoredServers ==
  ASSUME store \in StoreStates, WellPlaced(store)
  PROVE  InStore(store) \subseteq Servers /\ (store # NIL => DOMAIN store \subseteq Drivers)
         /\ \A t \in InStore(store) : store # NIL /\ DriverOf(t) \in DOMAIN store
BY DEF StoreStates, WellPlaced, InStore

\* What a load that has ended gives is sound: one entry for each driver that was listed, with the
\* servers that were read, or with none.
LEMMA LoadedIsSound ==
  ASSUME LoadTyped, NEW ds, ds = SetToSeq(loading.drivers),
         NEW l, l = [i \in DOMAIN ds |-> i],
         NEW os, os = [i \in DOMAIN ds |->
                        [driver |-> ds[i], servers |-> SetToSeq(ServersOf(ds[i]))]]
  PROVE  /\ Sound(l, os) /\ l # NIL
         /\ \A t \in Servers :
              FoundIn(t, l, os) <=> DriverOf(t) \in loading.drivers /\ t \in ServersOf(DriverOf(t))
<1>1. loading.drivers \subseteq Drivers /\ loading.read \subseteq Servers
  BY DEF LoadTyped
<1>2. IsFiniteSet(loading.drivers) /\ \A d : ServersOf(d) \subseteq Servers /\ IsFiniteSet(ServersOf(d))
  <2>1. \A d : ServersOf(d) \subseteq Servers
    BY <1>1 DEF ServersOf
  <2> QED BY <1>1, <2>1, FiniteAssumption, FS_Subset
<1>3. ds \in Seq(loading.drivers) /\ ToSet(ds) = loading.drivers /\ IsInjective(ds)
  BY <1>2, SetToSeqLists
<1>4. DOMAIN ds = 1..Len(ds) /\ Len(ds) \in Nat /\ \A i \in DOMAIN ds : ds[i] \in loading.drivers
  BY <1>3
<1>5. ASSUME NEW i \in DOMAIN ds
      PROVE  os[i] \in Objects /\ os[i].driver = ds[i] /\ ToSet(os[i].servers) = ServersOf(ds[i])
  <2> DEFINE S == ServersOf(ds[i])
  <2>1. IsFiniteSet(S) /\ S \subseteq Servers
    BY <1>2
  <2> HIDE DEF S
  <2>2. SetToSeq(S) \in Seq(S) /\ ToSet(SetToSeq(S)) = S
    BY <2>1, SetToSeqLists
  <2>3. ds[i] \in Drivers /\ SetToSeq(S) \in Seq(Servers)
    BY <1>1, <1>4, <2>1, <2>2
  <2>4. os[i] = [driver |-> ds[i], servers |-> SetToSeq(S)]
    BY DEF S
  <2> QED BY <2>2, <2>3, <2>4 DEF Objects, AnyDriver, S
<1>6. os \in Seq(Objects) /\ DOMAIN os = DOMAIN ds
  <2>1. DOMAIN os = DOMAIN ds
    OBVIOUS
  <2>2. os \in [1..Len(ds) -> Objects]
    BY <1>4, <1>5, <2>1
  <2> QED BY <1>4, <2>1, <2>2
<1>7. l \in Seq(Nat) /\ DOMAIN l = DOMAIN ds /\ (\A i \in DOMAIN ds : l[i] = i) /\ l # NIL
  <2>1. l \in [1..Len(ds) -> Nat]
    BY <1>4
  <2>2. l \in Seq(Nat)
    BY <1>4, <2>1
  <2> QED BY <2>2, NILAssumption
<1>8. \A t \in Servers : EntriesOf(DriverOf(t), l, os) = {i \in DOMAIN ds : ds[i] = DriverOf(t)}
  BY <1>5, <1>7 DEF EntriesOf
\* A driver has one entry, if it was listed.
<1>9. ASSUME NEW t \in Servers, NEW i \in DOMAIN ds, ds[i] = DriverOf(t)
      PROVE  EntriesOf(DriverOf(t), l, os) = {i} /\ HasFirst({i}) /\ FirstOf({i}) = i
  <2>1. EntriesOf(DriverOf(t), l, os) = {i}
    BY <1>3, <1>8, <1>9 DEF IsInjective
  <2>2. {i} \in SUBSET Nat /\ i \in {i} /\ \A j \in {i} : i <= j
    BY <1>4
  <2> QED BY <2>1, <2>2, FirstIsUnique DEF HasFirst
<1>10. Sound(l, os)
  <2>1. Linked(l, os)
    BY <1>6, <1>7 DEF Linked
  <2>2. FirstExists(l, os)
    <3> SUFFICES ASSUME NEW t \in Servers, EntriesOf(DriverOf(t), l, os) # {}
                 PROVE  HasFirst(EntriesOf(DriverOf(t), l, os))
      BY DEF FirstExists
    <3>1. PICK i \in DOMAIN ds : ds[i] = DriverOf(t)
      BY <1>8
    <3> QED BY <3>1, <1>9
  <2> QED BY <1>6, <1>7, <2>1, <2>2 DEF Sound, Lists
<1>11. ASSUME NEW t \in Servers
       PROVE  FoundIn(t, l, os) <=> DriverOf(t) \in loading.drivers /\ t \in ServersOf(DriverOf(t))
  <2>1. CASE \E i \in DOMAIN ds : ds[i] = DriverOf(t)
    <3>1. PICK i \in DOMAIN ds : ds[i] = DriverOf(t)
      BY <2>1
    <3>2. EntriesOf(DriverOf(t), l, os) = {i} /\ FirstOf({i}) = i
      BY <3>1, <1>9
    <3>3. l[i] = i /\ ToSet(os[i].servers) = ServersOf(DriverOf(t)) /\ DriverOf(t) \in loading.drivers
      BY <3>1, <1>4, <1>5, <1>7
    <3>4. FoundIn(t, l, os) <=> t \in ToSet(os[l[i]].servers)
      BY <3>2 DEF FoundIn
    <3> QED BY <3>3, <3>4
  <2>2. CASE ~\E i \in DOMAIN ds : ds[i] = DriverOf(t)
    <3>1. ~FoundIn(t, l, os)
      BY <2>2, <1>8 DEF FoundIn
    <3>2. DriverOf(t) \notin loading.drivers
      BY <2>2, <1>3 DEF ToSet
    <3> QED BY <3>1, <3>2
  <2> QED BY <2>1, <2>2
<1> QED BY <1>7, <1>10, <1>11

LEMMA FoundIsFoundIn == \A t \in Servers : Found(t) <=> FoundIn(t, list, objects)
BY DEF Found, FoundIn

\* A step of a load that leaves the project's drivers alone leaves what is found in them.
LEMMA FoundStays ==
  ASSUME UNCHANGED projectVars, AddedIsFound, LoadedPlusAdded,
         list = NIL \/ UNCHANGED <<always, ever>>
  PROVE  AddedIsFound' /\ LoadedPlusAdded'
<1>1. list' = list /\ objects' = objects /\ added' = added /\ reported' = reported
  BY DEF projectVars
<1>2. \A t : Found(t)' <=> Found(t)
  BY <1>1 DEF Found
<1> QED BY <1>1, <1>2 DEF AddedIsFound, LoadedPlusAdded

LEMMA ChangesStep ==
  ASSUME MemoryInv, StoreChanges
  PROVE  MemoryInv'
<1>1. /\ UNCHANGED <<loading, list, objects, added, reported>> /\ UNCHANGED projectVars
      /\ store' \in StoreStates /\ WellPlaced(store')
      /\ always' = IF LoadRuns THEN always \cap InStore(store') ELSE always
      /\ ever' = IF LoadRuns THEN ever \cup InStore(store') ELSE ever
  BY DEF StoreChanges, projectVars
<1>2. LoadRuns' <=> LoadRuns
  BY <1>1 DEF LoadRuns
<1>3. LoadInv'
  <2>1. LoadTyped'
    BY <1>1 DEF MemoryInv, LoadInv, LoadTyped
  <2>2. LoadRuns => list' = NIL /\ always' \subseteq InStore(store') /\ InStore(store') \subseteq ever'
    BY <1>1 DEF MemoryInv, LoadInv
  <2>3. ASSUME loading.step = "servers" PROVE OnTheWay' /\ loading.read \subseteq ever'
    <3>1. OnTheWay /\ loading.read \subseteq ever
      BY <2>3 DEF MemoryInv, LoadInv
    <3>2. always' \subseteq always /\ ever \subseteq ever'
      BY <1>1
    <3> QED BY <1>1, <3>1, <3>2 DEF OnTheWay
  <2>4. loading.step = "add" /\ list = NIL => always' = {}
    BY <1>1 DEF MemoryInv, LoadInv
  <2> QED BY <1>1, <1>2, <2>1, <2>2, <2>3, <2>4 DEF LoadInv
<1>4. list = NIL \/ UNCHANGED <<always, ever>>
  BY <1>1 DEF MemoryInv, LoadInv
<1>5. AddedIsFound' /\ LoadedPlusAdded'
  BY <1>1, <1>4, FoundStays DEF MemoryInv
<1> QED BY <1>1, <1>3, <1>5 DEF MemoryInv

LEMMA LoadBeginsStep ==
  ASSUME MemoryInv, NEW adding \in SUBSET Servers, LoadBegins(adding)
  PROVE  MemoryInv'
<1>1. /\ UNCHANGED <<store, list, objects, added, reported>> /\ UNCHANGED projectVars
      /\ list = NIL /\ always' = InStore(store) /\ ever' = InStore(store)
      /\ loading' = [NotLoading EXCEPT !.step = "drivers", !.adding = adding]
  BY DEF LoadBegins, MustLoad, projectVars
<1>2. InStore(store) \subseteq Servers
  BY StoredServers DEF MemoryInv
<1>3. LoadTyped' /\ loading'.step = "drivers"
  BY <1>1, <1>2 DEF LoadTyped, NotLoading
<1>4. LoadInv'
  BY <1>1, <1>3 DEF LoadInv
<1>5. AddedIsFound' /\ LoadedPlusAdded'
  BY <1>1, FoundStays DEF MemoryInv
<1> QED BY <1>1, <1>4, <1>5 DEF MemoryInv

\* A load that ends with sound drivers keeps the invariant, if without an error it has what
\* LoadedPlusAdded wants of it.
LEMMA KeepStep ==
  ASSUME MemoryInv, LoadRuns, NEW l, NEW os, NEW err \in BOOLEAN, Keep(l, os, err), Sound(l, os),
         UNCHANGED <<store, always, ever>>,
         ~err /\ l # NIL =>
           \A t \in Servers : (t \in always => FoundIn(t, l, os)) /\ (FoundIn(t, l, os) => t \in ever),
         ~err /\ l = NIL => always = {}
  PROVE  MemoryInv'
<1>1. /\ list' = l /\ objects' = os /\ reported' = err /\ added' = added
      /\ loading' = IF err \/ loading.adding = {} THEN NotLoading
                    ELSE [NotLoading EXCEPT !.step = "add", !.adding = loading.adding]
  BY DEF Keep
<1>2. list = NIL /\ added = <<>> /\ ToSet(added) = {}
  BY DEF MemoryInv, LoadInv, ToSet
<1>3. always \subseteq Servers /\ loading.adding \subseteq Servers
  BY DEF MemoryInv, LoadInv, LoadTyped
<1>4. LoadTyped' /\ loading'.step \in {"idle", "add"}
  BY <1>1, <1>3 DEF LoadTyped, NotLoading
<1>5. LoadInv'
  <2>1. loading'.step = "add" => ~err
    BY <1>1 DEF NotLoading
  <2> QED BY <1>1, <1>4, <2>1 DEF LoadInv, LoadRuns
<1>6. AddedIsFound'
  BY <1>1, <1>2 DEF AddedIsFound
<1>7. LoadedPlusAdded'
  <2> SUFFICES ASSUME l # NIL, ~err
               PROVE  LET found == {t \in Servers : Found(t)'}
                      IN  always \subseteq found /\ found \subseteq ever
    BY <1>1, <1>2 DEF LoadedPlusAdded
  <2>1. \A t \in Servers : Found(t)' <=> FoundIn(t, l, os)
    BY <1>1 DEF Found, FoundIn
  <2>2. {t \in Servers : Found(t)'} = {t \in Servers : FoundIn(t, l, os)}
    BY <2>1
  <2> QED BY <1>3, <2>2
<1> QED BY <1>1, <1>2, <1>5, <1>6, <1>7 DEF MemoryInv

LEMMA ListDriversStep ==
  ASSUME MemoryInv, ListDrivers
  PROVE  MemoryInv'
<1>1. LoadRuns /\ loading.step = "drivers" /\ UNCHANGED <<store, always, ever>>
  BY DEF ListDrivers, LoadRuns
<1>2. CASE Keep(NIL, <<>>, TRUE) \/ (store = NIL /\ Keep(NIL, <<>>, FALSE))
  <2>1. Sound(NIL, <<>>)
    BY DEF Sound, Lists, Linked, FirstExists, EntriesOf
  <2>2. CASE Keep(NIL, <<>>, TRUE)
    BY <1>1, <2>1, <2>2, KeepStep
  <2>3. CASE store = NIL /\ Keep(NIL, <<>>, FALSE)
    <3>1. always = {}
      BY <1>1, <2>3 DEF MemoryInv, LoadInv, InStore
    <3> QED BY <1>1, <2>1, <2>3, <3>1, KeepStep
  <2> QED BY <1>2, <2>2, <2>3
<1>3. CASE /\ store # NIL
           /\ loading' = [loading EXCEPT !.step = "servers",
                                         !.drivers = DOMAIN store, !.unlisted = DOMAIN store]
           /\ UNCHANGED projectVars
  <2>1. LoadTyped /\ list = NIL /\ always \subseteq InStore(store) /\ InStore(store) \subseteq ever
    BY <1>1 DEF MemoryInv, LoadInv
  <2>2. /\ DOMAIN store \subseteq Drivers /\ InStore(store) \subseteq Servers
        /\ \A t \in InStore(store) : DriverOf(t) \in DOMAIN store
    BY <1>3, StoredServers DEF MemoryInv
  <2>3. LoadTyped'
    BY <1>1, <1>3, <2>1, <2>2 DEF LoadTyped
  <2>4. OnTheWay'
    BY <1>1, <1>3, <2>1, <2>2 DEF OnTheWay, LoadTyped
  <2>5. loading'.read = loading.read /\ loading'.step = "servers" /\ UNCHANGED <<list, objects, added>>
    BY <1>3, <2>1 DEF LoadTyped, projectVars
  <2>6. loading.read = {}
    BY <1>1, <2>1 DEF LoadTyped
  <2>7. LoadInv'
    BY <1>1, <2>1, <2>3, <2>4, <2>5, <2>6 DEF LoadInv
  <2>8. AddedIsFound' /\ LoadedPlusAdded'
    BY <1>3, <2>1, FoundStays DEF MemoryInv
  <2> QED BY <1>1, <2>5, <2>7, <2>8 DEF MemoryInv
<1> QED BY <1>2, <1>3 DEF ListDrivers

\* A goroutine's step keeps the invariant, if no server that stays in the store is lost.
LEMMA GoroutineStep ==
  ASSUME MemoryInv, loading.step = "servers", UNCHANGED <<store, projectVars, always, ever>>,
         LoadTyped', loading'.step = "servers", OnTheWay', loading'.read \subseteq ever
  PROVE  MemoryInv'
<1>1. UNCHANGED <<list, objects, added, store, always, ever>>
  BY DEF projectVars
<1>2. list = NIL /\ always \subseteq InStore(store) /\ InStore(store) \subseteq ever
  BY DEF MemoryInv, LoadInv, LoadRuns
<1>3. LoadInv'
  BY <1>1, <1>2 DEF LoadInv
<1>4. AddedIsFound' /\ LoadedPlusAdded'
  BY <1>2, FoundStays DEF MemoryInv
<1> QED BY <1>1, <1>3, <1>4 DEF MemoryInv

LEMMA ListServersStep ==
  ASSUME MemoryInv, NEW d \in Drivers, ListServers(d)
  PROVE  MemoryInv'
<1>1. /\ d \in loading.unlisted /\ UNCHANGED <<store, projectVars, always, ever>>
      /\ UNCHANGED <<store, always, ever>>
  BY DEF ListServers
<1>2. LoadTyped /\ loading.step = "servers"
  BY <1>1 DEF MemoryInv, LoadInv, LoadTyped
<1>3. OnTheWay /\ loading.read \subseteq ever /\ always \subseteq InStore(store)
  BY <1>2 DEF MemoryInv, LoadInv, LoadRuns
<1>4. ServersIn(d) \subseteq Servers
  BY StoredServers DEF MemoryInv, ServersIn
<1>5. CASE loading' = [loading EXCEPT !.unlisted = @ \ {d}, !.unread = @ \cup ServersIn(d)]
  <2>1. LoadTyped' /\ loading'.step = "servers" /\ loading'.read = loading.read
    BY <1>1, <1>2, <1>4, <1>5 DEF LoadTyped
  <2>2. OnTheWay'
    BY <1>1, <1>2, <1>3, <1>5 DEF OnTheWay, LoadTyped, ServersIn
  <2> QED BY <1>1, <1>2, <1>3, <2>1, <2>2, GoroutineStep
<1>6. CASE loading' = [loading EXCEPT !.unlisted = @ \ {d}, !.failed = @ \cup {d}]
  <2>1. LoadTyped' /\ loading'.step = "servers" /\ loading'.read = loading.read
    BY <1>1, <1>2, <1>6 DEF LoadTyped, AnyDriver
  <2>2. OnTheWay'
    BY <1>1, <1>2, <1>3, <1>6 DEF OnTheWay, LoadTyped
  <2> QED BY <1>1, <1>2, <1>3, <2>1, <2>2, GoroutineStep
<1> QED BY <1>5, <1>6 DEF ListServers

LEMMA OpenServerStep ==
  ASSUME MemoryInv, NEW s \in Servers, OpenServer(s)
  PROVE  MemoryInv'
<1>1. /\ s \in loading.unread /\ UNCHANGED <<store, projectVars, always, ever>>
      /\ UNCHANGED <<store, always, ever>>
  BY DEF OpenServer
<1>2. LoadTyped /\ loading.step = "servers"
  BY <1>1 DEF MemoryInv, LoadInv, LoadTyped
<1>3. OnTheWay /\ loading.read \subseteq ever /\ InStore(store) \subseteq ever
  BY <1>2 DEF MemoryInv, LoadInv, LoadRuns
<1>4. CASE /\ s \in InStore(store)
           /\ loading' = [loading EXCEPT !.unread = @ \ {s}, !.read = @ \cup {s}]
  <2>1. LoadTyped' /\ loading'.step = "servers" /\ loading'.read = loading.read \cup {s}
    BY <1>1, <1>2, <1>4 DEF LoadTyped
  <2>2. OnTheWay'
    BY <1>1, <1>2, <1>3, <1>4 DEF OnTheWay, LoadTyped
  <2> QED BY <1>1, <1>2, <1>3, <1>4, <2>1, <2>2, GoroutineStep
<1>5. CASE loading' = [loading EXCEPT !.unread = @ \ {s}, !.failed = @ \cup {DriverOf(s)}]
  <2>1. LoadTyped' /\ loading'.step = "servers" /\ loading'.read = loading.read
    BY <1>1, <1>2, <1>5 DEF LoadTyped, AnyDriver
  <2>2. OnTheWay'
    BY <1>1, <1>2, <1>3, <1>5 DEF OnTheWay, LoadTyped
  <2> QED BY <1>1, <1>2, <1>3, <2>1, <2>2, GoroutineStep
<1> QED BY <1>4, <1>5 DEF OpenServer

LEMMA LoadEndsStep ==
  ASSUME MemoryInv, LoadEnds
  PROVE  MemoryInv'
<1> DEFINE ds == SetToSeq(loading.drivers)
           l == [i \in DOMAIN ds |-> i]
           os == [i \in DOMAIN ds |-> [driver |-> ds[i], servers |-> SetToSeq(ServersOf(ds[i]))]]
           err == loading.failed # {}
<1>1. /\ Keep(l, os, err) /\ UNCHANGED <<store, always, ever>>
      /\ loading.step = "servers" /\ loading.unlisted = {} /\ loading.unread = {}
  BY DEF LoadEnds
<1>2. LoadTyped /\ LoadRuns /\ OnTheWay /\ loading.read \subseteq ever
  BY <1>1 DEF MemoryInv, LoadInv, LoadRuns
<1>3. /\ Sound(l, os) /\ l # NIL
      /\ \A t \in Servers :
           FoundIn(t, l, os) <=> DriverOf(t) \in loading.drivers /\ t \in ServersOf(DriverOf(t))
  <2> HIDE DEF ds
  <2>1. ds = SetToSeq(loading.drivers)
    BY DEF ds
  <2>2. \A f, g : f = l /\ g = os => /\ Sound(f, g) /\ f # NIL
          /\ \A t \in Servers :
               FoundIn(t, f, g) <=> DriverOf(t) \in loading.drivers /\ t \in ServersOf(DriverOf(t))
    BY <1>2, <2>1, LoadedIsSound
  <2> QED BY <2>2
<1> HIDE DEF l, os
<1>4. ASSUME ~err, NEW t \in Servers
      PROVE  (t \in always => FoundIn(t, l, os)) /\ (FoundIn(t, l, os) => t \in ever)
  <2>1. t \in ServersOf(DriverOf(t)) <=> t \in loading.read
    BY <1>4 DEF ServersOf
  <2>2. t \in always => DriverOf(t) \in loading.drivers /\ t \in loading.read
    BY <1>1, <1>2, <1>4 DEF OnTheWay
  <2> QED BY <1>2, <1>3, <2>1, <2>2
<1>5. err \in BOOLEAN
  OBVIOUS
<1> HIDE DEF err
<1> QED BY <1>1, <1>2, <1>3, <1>4, <1>5, KeepStep

\* What AddProjDbServer does once the drivers are there: one server more is found.
LEMMA AddsStep ==
  ASSUME MemoryInv, NEW s \in Servers, Adds(s), loading' \in {loading, NotLoading},
         (loading.step = "idle" /\ list # NIL) \/ loading.step = "add"
  PROVE  MemoryInv'
<1> DEFINE new == AddTo(list, objects, s)
<1>1. /\ list' = new.list /\ objects' = new.objects /\ added' = Append(added, s)
      /\ UNCHANGED <<reported, store, always, ever>>
  BY DEF Adds
<1>2. /\ Sound(new.list, new.objects) /\ new.list # NIL
      /\ \A t \in Servers :
           FoundIn(t, new.list, new.objects) <=> (t = s \/ FoundIn(t, list, objects))
  BY AddToAdds DEF MemoryInv
<1> HIDE DEF new
<1>3. /\ added \in Seq(Servers) /\ added' \in Seq(Servers)
      /\ ToSet(added') = ToSet(added) \cup {s} /\ ToSet(added) \subseteq Servers
  <2>1. added \in Seq(Servers)
    BY DEF MemoryInv
  <2>2. added' \in Seq(Servers) /\ ToSet(added') = ToSet(added) \cup {s}
    BY <1>1, <2>1, ToSetOfAppend
  <2>3. \A i \in DOMAIN added : added[i] \in Servers
    BY <2>1, ElementsOfSeq
  <2> QED BY <2>1, <2>2, <2>3 DEF ToSet
<1>4. \A t \in Servers : Found(t)' <=> (t = s \/ Found(t))
  <2>1. \A t \in Servers : Found(t)' <=> FoundIn(t, new.list, new.objects)
    BY <1>1 DEF Found, FoundIn
  <2> QED BY <1>2, <2>1, FoundIsFoundIn
<1>5. AddedIsFound'
  <2>1. \A t \in ToSet(added') : Found(t)'
    BY <1>3, <1>4 DEF MemoryInv, AddedIsFound
  <2> QED BY <2>1 DEF AddedIsFound
<1>6. LoadedPlusAdded'
  <2> SUFFICES ASSUME ~reported
               PROVE  LET found == {t \in Servers : Found(t)'}
                      IN  /\ always \cup ToSet(added') \subseteq found
                          /\ found \subseteq ever \cup ToSet(added')
    BY <1>1 DEF LoadedPlusAdded
  <2>1. CASE list # NIL
    <3>1. LET found == {t \in Servers : Found(t)}
          IN  /\ always \cup ToSet(added) \subseteq found
              /\ found \subseteq ever \cup ToSet(added)
      BY <2>1 DEF MemoryInv, LoadedPlusAdded
    <3> QED BY <3>1, <1>3, <1>4
  <2>2. CASE list = NIL
    <3>1. always = {} /\ added = <<>> /\ \A t \in Servers : ~Found(t)
      BY <2>2 DEF MemoryInv, LoadInv, Found, EntriesOf
    <3>2. ToSet(added) = {}
      BY <3>1 DEF ToSet
    <3> QED BY <1>1, <3>1, <3>2, <1>3, <1>4
  <2> QED BY <2>1, <2>2
<1>7. LoadInv'
  <2>1. LoadTyped
    BY DEF MemoryInv, LoadInv
  <2>2. LoadTyped' /\ loading'.step \in {"idle", "add"}
    BY <1>1, <2>1 DEF LoadTyped, NotLoading
  <2> QED BY <1>1, <1>2, <2>2 DEF LoadInv, LoadRuns
<1> QED BY <1>1, <1>2, <1>3, <1>5, <1>6, <1>7 DEF MemoryInv

LEMMA AddStep ==
  ASSUME MemoryInv, NEW s \in Servers, AddProjDbServer(s)
  PROVE  MemoryInv'
<1>1. CASE LoadBegins({s})
  BY <1>1, LoadBeginsStep
<1>2. CASE loading.step = "idle" /\ ~MustLoad /\ Adds(s) /\ UNCHANGED loading
  <2>1. loading' = loading /\ list # NIL
    BY <1>2 DEF MustLoad
  <2> QED BY <1>2, <2>1, AddsStep
<1>3. CASE loading.step = "add" /\ Adds(s) /\ loading' = NotLoading
  BY <1>3, AddsStep
<1> QED BY <1>1, <1>2, <1>3 DEF AddProjDbServer

LEMMA MemoryInitInv == MemoryInit => MemoryInv
<1> SUFFICES ASSUME MemoryInit PROVE MemoryInv
  OBVIOUS
<1>1. /\ store \in StoreStates /\ WellPlaced(store) /\ loading = NotLoading
      /\ list = NIL /\ objects = <<>> /\ added = <<>> /\ always = {}
  BY DEF MemoryInit
<1>2. Sound(list, objects)
  BY <1>1 DEF Sound, Lists, Linked, FirstExists, EntriesOf
<1>3. AddedIsFound /\ LoadedPlusAdded
  BY <1>1 DEF AddedIsFound, LoadedPlusAdded, ToSet
<1>4. LoadInv
  BY <1>1 DEF LoadInv, LoadTyped, LoadRuns, NotLoading
<1>5. added \in Seq(Servers)
  BY <1>1
<1> QED BY <1>1, <1>2, <1>3, <1>4, <1>5 DEF MemoryInv

LEMMA MemoryInvIsInductive == MemoryInv /\ [Next]_vars => MemoryInv'
<1> SUFFICES ASSUME MemoryInv, [Next]_vars PROVE MemoryInv'
  OBVIOUS
<1>1. CASE StoreChanges
  BY <1>1, ChangesStep
<1>2. CASE LoadBegins({})
  BY <1>2, LoadBeginsStep
<1>3. CASE ListDrivers
  BY <1>3, ListDriversStep
<1>4. ASSUME NEW d \in Drivers, ListServers(d) PROVE MemoryInv'
  BY <1>4, ListServersStep
<1>5. ASSUME NEW s \in Servers, OpenServer(s) PROVE MemoryInv'
  BY <1>5, OpenServerStep
<1>6. CASE LoadEnds
  BY <1>6, LoadEndsStep
<1>7. ASSUME NEW s \in Servers, AddProjDbServer(s) PROVE MemoryInv'
  BY <1>7, AddStep
<1>8. CASE UNCHANGED memoryVars
  <2>1. UNCHANGED <<store, loading, list, objects, added, reported, always, ever>>
    BY <1>8 DEF memoryVars, projectVars
  <2>2. LoadInv'
    BY <2>1 DEF MemoryInv, LoadInv, LoadTyped, LoadRuns, OnTheWay
  <2>3. AddedIsFound' /\ LoadedPlusAdded'
    BY <2>1, FoundStays DEF MemoryInv, projectVars
  <2> QED BY <2>1, <2>2, <2>3 DEF MemoryInv
<1> QED BY <1>1, <1>2, <1>3, <1>4, <1>5, <1>6, <1>7, <1>8 DEF Next, Creates, Uses, MemoryNext, vars

\* GetDBs, GetProjDbServer and AddProjDbServer keep the invariant of a project in memory:
\* each entry of its list points to an object, each driver that has entries has a first one,
\* and a load under way has lost no server that stayed, without an error to report.
THEOREM MemoryInvariance == Spec => []MemoryInv
<1>1. Init => MemoryInv
  BY MemoryInitInv DEF Init
<1> QED BY <1>1, MemoryInvIsInductive, PTL DEF Spec

\* A server whose AddProjDbServer has returned nil is found by GetProjDbServer from then
\* on: of the entries a driver gets at every addition, the first decides, and it points
\* to the object that all of the additions have gone to.
THEOREM AddedServersAreFound == Spec => []AddedIsFound
<1>1. MemoryInv => AddedIsFound
  BY DEF MemoryInv
<1> QED BY <1>1, MemoryInvariance, PTL

\* After a load without an error the project in memory holds what was in the store all
\* through the load and what was added since, and nothing that was at no time of the load
\* in the store, whatever the store's other users do between the listings and the readings.
THEOREM MemoryIsLoadedPlusAdded == Spec => []LoadedPlusAdded
<1>1. MemoryInv => LoadedPlusAdded
  BY DEF MemoryInv
<1> QED BY <1>1, MemoryInvariance, PTL

-----------------------------------------------------------------------------
\* Saving and loading: the whole project store

Paths == AllPlaces \cup {File}
Loads == UNION {[places -> Written \cup {Blank}] : places \in SUBSET AllPlaces}
Calls == [op : {"idle", "save", "load"}, project : Names \cup {Unknown}, depth : 0..2,
          step : {"validate", "mkdir", "file", "workers", "returned"},
          todo : SUBSET (Paths \cup {Listing(part) : part \in Parts}), writing : SUBSET (Places \cup {File}),
          loaded : Loads, ok : BOOLEAN, raced : SUBSET Paths]

\* The steps of a call belong to its kind, and what is left to do to its project.
InStep(call) ==
  /\ call.op = "idle" => call.step = "returned"
  /\ call.op = "save" =>
       /\ call.step # "file" /\ call.project \in Names
       /\ call.step \in {"mkdir", "workers"} => Projects[call.project].valid
       /\ call.step \in {"validate", "mkdir"} => call.writing = {}
       /\ call.step = "workers" => call.todo \cup call.writing \subseteq Touches(Projects[call.project])
  /\ call.op = "load" =>
       /\ call.step \in {"file", "workers", "returned"}
       /\ call.step = "file" => call.ok /\ call.loaded = <<>>
       /\ call.step = "workers" => call.depth # 1
       /\ call.step = "returned" /\ call.ok /\ call.depth # 1 => call.todo = {}

Saves(call) == call.op = "save" /\ call.step # "returned"
Changes(call) == Touches(Projects[call.project])

\* Whoever has begun a call knows what the saves of the others that are under way change.
RacesKnown(cs) ==
  \A c, d \in Clients : c # d /\ Saves(cs[c]) /\ cs[d].op # "idle" => Changes(cs[c]) \subseteq cs[d].raced

\* A place that is being changed is not settled, and what is settled is on the disk.
ChangingUnsettled == \A c \in Clients : Saves(client[c]) => \A p \in Changes(client[c]) : settled[p] = Unknown
SettledIsThere == \A p \in Paths : settled[p] # Unknown => disk[p] = settled[p]

\* What an unraced save without a failure has done is on the disk.
SavedIsThere(call, dsk) ==
  call.op = "save" /\ call.step = "workers" /\ call.ok =>
    \A p \in Changes(call) \ call.raced : p \in call.todo \cup call.writing \/ dsk[p] = call.project

\* What a load without a failure has read of a place that is not raced is what is there.
LoadedOf(call, p, there) ==
  CASE Listing(p[1]) \in call.todo -> p \notin call.todo /\ p \notin DOMAIN call.loaded
    [] Listing(p[1]) \notin call.todo /\ p \in call.todo ->
         p[1] # "environments" /\ there # Absent /\ p \notin DOMAIN call.loaded
    [] OTHER -> IF there = Absent THEN p \notin DOMAIN call.loaded
                ELSE /\ p \in DOMAIN call.loaded
                     /\ p[1] = "environments" \/ there \in Written
                     /\ call.loaded[p] = IF p[1] \in DirParts THEN Blank ELSE there
LoadedIsThere(call, dsk) ==
  call.op = "load" /\ call.step # "file" /\ call.ok /\ call.depth # 1 =>
    \A p \in AllPlaces \ call.raced : LoadedOf(call, p, dsk[p])

\* A load has failed over something that is raced or still there.
FailureIsThere(call, dsk) ==
  call.op = "load" /\ ~call.ok =>
    \/ File \notin call.raced => dsk[File] \notin Written
    \/ call.depth # 1 /\ \E p \in AllPlaces : p \in call.raced \/ dsk[p] = Empty

Relies(call, dsk) == SavedIsThere(call, dsk) /\ LoadedIsThere(call, dsk) /\ FailureIsThere(call, dsk)

DiskInv ==
  /\ disk \in [Paths -> Contents] /\ settled \in [Paths -> Written \cup {Absent, Unknown}]
  /\ calls \in 0..MaxCalls /\ client \in [Clients -> Calls]
  /\ \A c \in Clients : InStep(client[c])
  /\ RacesKnown(client) /\ ChangingUnsettled /\ SettledIsThere
  /\ \A c \in Clients : Relies(client[c], disk)

\* The words for what is no content, and the paths of steps that are no places.
LEMMA WordsDiffer ==
  /\ Absent # Empty /\ Unknown \notin Written /\ Blank \notin Written
  /\ Absent \notin Written /\ Empty \notin Written /\ Unknown # Absent /\ Unknown # Empty
  /\ File \notin AllPlaces /\ \A part \in Parts : Listing(part) \notin Paths
<1>1. File \notin AllPlaces
  BY DEF File, AllPlaces, Parts, SavedParts
<1>2. \A part \in Parts : Listing(part) \notin AllPlaces
  BY ProjectsAssumption DEF Listing, AllPlaces
<1>3. \A part \in Parts : Listing(part) # File
  BY DEF Listing, File, Parts, SavedParts
<1>4. Absent # Empty /\ Unknown # Absent /\ Unknown # Empty
  BY DEF Absent, Empty, Unknown
<1>5. Unknown \notin Written /\ Blank \notin Written /\ Absent \notin Written /\ Empty \notin Written
  BY ProjectsAssumption DEF Written, Absent, Empty, Unknown, Blank, Old
<1> QED BY <1>1, <1>2, <1>3, <1>4, <1>5 DEF Paths

LEMMA ChangesArePaths ==
  ASSUME NEW name \in Names
  PROVE  Touches(Projects[name]) \subseteq Places \cup {File} /\ Touches(Projects[name]) \subseteq Paths
<1>1. Places \subseteq AllPlaces
  BY DEF Places, AllPlaces, Parts
<1> QED BY <1>1, ProjectsAssumption DEF Touches, Paths

LEMMA IdleIsCall == Idle \in Calls /\ InStep(Idle) /\ ~Saves(Idle) /\ \A dsk : Relies(Idle, dsk)
<1>1. <<>> \in Loads
  <2>1. <<>> \in [{} -> Written \cup {Blank}]
    OBVIOUS
  <2> QED BY <2>1 DEF Loads
<1>2. Idle \in Calls
  BY <1>1 DEF Idle, Calls
<1> QED BY <1>2 DEF Idle, InStep, Saves, Relies, SavedIsThere, LoadedIsThere, FailureIsThere

Racing(call, more) == [call EXCEPT !.raced = @ \cup more]

\* What a call relies on does not change but at places that are raced.
LEMMA OthersRely ==
  ASSUME NEW call \in Calls, NEW dsk, NEW dsk2, NEW more \in SUBSET Paths,
         NEW new, new = Racing(call, more),
         call.op = "idle" \/ \A p \in Paths \ new.raced : dsk2[p] = dsk[p],
         InStep(call), Relies(call, dsk)
  PROVE  new \in Calls /\ InStep(new) /\ Relies(new, dsk2)
<1>1. /\ new \in Calls /\ new.op = call.op /\ new.project = call.project /\ new.depth = call.depth
      /\ new.step = call.step /\ new.todo = call.todo /\ new.writing = call.writing
      /\ new.loaded = call.loaded /\ new.ok = call.ok /\ new.raced = call.raced \cup more
  BY DEF Calls, Racing
<1>2. InStep(new)
  BY <1>1 DEF InStep
<1>3. AllPlaces \subseteq Paths /\ File \in Paths
  BY DEF Paths
<1>4. SavedIsThere(new, dsk2)
  <2> SUFFICES ASSUME call.op = "save", call.step = "workers", call.ok,
                      NEW p \in Changes(new) \ new.raced
               PROVE  p \in new.todo \cup new.writing \/ dsk2[p] = new.project
    BY <1>1 DEF SavedIsThere
  <2>1. p \in Changes(call) \ call.raced /\ p \in Paths
    BY <1>1, ChangesArePaths DEF Changes, InStep
  <2> QED BY <1>1, <2>1 DEF Relies, SavedIsThere
<1>5. LoadedIsThere(new, dsk2)
  <2> SUFFICES ASSUME call.op = "load", call.step # "file", call.ok, call.depth # 1,
                      NEW p \in AllPlaces \ new.raced
               PROVE  LoadedOf(new, p, dsk2[p])
    BY <1>1 DEF LoadedIsThere
  <2>1. LoadedOf(call, p, dsk[p]) /\ dsk2[p] = dsk[p]
    BY <1>1, <1>3 DEF Relies, LoadedIsThere
  <2> QED BY <1>1, <2>1 DEF LoadedOf
<1>6. FailureIsThere(new, dsk2)
  <2> SUFFICES ASSUME call.op = "load", ~call.ok
               PROVE  \/ File \notin new.raced => dsk2[File] \notin Written
                      \/ new.depth # 1 /\ \E p \in AllPlaces : p \in new.raced \/ dsk2[p] = Empty
    BY <1>1 DEF FailureIsThere
  <2>1. CASE File \notin call.raced => dsk[File] \notin Written
    BY <1>1, <1>3, <2>1
  <2>2. CASE call.depth # 1 /\ \E p \in AllPlaces : p \in call.raced \/ dsk[p] = Empty
    BY <1>1, <1>3, <2>2
  <2> QED BY <2>1, <2>2 DEF Relies, FailureIsThere
<1> QED BY <1>1, <1>2, <1>4, <1>5, <1>6 DEF Relies

\* A step of one call, which changes nothing but what it may.
LEMMA StepKeeps ==
  ASSUME DiskInv, NEW c \in Clients, NEW new \in Calls, InStep(new),
         client' = [client EXCEPT ![c] = new], calls' = calls,
         new = Idle \/ (/\ new.op = client[c].op /\ new.project = client[c].project
                       /\ new.raced = client[c].raced /\ client[c].step # "returned"),
         disk' \in [Paths -> Contents], settled' \in [Paths -> Written \cup {Absent, Unknown}],
         \A p \in Paths : disk'[p] # disk[p] => Saves(client[c]) /\ p \in Changes(client[c]),
         \A p \in Paths : settled'[p] # settled[p] =>
           /\ Saves(client[c]) /\ ~Saves(new) /\ p \in Changes(client[c]) \ client[c].raced
           /\ settled'[p] = disk'[p],
         Relies(new, disk')
  PROVE  DiskInv'
<1>1. /\ client \in [Clients -> Calls] /\ client' \in [Clients -> Calls] /\ client'[c] = new
      /\ \A d \in Clients : d # c => client'[d] = client[d]
  BY DEF DiskInv
<1>2. Saves(new) => Saves(client[c]) /\ Changes(new) = Changes(client[c])
  BY IdleIsCall DEF Saves, Changes
<1>3. \A d \in Clients : Saves(client'[d]) => Saves(client[d]) /\ Changes(client'[d]) = Changes(client[d])
  BY <1>1, <1>2
<1>4. \A d \in Clients : client'[d].op # "idle" => client[d].op # "idle" /\ client'[d].raced = client[d].raced
  <2>1. new.op # "idle" => client[c].op # "idle" /\ new.raced = client[c].raced
    BY DEF Idle
  <2> QED BY <1>1, <2>1
<1>5. RacesKnown(client')
  BY <1>3, <1>4 DEF DiskInv, RacesKnown
<1>6. ASSUME NEW d \in Clients, d # c, Saves(client[c]), client[d].op # "idle"
      PROVE  Changes(client[c]) \subseteq client[d].raced
  BY <1>6 DEF DiskInv, RacesKnown
<1>7. ASSUME NEW d \in Clients PROVE InStep(client'[d]) /\ Relies(client'[d], disk')
  <2>1. CASE d = c
    BY <1>1, <2>1
  <2>2. CASE d # c
    <3>1. client'[d] = client[d] /\ client[d] \in Calls /\ InStep(client[d]) /\ Relies(client[d], disk)
      BY <1>1, <2>2 DEF DiskInv
    <3>2. client[d] = Racing(client[d], {})
      BY <3>1 DEF Calls, Racing
    <3>3. client[d].op = "idle" \/ \A p \in Paths \ client[d].raced : disk'[p] = disk[p]
      BY <1>6, <2>2
    <3> QED BY <3>1, <3>2, <3>3, OthersRely
  <2> QED BY <2>1, <2>2
<1>8. ChangingUnsettled'
  <2> SUFFICES ASSUME NEW d \in Clients, Saves(client'[d]), NEW p \in Changes(client'[d])
               PROVE  settled'[p] = Unknown
    BY DEF ChangingUnsettled
  <2>1. Saves(client[d]) /\ p \in Changes(client[d]) /\ settled[p] = Unknown
    BY <1>3 DEF DiskInv, ChangingUnsettled
  <2>2. p \in Paths
    BY <2>1, ChangesArePaths DEF DiskInv, InStep, Saves, Changes
  <2>3. settled'[p] = settled[p]
    <3> SUFFICES ASSUME settled'[p] # settled[p] PROVE FALSE
      OBVIOUS
    <3>1. Saves(client[c]) /\ ~Saves(new) /\ p \notin client[c].raced
      BY <2>2
    <3>2. d # c
      BY <1>1, <3>1
    <3>3. Changes(client[d]) \subseteq client[c].raced
      BY <2>1, <3>1, <3>2 DEF DiskInv, RacesKnown, Saves
    <3> QED BY <2>1, <3>1, <3>3
  <2> QED BY <2>1, <2>3
<1>9. SettledIsThere'
  <2> SUFFICES ASSUME NEW p \in Paths, settled'[p] # Unknown PROVE disk'[p] = settled'[p]
    BY DEF SettledIsThere, Paths
  <2>1. CASE settled'[p] # settled[p]
    BY <2>1
  <2>2. CASE settled'[p] = settled[p]
    <3>1. disk[p] = settled[p]
      BY <2>2 DEF DiskInv, SettledIsThere
    <3>2. disk'[p] = disk[p]
      BY <2>2 DEF DiskInv, ChangingUnsettled
    <3> QED BY <2>2, <3>1, <3>2
  <2> QED BY <2>1, <2>2
<1>10. calls' \in 0..MaxCalls
  BY DEF DiskInv
<1> QED BY <1>1, <1>5, <1>7, <1>8, <1>9, <1>10 DEF DiskInv, Paths, Contents, Written, Calls

\* DiskInv of one call.
LEMMA OfCall ==
  ASSUME DiskInv, NEW c \in Clients
  PROVE  /\ client \in [Clients -> Calls] /\ client[c] \in Calls /\ InStep(client[c]) /\ Relies(client[c], disk)
         /\ disk \in [Paths -> Contents] /\ settled \in [Paths -> Written \cup {Absent, Unknown}]
BY DEF DiskInv

\* A step that changes a call but no file.
LEMMA CallStepKeeps ==
  ASSUME DiskInv, NEW c \in Clients, NEW new \in Calls, InStep(new),
         client' = [client EXCEPT ![c] = new], UNCHANGED <<disk, settled, calls>>,
         new = Idle \/ (/\ new.op = client[c].op /\ new.project = client[c].project
                       /\ new.raced = client[c].raced /\ client[c].step # "returned"),
         Relies(new, disk)
  PROVE  DiskInv'
<1>1. disk' \in [Paths -> Contents] /\ settled' \in [Paths -> Written \cup {Absent, Unknown}]
  BY OfCall
<1>2. \A p \in Paths : disk'[p] = disk[p] /\ settled'[p] = settled[p]
  OBVIOUS
<1>3. Relies(new, disk')
  OBVIOUS
<1> QED BY <1>1, <1>2, <1>3, StepKeeps

LEMMA CrashKeeps == ASSUME DiskInv, NEW c \in Clients, Crash(c) PROVE DiskInv'
<1>1. client' = [client EXCEPT ![c] = Idle] /\ UNCHANGED <<disk, settled, calls>>
  BY DEF Crash
<1> QED BY <1>1, IdleIsCall, CallStepKeeps

\* A save that has not begun to write, or is over, relies on nothing.
LEMMA SaveRelies ==
  ASSUME NEW call, call.op = "save", call.step # "workers" \/ ~call.ok, NEW dsk
  PROVE  Relies(call, dsk)
BY DEF Relies, SavedIsThere, LoadedIsThere, FailureIsThere

LEMMA ValidateKeeps == ASSUME DiskInv, NEW c \in Clients, Validate(c) PROVE DiskInv'
<1>1. /\ client[c].step = "validate" /\ client[c].op = "save" /\ UNCHANGED <<disk, settled, calls>>
      /\ IF Saved(c).valid THEN Moves(c, "mkdir") ELSE Returns(c, FALSE)
  BY DEF Validate, At
<1>2. client \in [Clients -> Calls] /\ client[c] \in Calls /\ InStep(client[c])
  BY OfCall
<1>3. ASSUME NEW new, NEW step \in {"mkdir", "returned"}, NEW ok \in BOOLEAN,
             new = [client[c] EXCEPT !.step = step, !.ok = ok],
             client' = [client EXCEPT ![c] = new], step = "mkdir" => Saved(c).valid
      PROVE  DiskInv'
  <2>1. /\ new \in Calls /\ new.op = "save" /\ new.project = client[c].project /\ new.raced = client[c].raced
        /\ new.step = step
    BY <1>1, <1>2, <1>3 DEF Calls
  <2>2. InStep(new)
    BY <1>1, <1>2, <1>3, <2>1 DEF InStep, Saved
  <2>3. Relies(new, disk)
    BY <2>1, SaveRelies
  <2> QED BY <1>1, <1>3, <2>1, <2>2, <2>3, CallStepKeeps
<1>4. CASE Saved(c).valid
  <2> PICK new : new = [client[c] EXCEPT !.step = "mkdir", !.ok = client[c].ok]
    OBVIOUS
  <2>1. client' = [client EXCEPT ![c] = new]
    BY <1>1, <1>2, <1>4 DEF Moves, Calls
  <2>2. client[c].ok \in BOOLEAN
    BY <1>2 DEF Calls
  <2> QED BY <1>3, <1>4, <2>1, <2>2
<1>5. CASE ~Saved(c).valid
  <2> PICK new : new = [client[c] EXCEPT !.step = "returned", !.ok = FALSE]
    OBVIOUS
  <2>1. client' = [client EXCEPT ![c] = new]
    BY <1>1, <1>2, <1>5 DEF Returns, Calls
  <2> QED BY <1>3, <1>5, <2>1
<1> QED BY <1>4, <1>5

LEMMA MkdirAllKeeps == ASSUME DiskInv, NEW c \in Clients, MkdirAll(c) PROVE DiskInv'
<1>1. /\ client[c].step = "mkdir" /\ client[c].op = "save" /\ UNCHANGED <<disk, settled, calls>>
      /\ \/ Returns(c, FALSE)
         \/ client' = [client EXCEPT ![c].step = "workers", ![c].todo = Saved(c).items \cup {File}]
  BY DEF MkdirAll, At
<1>2. client \in [Clients -> Calls] /\ client[c] \in Calls /\ InStep(client[c])
  BY OfCall
<1>3. CASE Returns(c, FALSE)
  <2> PICK new : new = [client[c] EXCEPT !.step = "returned", !.ok = FALSE]
    OBVIOUS
  <2>1. client' = [client EXCEPT ![c] = new]
    BY <1>1, <1>2, <1>3 DEF Returns, Calls
  <2>2. /\ new \in Calls /\ new.op = "save" /\ new.project = client[c].project /\ new.raced = client[c].raced
        /\ new.step = "returned" /\ ~new.ok
    BY <1>1, <1>2 DEF Calls
  <2>3. InStep(new) /\ Relies(new, disk)
    BY <1>1, <1>2, <2>2, SaveRelies DEF InStep
  <2> QED BY <1>1, <2>1, <2>2, <2>3, CallStepKeeps
<1>4. CASE client' = [client EXCEPT ![c].step = "workers", ![c].todo = Saved(c).items \cup {File}]
  <2> PICK todo : todo = Saved(c).items \cup {File}
    OBVIOUS
  <2> PICK new : new = [client[c] EXCEPT !.step = "workers", !.todo = todo]
    OBVIOUS
  <2>0. Projects[client[c].project].valid /\ client[c].project \in Names /\ client[c].writing = {}
    BY <1>1, <1>2 DEF InStep
  <2>1. client' = [client EXCEPT ![c] = new]
    BY <1>2, <1>4 DEF Calls
  <2>2. todo = Changes(client[c]) /\ todo \subseteq Paths
    BY <2>0, ChangesArePaths DEF Changes, Touches, Saved
  <2>3. /\ new \in Calls /\ new.op = "save" /\ new.project = client[c].project /\ new.raced = client[c].raced
        /\ new.step = "workers" /\ new.todo = todo /\ new.writing = client[c].writing
    BY <1>1, <1>2, <2>2 DEF Calls
  <2>4. Changes(new) = Changes(client[c])
    BY <2>3 DEF Changes
  <2>5. InStep(new)
    BY <2>0, <2>2, <2>3 DEF InStep, Changes
  <2>6. Relies(new, disk)
    BY <2>2, <2>3, <2>4 DEF Relies, SavedIsThere, LoadedIsThere, FailureIsThere
  <2> QED BY <1>1, <2>1, <2>3, <2>5, <2>6, CallStepKeeps
<1> QED BY <1>1, <1>3, <1>4

\* A worker of a save has done something about one of its places.
Leaves(place, old, new) == new \subseteq old \cup {place} /\ old \subseteq new \cup {place}
Puts(place, content) == disk' = disk \/ disk' = [disk EXCEPT ![place] = content]

LEMMA WorkerKeeps ==
  ASSUME DiskInv, NEW c \in Clients, client[c].op = "save", client[c].step = "workers",
         NEW place \in Changes(client[c]), NEW content \in Contents, Puts(place, content),
         UNCHANGED <<settled, calls>>,
         NEW todo, Leaves(place, client[c].todo, todo),
         NEW writing, Leaves(place, client[c].writing, writing),
         NEW ok \in BOOLEAN,
         ok => client[c].ok /\ (place \in writing \/ disk' = [disk EXCEPT ![place] = client[c].project]),
         NEW new, new = [client[c] EXCEPT !.todo = todo, !.writing = writing, !.ok = ok],
         client' = [client EXCEPT ![c] = new]
  PROVE  DiskInv'
<1> USE DEF Leaves, Puts
<1>1. /\ client[c] \in Calls /\ InStep(client[c]) /\ Relies(client[c], disk)
      /\ disk \in [Paths -> Contents] /\ settled \in [Paths -> Written \cup {Absent, Unknown}]
  BY OfCall
<1>2. client[c].project \in Names /\ Changes(client[c]) \subseteq Paths /\ Changes(client[c]) \subseteq Places \cup {File}
  BY <1>1, ChangesArePaths DEF InStep, Changes
<1>3. /\ client[c].todo \subseteq Paths \cup {Listing(part) : part \in Parts}
      /\ client[c].writing \subseteq Places \cup {File}
  BY <1>1 DEF Calls
<1>4. /\ new \in Calls /\ new.op = "save" /\ new.project = client[c].project /\ new.raced = client[c].raced
      /\ new.step = "workers" /\ new.todo = todo /\ new.writing = writing /\ new.ok = ok
  <2>1. /\ todo \subseteq Paths \cup {Listing(part) : part \in Parts}
        /\ writing \subseteq Places \cup {File}
    BY <1>2, <1>3
  <2> HIDE DEF Leaves, Puts
  <2>2. new \in Calls
    BY <1>1, <2>1 DEF Calls
  <2> QED BY <1>1, <2>2 DEF Calls
<1>5. Changes(new) = Changes(client[c])
  BY <1>4 DEF Changes
<1>6. InStep(new)
  BY <1>1, <1>4 DEF InStep, Changes
<1>7. disk' \in [Paths -> Contents] /\ \A p \in Paths : p # place => disk'[p] = disk[p]
  BY <1>1
<1>8. Relies(new, disk')
  <2> SUFFICES ASSUME ok, NEW p \in Changes(client[c]) \ client[c].raced
               PROVE  p \in todo \cup writing \/ disk'[p] = client[c].project
    BY <1>4, <1>5 DEF Relies, SavedIsThere, LoadedIsThere, FailureIsThere
  <2>1. CASE p = place
    BY <1>1, <1>2, <2>1
  <2>2. CASE p # place
    <3>1. p \in client[c].todo \cup client[c].writing \/ disk[p] = client[c].project
      BY <1>1 DEF Relies, SavedIsThere
    <3> QED BY <1>2, <1>7, <2>2, <3>1
  <2> QED BY <2>1, <2>2
<1>9. Saves(client[c])
  BY DEF Saves
<1>10. settled' \in [Paths -> Written \cup {Absent, Unknown}] /\ \A p \in Paths : settled'[p] = settled[p]
  BY <1>1
<1>11. \A p \in Paths : disk'[p] # disk[p] => Saves(client[c]) /\ p \in Changes(client[c])
  BY <1>7, <1>9
<1> QED BY <1>4, <1>6, <1>7, <1>8, <1>10, <1>11, StepKeeps

LEMMA CreateKeeps == ASSUME DiskInv, NEW c \in Clients, NEW place, Create(c, place) PROVE DiskInv'
<1>0. DiskInv /\ c \in Clients
  OBVIOUS
<1>1. client[c].op = "save" /\ client[c].step = "workers" /\ place \in client[c].todo /\ UNCHANGED <<settled, calls>>
  BY DEF Create, At
<1>2. client \in [Clients -> Calls] /\ client[c] \in Calls /\ InStep(client[c])
  BY OfCall
<1>3. place \in Changes(client[c]) /\ Empty \in Contents /\ client[c].ok \in BOOLEAN
  BY <1>1, <1>2 DEF InStep, Changes, Contents, Calls
<1> PICK todo : todo = client[c].todo \ {place}
  OBVIOUS
<1>4. CASE /\ client' = [client EXCEPT ![c].todo = @ \ {place}, ![c].writing = @ \cup {place}]
           /\ disk' = [disk EXCEPT ![place] = Empty]
  <2> PICK writing : writing = client[c].writing \cup {place}
    OBVIOUS
  <2> PICK new : new = [client[c] EXCEPT !.todo = todo, !.writing = writing, !.ok = client[c].ok]
    OBVIOUS
  <2>1. client' = [client EXCEPT ![c] = new]
    BY <1>2, <1>4 DEF Calls
  <2>2. Leaves(place, client[c].todo, todo) /\ Leaves(place, client[c].writing, writing)
    BY DEF Leaves
  <2>3. Puts(place, Empty)
    BY <1>4 DEF Puts
  <2>4. /\ client[c].ok \in BOOLEAN
        /\ client[c].ok => client[c].ok /\ (place \in writing \/ disk' = [disk EXCEPT ![place] = client[c].project])
    BY <1>3, <1>4
  <2>5. new = [client[c] EXCEPT !.todo = todo, !.writing = writing, !.ok = client[c].ok]
    OBVIOUS
  <2> QED BY ONLY <1>0, <1>1, <1>3, <2>1, <2>2, <2>3, <2>4, <2>5, WorkerKeeps
<1>5. CASE /\ client' = [client EXCEPT ![c].todo = @ \ {place}, ![c].ok = FALSE]
           /\ disk' = disk \/ disk' = [disk EXCEPT ![place] = Empty]
  <2> PICK writing : writing = client[c].writing
    OBVIOUS
  <2> PICK new : new = [client[c] EXCEPT !.todo = todo, !.writing = writing, !.ok = FALSE]
    OBVIOUS
  <2>1. client' = [client EXCEPT ![c] = new]
    BY <1>2, <1>5 DEF Calls
  <2>2. Leaves(place, client[c].todo, todo) /\ Leaves(place, client[c].writing, writing)
    BY DEF Leaves
  <2>3. Puts(place, Empty)
    BY <1>5 DEF Puts
  <2>4. /\ FALSE \in BOOLEAN
        /\ FALSE => client[c].ok /\ (place \in writing \/ disk' = [disk EXCEPT ![place] = client[c].project])
    BY <1>3, <1>5
  <2>5. new = [client[c] EXCEPT !.todo = todo, !.writing = writing, !.ok = FALSE]
    OBVIOUS
  <2> QED BY ONLY <1>0, <1>1, <1>3, <2>1, <2>2, <2>3, <2>4, <2>5, WorkerKeeps
<1> QED BY <1>4, <1>5 DEF Create

LEMMA WriteKeeps == ASSUME DiskInv, NEW c \in Clients, NEW place, Write(c, place) PROVE DiskInv'
<1>0. DiskInv /\ c \in Clients
  OBVIOUS
<1>1. client[c].op = "save" /\ client[c].step = "workers" /\ place \in client[c].writing /\ UNCHANGED <<settled, calls>>
  BY DEF Write, At
<1>2. client \in [Clients -> Calls] /\ client[c] \in Calls /\ InStep(client[c])
  BY OfCall
<1> PICK todo : todo = client[c].todo
  OBVIOUS
<1> PICK writing : writing = client[c].writing \ {place}
  OBVIOUS
<1> PICK content : content = client[c].project
  OBVIOUS
<1>3. place \in Changes(client[c]) /\ content \in Contents /\ client[c].ok \in BOOLEAN
  BY <1>1, <1>2 DEF InStep, Changes, Contents, Written, Calls
<1>4. CASE /\ client' = [client EXCEPT ![c].writing = @ \ {place}]
           /\ disk' = [disk EXCEPT ![place] = client[c].project]
  <2> PICK new : new = [client[c] EXCEPT !.todo = todo, !.writing = writing, !.ok = client[c].ok]
    OBVIOUS
  <2>1. client' = [client EXCEPT ![c] = new]
    BY <1>2, <1>4 DEF Calls
  <2>2. Leaves(place, client[c].todo, todo) /\ Leaves(place, client[c].writing, writing)
    BY DEF Leaves
  <2>3. Puts(place, content)
    BY <1>4 DEF Puts
  <2>4. /\ client[c].ok \in BOOLEAN
        /\ client[c].ok => client[c].ok /\ (place \in writing \/ disk' = [disk EXCEPT ![place] = client[c].project])
    BY <1>3, <1>4
  <2>5. new = [client[c] EXCEPT !.todo = todo, !.writing = writing, !.ok = client[c].ok]
    OBVIOUS
  <2> QED BY ONLY <1>0, <1>1, <1>3, <2>1, <2>2, <2>3, <2>4, <2>5, WorkerKeeps
<1>5. CASE client' = [client EXCEPT ![c].writing = @ \ {place}, ![c].ok = FALSE] /\ disk' = disk
  <2> PICK new : new = [client[c] EXCEPT !.todo = todo, !.writing = writing, !.ok = FALSE]
    OBVIOUS
  <2>1. client' = [client EXCEPT ![c] = new]
    BY <1>2, <1>5 DEF Calls
  <2>2. Leaves(place, client[c].todo, todo) /\ Leaves(place, client[c].writing, writing)
    BY DEF Leaves
  <2>3. Puts(place, content)
    BY <1>5 DEF Puts
  <2>4. /\ FALSE \in BOOLEAN
        /\ FALSE => client[c].ok /\ (place \in writing \/ disk' = [disk EXCEPT ![place] = client[c].project])
    BY <1>3, <1>5
  <2>5. new = [client[c] EXCEPT !.todo = todo, !.writing = writing, !.ok = FALSE]
    OBVIOUS
  <2> QED BY ONLY <1>0, <1>1, <1>3, <2>1, <2>2, <2>3, <2>4, <2>5, WorkerKeeps
<1> QED BY <1>4, <1>5 DEF Write

LEMMA SaveReturnsKeeps == ASSUME DiskInv, NEW c \in Clients, SaveReturns(c) PROVE DiskInv'
<1>1. /\ client[c].op = "save" /\ client[c].step = "workers" /\ client[c].todo = {} /\ client[c].writing = {}
      /\ Returns(c, client[c].ok) /\ UNCHANGED <<disk, calls>>
      /\ settled' = [place \in DOMAIN disk |->
                       IF client[c].ok /\ place \in Touches(Saved(c)) \ client[c].raced
                       THEN client[c].project ELSE settled[place]]
  BY DEF SaveReturns, At
<1>2. /\ client \in [Clients -> Calls] /\ client[c] \in Calls /\ InStep(client[c]) /\ Relies(client[c], disk)
      /\ disk \in [Paths -> Contents] /\ settled \in [Paths -> Written \cup {Absent, Unknown}]
  BY OfCall
<1> PICK new : new = [client[c] EXCEPT !.step = "returned", !.ok = client[c].ok]
  OBVIOUS
<1>3. client' = [client EXCEPT ![c] = new]
  BY <1>1, <1>2 DEF Returns, Calls
<1>4. /\ new \in Calls /\ new.op = "save" /\ new.project = client[c].project /\ new.raced = client[c].raced
      /\ new.step = "returned"
  BY <1>1, <1>2 DEF Calls
<1>5. InStep(new) /\ Relies(new, disk')
  BY <1>1, <1>2, <1>4, SaveRelies DEF InStep
<1>6. Touches(Saved(c)) = Changes(client[c]) /\ client[c].project \in Names
  BY <1>1, <1>2 DEF Saved, Changes, InStep
<1>7. settled' \in [Paths -> Written \cup {Absent, Unknown}]
  BY <1>1, <1>2, <1>6 DEF Written
<1>8. ASSUME NEW p \in Paths, settled'[p] # settled[p]
      PROVE  /\ Saves(client[c]) /\ ~Saves(new) /\ p \in Changes(client[c]) \ client[c].raced
             /\ settled'[p] = disk'[p]
  <2>1. client[c].ok /\ p \in Changes(client[c]) \ client[c].raced /\ settled'[p] = client[c].project
    BY <1>1, <1>2, <1>6, <1>8
  <2>2. disk[p] = client[c].project
    BY <1>1, <1>2, <2>1 DEF Relies, SavedIsThere
  <2> QED BY <1>1, <1>4, <2>1, <2>2 DEF Saves
<1>9. disk' \in [Paths -> Contents] /\ \A p \in Paths : disk'[p] = disk[p]
  BY <1>1, <1>2
<1>10. \A p \in Paths : disk'[p] # disk[p] => Saves(client[c]) /\ p \in Changes(client[c])
  BY <1>9
<1>11. /\ new.op = client[c].op /\ new.project = client[c].project
       /\ new.raced = client[c].raced /\ client[c].step # "returned"
  BY <1>1, <1>4
<1>12. DiskInv /\ c \in Clients /\ calls' = calls
  BY <1>1
<1>13. \A p \in Paths : settled'[p] # settled[p] =>
         /\ Saves(client[c]) /\ ~Saves(new) /\ p \in Changes(client[c]) \ client[c].raced
         /\ settled'[p] = disk'[p]
  BY <1>8
<1> QED BY ONLY <1>3, <1>4, <1>5, <1>7, <1>9, <1>10, <1>11, <1>12, <1>13, StepKeeps

-----------------------------------------------------------------------------
\* Calls begin

LEMMA UnderWayIs ==
  ASSUME DiskInv
  PROVE  /\ UnderWay \subseteq Paths
         /\ \A d \in Clients : Saves(client[d]) => Changes(client[d]) \subseteq UnderWay
<1>1. ASSUME NEW d \in Clients, Busy(d), client[d].op = "save"
      PROVE  Touches(Projects[client[d].project]) \subseteq Paths
  BY <1>1, OfCall, ChangesArePaths DEF InStep
<1> QED BY <1>1 DEF UnderWay, Saves, Busy, Changes

\* A new call of c, which knows of the saves under way; `places` is what it will change.
Begun(c, new, places) ==
  /\ InStep(new) /\ new.op # "idle" /\ new.raced = UnderWay
  /\ IF Saves(new) THEN Changes(new) = places ELSE places = {}
  /\ \A dsk : Relies(new, dsk)

LEMMA BeginKeeps ==
  ASSUME DiskInv, NEW c \in Clients, client[c].step = "returned", calls < MaxCalls, calls' = calls + 1, disk' = disk,
         NEW places \in SUBSET Paths, NEW new \in Calls, Begun(c, new, places),
         client' = [Disturbed(places) EXCEPT ![c] = new],
         settled' = [place \in DOMAIN disk |-> IF place \in places THEN Unknown ELSE settled[place]]
  PROVE  DiskInv'
<1>1. /\ client \in [Clients -> Calls] /\ disk \in [Paths -> Contents]
      /\ settled \in [Paths -> Written \cup {Absent, Unknown}]
  BY OfCall
<1>2. ASSUME NEW d \in Clients, d # c
      PROVE  /\ client'[d] \in Calls /\ InStep(client'[d]) /\ Relies(client'[d], disk)
             /\ client'[d].op = client[d].op /\ client'[d].step = client[d].step
             /\ client'[d].project = client[d].project /\ client'[d].raced = client[d].raced \cup places
  <2> PICK call : call = client[d]
    OBVIOUS
  <2> PICK other : other = Racing(call, places)
    OBVIOUS
  <2>1. call \in Calls /\ InStep(call) /\ Relies(call, disk)
    BY OfCall
  <2>2. client'[d] = other
    BY <1>1, <1>2 DEF Disturbed, Racing
  <2>3. other.op = call.op /\ other.step = call.step /\ other.project = call.project /\ other.raced = call.raced \cup places
    BY <2>1 DEF Calls, Racing
  <2>4. other \in Calls /\ InStep(other) /\ Relies(other, disk)
    <3> PICK there : there = disk
      OBVIOUS
    <3>1. other = Racing(call, places) /\ places \in SUBSET Paths
      OBVIOUS
    <3>2. call.op = "idle" \/ \A p \in Paths \ other.raced : there[p] = disk[p]
      OBVIOUS
    <3>3. other \in Calls /\ InStep(other) /\ Relies(other, there)
      BY ONLY <2>1, <3>1, <3>2, OthersRely
    <3> QED BY <3>3
  <2> QED BY <2>2, <2>3, <2>4
<1>3. client'[c] = new
  BY DEF Disturbed
<1>4. client' \in [Clients -> Calls]
  <2>1. client' = [d \in Clients |-> client'[d]]
    BY DEF Disturbed
  <2>2. \A d \in Clients : client'[d] \in Calls
    BY <1>2, <1>3
  <2> QED BY <2>1, <2>2
<1>5. \A d \in Clients : InStep(client'[d]) /\ Relies(client'[d], disk')
  BY <1>2, <1>3 DEF Begun
<1>6. ASSUME NEW d \in Clients, Saves(client'[d])
      PROVE  \/ d = c /\ Changes(client'[d]) = places
             \/ d # c /\ Saves(client[d]) /\ Changes(client'[d]) = Changes(client[d])
  BY <1>2, <1>3, <1>6 DEF Begun, Saves, Changes
<1>7. RacesKnown(client')
  <2> SUFFICES ASSUME NEW d \in Clients, NEW e \in Clients, d # e, Saves(client'[d]), client'[e].op # "idle"
               PROVE  Changes(client'[d]) \subseteq client'[e].raced
    BY DEF RacesKnown
  <2>1. CASE d = c
    BY <1>2, <1>6, <2>1
  <2>2. CASE d # c /\ e = c
    BY <1>3, <1>6, <2>2, UnderWayIs DEF Begun
  <2>3. CASE d # c /\ e # c
    <3>1. Changes(client[d]) \subseteq client[e].raced
      BY <1>2, <1>6, <2>3 DEF DiskInv, RacesKnown
    <3> QED BY <1>2, <1>6, <2>3, <3>1
  <2> QED BY <2>1, <2>2, <2>3
<1>8. settled' \in [Paths -> Written \cup {Absent, Unknown}]
  BY <1>1
<1>9. ChangingUnsettled'
  <2> SUFFICES ASSUME NEW d \in Clients, Saves(client'[d]), NEW p \in Changes(client'[d])
               PROVE  settled'[p] = Unknown
    BY DEF ChangingUnsettled
  <2>1. CASE d = c
    BY <1>1, <1>6, <2>1
  <2>2. CASE d # c
    <3>1. Saves(client[d]) /\ p \in Changes(client[d])
      BY <1>6, <2>2
    <3>2. settled[p] = Unknown /\ p \in Paths
      BY <3>1, UnderWayIs DEF DiskInv, ChangingUnsettled
    <3> QED BY <1>1, <3>2
  <2> QED BY <2>1, <2>2
<1>10. SettledIsThere'
  BY <1>1 DEF DiskInv, SettledIsThere, Paths
<1>11. calls' \in 0..MaxCalls
  BY ProjectsAssumption DEF DiskInv
<1> QED BY <1>1, <1>4, <1>5, <1>7, <1>8, <1>9, <1>10, <1>11 DEF DiskInv, Paths, Contents, Written, Calls

LEMMA BeginStepKeeps == ASSUME DiskInv, NEW c \in Clients, Begin(c) PROVE DiskInv'
<1>1. /\ client[c].step = "returned" /\ calls < MaxCalls /\ calls' = calls + 1 /\ disk' = disk
      /\ BeginSave(c) \/ BeginLoad(c)
  BY DEF Begin, Busy
<1>2. /\ client \in [Clients -> Calls] /\ disk \in [Paths -> Contents]
      /\ settled \in [Paths -> Written \cup {Absent, Unknown}] /\ Idle \in Calls /\ UnderWay \subseteq Paths
  BY OfCall, IdleIsCall, UnderWayIs
<1> PICK races : races = UnderWay
  OBVIOUS
<1>3. CASE BeginSave(c)
  <2>1. PICK name \in Names :
          /\ client' = [Disturbed(Touches(Projects[name])) EXCEPT ![c] =
                          [Idle EXCEPT !.op = "save", !.project = name, !.step = "validate", !.raced = UnderWay]]
          /\ settled' = [place \in DOMAIN disk |->
                           IF place \in Touches(Projects[name]) THEN Unknown ELSE settled[place]]
    BY <1>3 DEF BeginSave
  <2> PICK places : places = Touches(Projects[name])
    OBVIOUS
  <2> PICK new : new = [Idle EXCEPT !.op = "save", !.project = name, !.step = "validate", !.raced = races]
    OBVIOUS
  <2>2. places \subseteq Paths
    BY ChangesArePaths
  <2>3. /\ new \in Calls /\ new.op = "save" /\ new.project = name /\ new.step = "validate" /\ new.raced = races
        /\ new.writing = {}
    BY <1>2 DEF Idle, Calls
  <2>4. Begun(c, new, places)
    BY <2>3, SaveRelies DEF Begun, InStep, Saves, Changes
  <2>5. /\ client' = [Disturbed(places) EXCEPT ![c] = new]
        /\ settled' = [place \in DOMAIN disk |-> IF place \in places THEN Unknown ELSE settled[place]]
    BY <2>1
  <2>6. DiskInv /\ c \in Clients
    OBVIOUS
  <2> QED BY ONLY <1>1, <2>2, <2>3, <2>4, <2>5, <2>6, BeginKeeps
<1>4. CASE BeginLoad(c)
  <2>1. PICK depth \in 0..2 :
          /\ client' = [client EXCEPT ![c] =
                          [Idle EXCEPT !.op = "load", !.depth = depth, !.step = "file", !.raced = UnderWay]]
          /\ settled' = settled
    BY <1>4 DEF BeginLoad
  <2> PICK places : places = {}
    OBVIOUS
  <2> PICK new : new = [Idle EXCEPT !.op = "load", !.depth = depth, !.step = "file", !.raced = races]
    OBVIOUS
  <2>3. /\ new \in Calls /\ new.op = "load" /\ new.step = "file" /\ new.raced = races /\ new.ok
        /\ new.loaded = <<>>
    BY <1>2 DEF Idle, Calls
  <2>4. Begun(c, new, places)
    BY <2>3 DEF Begun, InStep, Saves, Relies, SavedIsThere, LoadedIsThere, FailureIsThere
  <2>5. client' = [Disturbed(places) EXCEPT ![c] = new]
    <3>1. ASSUME NEW d \in Clients PROVE [client[d] EXCEPT !.raced = @ \cup places] = client[d]
      <4>1. client[d] \in Calls
        BY <1>2
      <4> QED BY <4>1 DEF Calls
    <3>2. Disturbed(places) = client
      BY <1>2, <3>1 DEF Disturbed
    <3> QED BY <2>1, <3>2
  <2>6. settled' = [place \in DOMAIN disk |-> IF place \in places THEN Unknown ELSE settled[place]]
    BY <1>2, <2>1
  <2>7. DiskInv /\ c \in Clients /\ places \subseteq Paths
    OBVIOUS
  <2> QED BY ONLY <1>1, <2>3, <2>4, <2>5, <2>6, <2>7, BeginKeeps
<1> QED BY <1>1, <1>3, <1>4

-----------------------------------------------------------------------------
\* Steps of a load

\* What has been loaded, with what is found.
Grown(loaded, found, new) ==
  /\ new \in Loads /\ DOMAIN new = DOMAIN loaded \cup DOMAIN found
  /\ \A p \in DOMAIN found : new[p] = found[p]
  /\ \A p \in DOMAIN loaded \ DOMAIN found : new[p] = loaded[p]

LEMMA LoadsGrow ==
  ASSUME NEW loaded \in Loads, NEW found \in Loads, NEW new, new = With(loaded, found)
  PROVE  Grown(loaded, found, new)
<1>1. PICK places \in SUBSET AllPlaces : loaded \in [places -> Written \cup {Blank}]
  BY DEF Loads
<1>2. PICK more \in SUBSET AllPlaces : found \in [more -> Written \cup {Blank}]
  BY DEF Loads
<1>3. new = [p \in places \cup more |-> IF p \in more THEN found[p] ELSE loaded[p]]
  BY <1>1, <1>2 DEF With
<1>4. new \in [places \cup more -> Written \cup {Blank}] /\ places \cup more \in SUBSET AllPlaces
  BY <1>1, <1>2, <1>3
<1>5. new \in Loads
  BY <1>4 DEF Loads
<1>6. DOMAIN loaded = places /\ DOMAIN found = more /\ DOMAIN new = places \cup more
  BY <1>1, <1>2, <1>3
<1> QED BY <1>3, <1>5, <1>6 DEF Grown

\* What a load that is at work has read, and has failed over, in one more step.
Reads(call, new) ==
  /\ new.ok => call.ok /\ \A p \in AllPlaces \ call.raced : LoadedOf(new, p, disk[p])
  /\ ~new.ok => ~call.ok \/ \E p \in AllPlaces : p \in call.raced \/ disk[p] = Empty

\* A load that is at work has come to another state of its work.
LEMMA LoadStepKeeps ==
  ASSUME DiskInv, NEW c \in Clients, client[c].op = "load", client[c].step = "workers",
         NEW todo, todo \subseteq Paths \cup {Listing(part) : part \in Parts}, NEW loaded \in Loads, NEW ok \in BOOLEAN,
         NEW new, new = [client[c] EXCEPT !.todo = todo, !.loaded = loaded, !.ok = ok],
         client' = [client EXCEPT ![c] = new], UNCHANGED <<disk, settled, calls>>,
         Reads(client[c], new)
  PROVE  DiskInv'
<1>1. /\ client[c] \in Calls /\ InStep(client[c]) /\ Relies(client[c], disk)
  BY OfCall
<1>2. /\ new \in Calls /\ new.op = "load" /\ new.project = client[c].project /\ new.raced = client[c].raced
      /\ new.step = "workers" /\ new.depth = client[c].depth /\ new.ok = ok
  BY <1>1 DEF Calls
<1>3. InStep(new)
  BY <1>1, <1>2 DEF InStep
<1>4. FailureIsThere(new, disk)
  <2> SUFFICES ASSUME ~ok
               PROVE  \/ File \notin new.raced => disk[File] \notin Written
                      \/ new.depth # 1 /\ \E p \in AllPlaces : p \in new.raced \/ disk[p] = Empty
    BY <1>2 DEF FailureIsThere
  <2>1. CASE ~client[c].ok
    BY <1>1, <1>2, <2>1 DEF Relies, FailureIsThere
  <2>2. CASE \E p \in AllPlaces : p \in client[c].raced \/ disk[p] = Empty
    BY <1>1, <1>2, <2>2 DEF InStep
  <2> QED BY <1>2, <2>1, <2>2 DEF Reads
<1>5. Relies(new, disk)
  BY <1>2, <1>4 DEF Relies, SavedIsThere, LoadedIsThere, Reads
<1>6. DiskInv /\ c \in Clients /\ client[c].step # "returned" /\ new.op = client[c].op
  BY <1>2
<1> QED BY <1>2, <1>3, <1>5, <1>6, CallStepKeeps

LEMMA ReadFileKeeps == ASSUME DiskInv, NEW c \in Clients, ReadFile(c) PROVE DiskInv'
<1>1. client[c].op = "load" /\ client[c].step = "file" /\ UNCHANGED <<disk, settled, calls>>
  BY DEF ReadFile, At
<1>2. client \in [Clients -> Calls] /\ client[c] \in Calls /\ InStep(client[c]) /\ Relies(client[c], disk)
  BY OfCall
<1>3. client[c].ok = TRUE /\ client[c].depth \in 0..2
  BY <1>1, <1>2 DEF InStep, Calls
<1>4. CASE ~Readable(File) /\ Returns(c, FALSE)
  <2> PICK new : new = [client[c] EXCEPT !.step = "returned", !.ok = FALSE]
    OBVIOUS
  <2>1. client' = [client EXCEPT ![c] = new]
    BY <1>2, <1>4 DEF Returns, Calls
  <2>2. /\ new \in Calls /\ new.op = "load" /\ new.project = client[c].project /\ new.raced = client[c].raced
        /\ new.step = "returned" /\ ~new.ok
    BY <1>1, <1>2 DEF Calls
  <2>3. InStep(new) /\ Relies(new, disk)
    BY <1>4, <2>2 DEF InStep, Relies, SavedIsThere, LoadedIsThere, FailureIsThere, Readable
  <2> QED BY <1>1, <2>1, <2>2, <2>3, CallStepKeeps
<1>5. CASE /\ GoesDeeper(client[c].depth)
           /\ client' = [client EXCEPT ![c].step = "workers", ![c].todo = {Listing(part) : part \in Parts}]
  <2> PICK todo : todo = {Listing(part) : part \in Parts}
    OBVIOUS
  <2> PICK new : new = [client[c] EXCEPT !.step = "workers", !.todo = todo]
    OBVIOUS
  <2>1. client' = [client EXCEPT ![c] = new]
    BY <1>2, <1>5 DEF Calls
  <2>2. /\ new \in Calls /\ new.op = "load" /\ new.project = client[c].project /\ new.raced = client[c].raced
        /\ new.step = "workers" /\ new.ok /\ new.todo = todo /\ new.loaded = client[c].loaded
        /\ new.depth = client[c].depth
    BY <1>1, <1>2, <1>3 DEF Calls
  <2>3. client[c].depth # 1
    BY <1>3, <1>5 DEF GoesDeeper
  <2>4. InStep(new)
    BY <2>2, <2>3 DEF InStep
  <2>5. ASSUME NEW p \in AllPlaces PROVE LoadedOf(new, p, disk[p])
    <3>1. Listing(p[1]) \in todo
      BY DEF AllPlaces
    <3>2. p \notin todo
      BY WordsDiffer DEF Paths
    <3>3. client[c].loaded = <<>>
      BY <1>1, <1>2 DEF InStep
    <3> QED BY <2>2, <3>1, <3>2, <3>3 DEF LoadedOf
  <2>6. Relies(new, disk)
    BY <2>2, <2>5 DEF Relies, SavedIsThere, LoadedIsThere, FailureIsThere
  <2> QED BY <1>1, <2>1, <2>2, <2>4, <2>6, CallStepKeeps
<1>6. CASE Readable(File) /\ ~GoesDeeper(client[c].depth) /\ Returns(c, TRUE)
  <2> PICK new : new = [client[c] EXCEPT !.step = "returned", !.ok = TRUE]
    OBVIOUS
  <2>1. client' = [client EXCEPT ![c] = new]
    BY <1>2, <1>6 DEF Returns, Calls
  <2>2. /\ new \in Calls /\ new.op = "load" /\ new.project = client[c].project /\ new.raced = client[c].raced
        /\ new.step = "returned" /\ new.ok /\ new.depth = client[c].depth
    BY <1>1, <1>2 DEF Calls
  <2>3. client[c].depth = 1
    BY <1>3, <1>6 DEF GoesDeeper
  <2>4. InStep(new) /\ Relies(new, disk)
    BY <2>2, <2>3 DEF InStep, Relies, SavedIsThere, LoadedIsThere, FailureIsThere
  <2> QED BY <1>1, <2>1, <2>2, <2>4, CallStepKeeps
<1> QED BY <1>4, <1>5, <1>6 DEF ReadFile

LEMMA ListPartKeeps == ASSUME DiskInv, NEW c \in Clients, NEW part \in Parts, ListPart(c, part) PROVE DiskInv'
<1> PICK named : named = IF part = "environments" THEN Entries(part) ELSE {}
  OBVIOUS
<1> PICK found : found = Blanks(named)
  OBVIOUS
<1> PICK old : old = client[c]
  OBVIOUS
<1>1. /\ client[c].op = "load" /\ client[c].step = "workers" /\ Listing(part) \in client[c].todo
      /\ UNCHANGED <<disk, settled, calls>>
      /\ client' = [client EXCEPT ![c].todo = (@ \ {Listing(part)}) \cup (Entries(part) \ named),
                                  ![c].loaded = With(@, found)]
  BY DEF ListPart, At
<1>2. client \in [Clients -> Calls] /\ client[c] \in Calls /\ InStep(client[c]) /\ Relies(client[c], disk)
  BY OfCall
<1> PICK todo : todo = (old.todo \ {Listing(part)}) \cup (Entries(part) \ named)
  OBVIOUS
<1> PICK loaded : loaded = With(old.loaded, found)
  OBVIOUS
<1> PICK new : new = [client[c] EXCEPT !.todo = todo, !.loaded = loaded, !.ok = client[c].ok]
  OBVIOUS
<1>3. client' = [client EXCEPT ![c] = new]
  BY <1>1, <1>2 DEF Calls
<1>4. old.loaded \in Loads /\ old.ok \in BOOLEAN /\ old.todo \subseteq Paths \cup {Listing(q) : q \in Parts}
  BY <1>2 DEF Calls
<1>5. Entries(part) \subseteq AllPlaces /\ \A p \in AllPlaces : p \in Entries(part) <=> p[1] = part /\ disk[p] # Absent
  BY DEF Entries, AllPlaces
<1>6. named \subseteq AllPlaces
  BY <1>5
<1>7. found \in Loads /\ DOMAIN found = named /\ \A p \in named : found[p] = Blank
  <2>1. found \in [named -> Written \cup {Blank}] /\ DOMAIN found = named /\ \A p \in named : found[p] = Blank
    BY DEF Blanks
  <2> QED BY <1>6, <2>1 DEF Loads
<1>8. /\ loaded \in Loads /\ DOMAIN loaded = DOMAIN old.loaded \cup named
      /\ \A p \in named : loaded[p] = Blank
      /\ \A p \in DOMAIN old.loaded \ named : loaded[p] = old.loaded[p]
  <2>1. /\ loaded \in Loads /\ DOMAIN loaded = DOMAIN old.loaded \cup DOMAIN found
        /\ \A p \in DOMAIN found : loaded[p] = found[p]
        /\ \A p \in DOMAIN old.loaded \ DOMAIN found : loaded[p] = old.loaded[p]
    <3> PICK was : was = old.loaded
      OBVIOUS
    <3>1. was \in Loads /\ found \in Loads /\ loaded = With(was, found)
      BY <1>4, <1>7
    <3>2. Grown(was, found, loaded)
      BY ONLY <3>1, LoadsGrow
    <3> QED BY <3>2 DEF Grown
  <2> QED BY <1>7, <2>1
<1>9. todo \subseteq Paths \cup {Listing(q) : q \in Parts}
  BY <1>4, <1>5 DEF Paths
<1>10. new.todo = todo /\ new.loaded = loaded
  BY <1>2 DEF Calls
<1>11. ASSUME old.ok, NEW p \in AllPlaces \ old.raced PROVE LoadedOf(new, p, disk[p])
  <2>1. LoadedOf(old, p, disk[p])
    BY <1>1, <1>2, <1>11 DEF Relies, LoadedIsThere, InStep
  <2>2. p[1] \in Parts /\ p \in Paths
    BY DEF AllPlaces, Paths
  <2>3. CASE p[1] = part
    <3>1. p \notin old.todo /\ p \notin DOMAIN old.loaded
      BY <1>1, <2>1, <2>3 DEF LoadedOf
    <3>2. Listing(part) \notin todo
      BY <1>5, WordsDiffer DEF Paths
    <3>3. CASE disk[p] = Absent
      <4>1. p \notin todo /\ p \notin named
        BY <1>5, <3>1, <3>3
      <4> QED BY <1>8, <1>10, <2>3, <3>1, <3>2, <3>3, <4>1 DEF LoadedOf
    <3>4. CASE disk[p] # Absent /\ part = "environments"
      <4>1. p \in named /\ p \notin todo
        BY <1>5, <2>3, <3>1, <3>4
      <4> QED BY <1>8, <1>10, <2>3, <3>2, <3>4, <4>1 DEF LoadedOf, DirParts
    <3>5. CASE disk[p] # Absent /\ part # "environments"
      <4>1. p \notin named /\ p \in todo
        BY <1>5, <2>3, <3>5
      <4> QED BY <1>8, <1>10, <2>3, <3>1, <3>2, <3>5, <4>1 DEF LoadedOf
    <3> QED BY <3>3, <3>4, <3>5
  <2>4. CASE p[1] # part
    <3>1. p \notin Entries(part) /\ p # Listing(part)
      BY <1>5, <2>2, <2>4, WordsDiffer
    <3>2. Listing(p[1]) # Listing(part) /\ Listing(p[1]) \notin Entries(part)
      BY <1>5, <2>2, <2>4, WordsDiffer DEF Listing, Paths
    <3>3. (p \in todo <=> p \in old.todo) /\ (Listing(p[1]) \in todo <=> Listing(p[1]) \in old.todo)
      BY <3>1, <3>2
    <3>4. p \notin named /\ (p \in DOMAIN loaded <=> p \in DOMAIN old.loaded)
      BY <1>8, <3>1
    <3>5. p \in DOMAIN old.loaded => loaded[p] = old.loaded[p]
      BY <1>8, <3>4
    <3> QED BY <1>10, <2>1, <3>3, <3>4, <3>5 DEF LoadedOf
  <2> QED BY <2>3, <2>4
<1>12. Reads(client[c], new)
  <2>1. new.ok = client[c].ok
    BY <1>2 DEF Calls
  <2> QED BY <1>11, <2>1 DEF Reads
<1> PICK ok : ok = old.ok
  OBVIOUS
<1>13. DiskInv /\ c \in Clients /\ new = [client[c] EXCEPT !.todo = todo, !.loaded = loaded, !.ok = ok]
       /\ ok \in BOOLEAN
  BY <1>4
<1>14. client[c].op = "load" /\ client[c].step = "workers" /\ UNCHANGED <<disk, settled, calls>> /\ loaded \in Loads
  BY <1>1, <1>8
<1> QED BY ONLY <1>3, <1>9, <1>12, <1>13, <1>14, LoadStepKeeps

LEMMA LoadItemKeeps == ASSUME DiskInv, NEW c \in Clients, NEW place \in AllPlaces, LoadItem(c, place) PROVE DiskInv'
<1> PICK old : old = client[c]
  OBVIOUS
<1> PICK found : found = [p \in {place} |-> Content(p)]
  OBVIOUS
<1> PICK loaded : loaded = IF Readable(place) THEN With(old.loaded, found) ELSE old.loaded
  OBVIOUS
<1> PICK todo : todo = old.todo \ {place}
  OBVIOUS
<1> PICK ok : ok = (old.ok /\ Readable(place))
  OBVIOUS
<1>1. /\ client[c].op = "load" /\ client[c].step = "workers" /\ place \in client[c].todo
      /\ UNCHANGED <<disk, settled, calls>>
      /\ client' = [client EXCEPT ![c].todo = @ \ {place},
                      ![c].loaded = IF Readable(place) THEN With(@, found) ELSE @,
                      ![c].ok = @ /\ Readable(place)]
  BY DEF LoadItem, At
<1>2. client \in [Clients -> Calls] /\ client[c] \in Calls /\ InStep(client[c]) /\ Relies(client[c], disk)
  BY OfCall
<1> PICK new : new = [client[c] EXCEPT !.todo = todo, !.loaded = loaded, !.ok = ok]
  OBVIOUS
<1>3. client' = [client EXCEPT ![c] = new]
  BY <1>1, <1>2 DEF Calls
<1>4. /\ old.loaded \in Loads /\ old.ok \in BOOLEAN /\ ok \in BOOLEAN
      /\ old.todo \subseteq Paths \cup {Listing(q) : q \in Parts}
  BY <1>2 DEF Calls, Readable
<1>5. Readable(place) => found \in Loads /\ DOMAIN found = {place} /\ found[place] = Content(place)
  <2>1. Readable(place) => found \in [{place} -> Written \cup {Blank}] /\ {place} \in SUBSET AllPlaces
    BY DEF Readable, Content
  <2> QED BY <2>1 DEF Loads
<1>6. /\ loaded \in Loads
      /\ DOMAIN loaded = DOMAIN old.loaded \cup (IF Readable(place) THEN {place} ELSE {})
      /\ Readable(place) => loaded[place] = Content(place)
      /\ \A p \in DOMAIN old.loaded \ {place} : loaded[p] = old.loaded[p]
  <2>1. CASE Readable(place)
    <3>1. loaded = With(old.loaded, found)
      BY <2>1
    <3>2. /\ loaded \in Loads /\ DOMAIN loaded = DOMAIN old.loaded \cup DOMAIN found
          /\ \A p \in DOMAIN found : loaded[p] = found[p]
          /\ \A p \in DOMAIN old.loaded \ DOMAIN found : loaded[p] = old.loaded[p]
      <4> PICK was : was = old.loaded
        OBVIOUS
      <4>1. was \in Loads /\ found \in Loads /\ loaded = With(was, found)
        BY <1>4, <1>5, <2>1, <3>1
      <4>2. Grown(was, found, loaded)
        BY ONLY <4>1, LoadsGrow
      <4> QED BY <4>2 DEF Grown
    <3> QED BY <1>5, <2>1, <3>2
  <2>2. CASE ~Readable(place)
    BY <1>4, <2>2
  <2> QED BY <2>1, <2>2
<1>7. todo \subseteq Paths \cup {Listing(q) : q \in Parts}
  BY <1>4
<1>8. new.todo = todo /\ new.loaded = loaded
  BY <1>2 DEF Calls
<1>9. ASSUME old.ok, NEW p \in AllPlaces \ old.raced PROVE LoadedOf(old, p, disk[p])
  BY <1>1, <1>2, <1>9 DEF Relies, LoadedIsThere, InStep
<1>10. ASSUME ok, NEW p \in AllPlaces \ old.raced PROVE LoadedOf(new, p, disk[p])
  <2>1. LoadedOf(old, p, disk[p]) /\ Readable(place)
    BY <1>9, <1>10
  <2>2. p[1] \in Parts /\ Listing(p[1]) # place
    BY WordsDiffer DEF AllPlaces, Paths
  <2>3. Listing(p[1]) \in todo <=> Listing(p[1]) \in old.todo
    BY <2>2
  <2>4. CASE p = place
    <3>1. p \notin todo /\ p \in DOMAIN loaded /\ loaded[p] = Content(p) /\ disk[p] \in Written /\ disk[p] # Absent
      BY <1>6, <2>1, <2>4, WordsDiffer DEF Readable
    <3>2. Listing(p[1]) \notin old.todo
      BY <1>1, <2>1, <2>4 DEF LoadedOf
    <3> QED BY <1>8, <2>3, <3>1, <3>2 DEF LoadedOf, Content
  <2>5. CASE p # place
    <3>1. (p \in todo <=> p \in old.todo) /\ (p \in DOMAIN loaded <=> p \in DOMAIN old.loaded)
      BY <1>6, <2>5
    <3>2. p \in DOMAIN old.loaded => loaded[p] = old.loaded[p]
      BY <1>6, <2>5
    <3> QED BY <1>8, <2>1, <2>3, <3>1, <3>2 DEF LoadedOf
  <2> QED BY <2>4, <2>5
<1>11. ASSUME ~ok PROVE ~client[c].ok \/ \E p \in AllPlaces : p \in client[c].raced \/ disk[p] = Empty
  <2> SUFFICES ASSUME old.ok, place \notin old.raced PROVE disk[place] = Empty
    OBVIOUS
  <2>1. LoadedOf(old, place, disk[place]) /\ disk[place] \notin Written
    BY <1>9, <1>11 DEF Readable
  <2>2. disk[place] # Absent
    BY <1>1, <2>1 DEF LoadedOf
  <2>3. disk[place] \in Contents
    BY OfCall DEF Paths
  <2> QED BY <2>1, <2>2, <2>3 DEF Contents
<1>12. Reads(client[c], new)
  <2>1. new.ok = ok /\ (ok => client[c].ok)
    BY <1>2 DEF Calls
  <2> QED BY <1>10, <1>11, <2>1 DEF Reads
<1>13. DiskInv /\ c \in Clients /\ new = [client[c] EXCEPT !.todo = todo, !.loaded = loaded, !.ok = ok]
  OBVIOUS
<1>14. /\ client[c].op = "load" /\ client[c].step = "workers" /\ UNCHANGED <<disk, settled, calls>>
       /\ loaded \in Loads /\ ok \in BOOLEAN
  BY <1>1, <1>4, <1>6
<1> QED BY ONLY <1>3, <1>7, <1>12, <1>13, <1>14, LoadStepKeeps

LEMMA LoadReturnsKeeps == ASSUME DiskInv, NEW c \in Clients, LoadReturns(c) PROVE DiskInv'
<1> PICK old : old = client[c]
  OBVIOUS
<1> PICK loaded : loaded = IF old.ok THEN old.loaded ELSE <<>>
  OBVIOUS
<1>1. /\ client[c].op = "load" /\ client[c].step = "workers" /\ client[c].todo = {}
      /\ UNCHANGED <<disk, settled, calls>>
      /\ client' = [client EXCEPT ![c].step = "returned", ![c].loaded = IF client[c].ok THEN @ ELSE <<>>]
  BY DEF LoadReturns, At
<1>2. client \in [Clients -> Calls] /\ old \in Calls /\ InStep(old) /\ Relies(old, disk)
  BY OfCall
<1> PICK new : new = [client[c] EXCEPT !.step = "returned", !.loaded = loaded]
  OBVIOUS
<1>3. client' = [client EXCEPT ![c] = new]
  BY <1>1, <1>2 DEF Calls
<1>4. loaded \in Loads
  BY <1>2, IdleIsCall DEF Calls, Idle
<1>5. /\ new \in Calls /\ new.op = "load" /\ new.project = old.project /\ new.raced = old.raced
      /\ new.step = "returned" /\ new.ok = old.ok /\ new.depth = old.depth /\ new.todo = {} /\ new.loaded = loaded
  BY <1>1, <1>2, <1>4 DEF Calls
<1>6. InStep(new)
  BY <1>5 DEF InStep
<1>7. LoadedIsThere(new, disk)
  <2> SUFFICES ASSUME old.ok, old.depth # 1, NEW p \in AllPlaces \ old.raced PROVE LoadedOf(new, p, disk[p])
    BY <1>5 DEF LoadedIsThere
  <2>1. LoadedOf(old, p, disk[p])
    BY <1>1, <1>2 DEF Relies, LoadedIsThere
  <2> QED BY <1>1, <1>5, <2>1 DEF LoadedOf
<1>8. Relies(new, disk)
  BY <1>1, <1>2, <1>5, <1>7 DEF Relies, SavedIsThere, FailureIsThere
<1> QED BY <1>1, <1>3, <1>5, <1>6, <1>8, CallStepKeeps

-----------------------------------------------------------------------------
LEMMA DiskInit == StoreInit => DiskInv
<1> SUFFICES ASSUME StoreInit PROVE DiskInv
  OBVIOUS
<1>1. disk \in [Paths -> Contents] /\ DOMAIN disk = Paths
  BY ProjectsAssumption DEF StoreInit, Paths
<1>2. settled \in [Paths -> Written \cup {Absent, Unknown}] /\ SettledIsThere
  BY <1>1 DEF StoreInit, Contents, SettledIsThere
<1>3. client \in [Clients -> Calls] /\ \A c \in Clients : client[c] = Idle
  BY IdleIsCall DEF StoreInit
<1>4. \A c \in Clients : InStep(client[c]) /\ Relies(client[c], disk) /\ ~Saves(client[c])
  BY <1>3, IdleIsCall
<1>5. RacesKnown(client) /\ ChangingUnsettled
  BY <1>4 DEF RacesKnown, ChangingUnsettled
<1>6. calls \in 0..MaxCalls
  BY ProjectsAssumption DEF StoreInit
<1> QED BY <1>1, <1>2, <1>3, <1>4, <1>5, <1>6 DEF DiskInv

LEMMA DiskStep == DiskInv /\ [StoreNext]_storeVars => DiskInv'
<1> SUFFICES ASSUME DiskInv, [StoreNext]_storeVars PROVE DiskInv'
  OBVIOUS
<1>1. CASE UNCHANGED storeVars
  BY <1>1 DEF storeVars, DiskInv, ChangingUnsettled, SettledIsThere, Paths, Contents, Written, Calls
<1>2. ASSUME NEW c \in Clients, Begin(c) \/ SaveStep(c) \/ LoadStep(c) \/ Crash(c) PROVE DiskInv'
  <2>1. CASE SaveStep(c)
    BY <2>1, ValidateKeeps, MkdirAllKeeps, SaveReturnsKeeps, CreateKeeps, WriteKeeps DEF SaveStep
  <2>2. CASE LoadStep(c)
    BY <2>2, ReadFileKeeps, LoadReturnsKeeps, ListPartKeeps, LoadItemKeeps DEF LoadStep
  <2> QED BY <1>2, <2>1, <2>2, BeginStepKeeps, CrashKeeps
<1> QED BY <1>1, <1>2 DEF StoreNext

\* The type invariant and the inductive invariant of a project's directory under saves and loads:
\* calls know of the saves they overlap with, what is settled is on the disk, and what a call has
\* written or read of a place that is not raced is there.
THEOREM DiskInvariance == StoreSpec => [](TypeOK /\ DiskInv)
<1>1. ASSUME DiskInv PROVE TypeOK
  <2>1. ASSUME NEW c \in Clients
        PROVE  /\ client[c] \in Calls /\ DOMAIN client[c].loaded \subseteq AllPlaces
               /\ \A p \in DOMAIN client[c].loaded : client[c].loaded[p] \in Written \cup {Blank}
    <3>1. client[c] \in Calls
      BY <1>1, OfCall
    <3>2. client[c].loaded \in Loads
      BY <3>1 DEF Calls
    <3>3. PICK places \in SUBSET AllPlaces : client[c].loaded \in [places -> Written \cup {Blank}]
      BY <3>2 DEF Loads
    <3> QED BY <3>1, <3>3
  <2>2. disk \in [Paths -> Contents] /\ settled \in [Paths -> Written \cup {Absent, Unknown}] /\ calls \in 0..MaxCalls
    BY <1>1 DEF DiskInv
  <2>3. ASSUME NEW c \in Clients
        PROVE  /\ client[c].op \in {"idle", "save", "load"}
               /\ client[c].step \in {"validate", "mkdir", "file", "workers", "returned"}
               /\ client[c].project \in Names \cup {Unknown} /\ client[c].depth \in 0..2
               /\ client[c].todo \subseteq Paths \cup {Listing(part) : part \in Parts}
               /\ client[c].writing \subseteq Places \cup {File}
               /\ client[c].ok \in BOOLEAN /\ client[c].raced \subseteq Paths
    BY <2>1 DEF Calls
  <2> QED BY <2>1, <2>2, <2>3 DEF TypeOK, Paths
<1> QED BY <1>1, DiskInit, DiskStep, PTL DEF StoreSpec

\* A project that is loaded holds, part by part, what the saves have made of it, whatever else is
\* saved, fails or dies meanwhile.
THEOREM LoadsFindWhatIsSaved == StoreSpec => []RoundTrip
<1>1. ASSUME DiskInv PROVE RoundTrip
  <2> SUFFICES ASSUME NEW c \in Clients, Answered(c), client[c].ok, client[c].depth # 1,
                      NEW p \in AllPlaces, Known(c, p)
               PROVE  FoundAt(c, p) = IF p[1] \in DirParts /\ settled[p] # Absent THEN Blank ELSE settled[p]
    BY DEF RoundTrip
  <2>1. client[c].op = "load" /\ client[c].step = "returned" /\ settled[p] # Unknown /\ p \notin client[c].raced
    BY DEF Answered, Known
  <2>2. client[c].todo = {} /\ LoadedOf(client[c], p, disk[p])
    BY <1>1, <2>1, OfCall DEF InStep, Relies, LoadedIsThere
  <2>3. disk[p] = settled[p]
    BY <1>1, <2>1 DEF DiskInv, SettledIsThere, Paths
  <2>4. IF disk[p] = Absent THEN p \notin DOMAIN client[c].loaded
        ELSE /\ p \in DOMAIN client[c].loaded
             /\ client[c].loaded[p] = IF p[1] \in DirParts THEN Blank ELSE disk[p]
    BY <2>2 DEF LoadedOf
  <2> QED BY <2>3, <2>4 DEF FoundAt
<1> QED BY <1>1, DiskInvariance, PTL

\* A load fails only for a project file that is missing, or for something that a save is writing,
\* has failed to write or has died over, or that was broken before.
THEOREM LoadFailuresAreExplained == StoreSpec => []LoadFailureExplained
<1>1. ASSUME DiskInv PROVE LoadFailureExplained
  <2> SUFFICES ASSUME NEW c \in Clients, Answered(c), ~client[c].ok
               PROVE  \/ ~Known(c, File) \/ settled[File] = Absent
                      \/ client[c].depth # 1 /\ \E p \in AllPlaces : ~Known(c, p)
    BY DEF LoadFailureExplained
  <2>1. \/ File \notin client[c].raced => disk[File] \notin Written
        \/ client[c].depth # 1 /\ \E p \in AllPlaces : p \in client[c].raced \/ disk[p] = Empty
    BY <1>1, OfCall DEF Answered, Relies, FailureIsThere
  <2>2. \A p \in Paths : settled[p] # Unknown => disk[p] = settled[p] /\ settled[p] \in Written \cup {Absent}
    BY <1>1 DEF DiskInv, SettledIsThere
  <2>3. CASE File \notin client[c].raced => disk[File] \notin Written
    BY <2>2, <2>3 DEF Known, Paths
  <2>4. CASE client[c].depth # 1 /\ \E p \in AllPlaces : p \in client[c].raced \/ disk[p] = Empty
    BY <2>2, <2>4, WordsDiffer DEF Known, Paths
  <2> QED BY <2>1, <2>3, <2>4
<1> QED BY <1>1, DiskInvariance, PTL
=============================================================================
