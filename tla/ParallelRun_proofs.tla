-------------------------- MODULE ParallelRun_proofs --------------------------
(***************************************************************************)
(* Proofs about parallel.Run for any number of workers: type correctness,  *)
(* no lost error, that Run implements RunContract (its safety part), and   *)
(* that it runs out of steps nowhere but at its return.                    *)
(***************************************************************************)
EXTENDS ParallelRun, FiniteSetTheorems, TLAPS

\* Goroutines that have not called wg.Done yet, started or not.
Unfinished == {w \in Workers : pc[w] # "done"}

\* Where a goroutine is tells what its worker function returned.
PcMatchesOutcome ==
  \A w \in Workers :
    /\ pc[w] \in {"idle", "working"} <=> outcome[w] = "pending"
    /\ pc[w] \in {"failed", "locked"} => outcome[w] = "err"

SpawnedPrefix == \A w \in Workers : pc[w] = "idle" <=> w > spawned

\* The mutex is held by the one goroutine inside the critical section, whose reading of
\* errs is still current.
MutexInv ==
  /\ \A w \in Workers : pc[w] = "locked" <=> mutex = w
  /\ \A w \in Workers : pc[w] = "locked" => seen[w] = errs

WaitGroupInv == wg = Cardinality(Unfinished)

\* The call has returned only when every goroutine is done, and with what errs holds.
ResultInv ==
  /\ ~result.returned => result = Running
  /\ result.returned =>
       /\ wg = 0
       /\ spawned = N

IInv ==
  /\ TypeOK
  /\ PcMatchesOutcome
  /\ SpawnedPrefix
  /\ MutexInv
  /\ WaitGroupInv
  /\ NoLostError
  /\ ResultInv

LEMMA WorkersFinite == IsFiniteSet(Workers) /\ Cardinality(Workers) = N
  BY NAssumption, FS_Interval DEF Workers

LEMMA SubsetOfWorkers ==
  ASSUME NEW S \in SUBSET Workers
  PROVE  IsFiniteSet(S) /\ Cardinality(S) \in 0..N
<1>1. IsFiniteSet(S) /\ Cardinality(S) <= Cardinality(Workers)
  BY WorkersFinite, FS_Subset
<1>2. Cardinality(S) \in Nat
  BY <1>1, FS_CardinalityType
<1> QED BY <1>1, <1>2, WorkersFinite, NAssumption
LEMMA RemoveFromSubset ==
  ASSUME NEW S \in SUBSET Workers, NEW w \in S
  PROVE  /\ Cardinality(S \ {w}) = Cardinality(S) - 1
         /\ Cardinality(S) > 0
<1>1. IsFiniteSet(S) /\ Cardinality(S) \in 0..N
  BY SubsetOfWorkers
<1>2. Cardinality(S \ {w}) = Cardinality(S) - 1
  BY <1>1, FS_RemoveElement
<1>3. Cardinality(S \ {w}) \in 0..N
  BY SubsetOfWorkers
<1> QED BY <1>1, <1>2, <1>3, NAssumption

LEMMA AddToSubset ==
  ASSUME NEW S \in SUBSET Workers, NEW w \in Workers, w \notin S
  PROVE  Cardinality(S \cup {w}) = Cardinality(S) + 1
BY SubsetOfWorkers, FS_AddElement

LEMMA AppendRange ==
  ASSUME NEW s \in Seq(Workers), NEW w \in Workers
  PROVE  /\ Append(s, w) \in Seq(Workers)
         /\ Len(Append(s, w)) = Len(s) + 1
         /\ Entries(Append(s, w)) = Entries(s) \cup {w}
<1>1. Append(s, w) \in Seq(Workers) /\ Len(Append(s, w)) = Len(s) + 1
  OBVIOUS
<1>2. Len(s) \in Nat
  OBVIOUS
<1>3. \A i \in 1..Len(s) : Append(s, w)[i] = s[i]
  OBVIOUS
<1>4. Append(s, w)[Len(s) + 1] = w
  OBVIOUS
<1>5. 1..(Len(s) + 1) = (1..Len(s)) \cup {Len(s) + 1}
  BY <1>2
<1> QED BY <1>1, <1>3, <1>4, <1>5 DEF Entries
-----------------------------------------------------------------------------
LEMMA InitIInv == Init => IInv
<1> SUFFICES ASSUME Init PROVE IInv
  OBVIOUS
<1> USE NAssumption DEF Init
<1>1. TypeOK
  BY DEF TypeOK, Running, NoWorker, Workers
<1>2. PcMatchesOutcome /\ SpawnedPrefix /\ MutexInv /\ ResultInv
  BY DEF PcMatchesOutcome, SpawnedPrefix, MutexInv, ResultInv, Workers, NoWorker, Running
<1>3. WaitGroupInv
  <2>1. Unfinished = Workers
    BY DEF Unfinished
  <2> QED BY <2>1, WorkersFinite DEF WaitGroupInv
<1>4. NoLostError
  <2>1. Recorded = {}
    BY DEF Recorded
  <2>2. Len(errs) = 0 /\ Entries(errs) = {}
    BY DEF Entries
  <2> QED BY <2>1, <2>2, FS_EmptySet DEF NoLostError
<1> QED BY <1>1, <1>2, <1>3, <1>4 DEF IInv

-----------------------------------------------------------------------------
\* One lemma per action: the step keeps every conjunct of IInv.

\* Steps that leave Recorded and errs alone keep NoLostError.
LEMMA KeepsErrors ==
  ASSUME NoLostError, UNCHANGED errs, Recorded' = Recorded
  PROVE  NoLostError'
BY DEF NoLostError

LEMMA KeepsCount ==
  ASSUME WaitGroupInv, UNCHANGED wg, Unfinished' = Unfinished
  PROVE  WaitGroupInv'
BY DEF WaitGroupInv

LEMMA SpawnStep == IInv /\ Spawn => IInv'
<1> SUFFICES ASSUME IInv, Spawn PROVE IInv'
  OBVIOUS
<1> USE NAssumption DEF IInv, Spawn, TypeOK, Workers
<1>0. spawned + 1 \in Workers /\ pc[spawned + 1] = "idle"
  BY DEF SpawnedPrefix
<1>1. TypeOK'
  OBVIOUS
<1>2a. PcMatchesOutcome' /\ MutexInv'
  BY <1>0 DEF PcMatchesOutcome, MutexInv
<1>2b. SpawnedPrefix'
  BY <1>0 DEF SpawnedPrefix
<1>2c. ResultInv'
  BY DEF ResultInv
<1>3. WaitGroupInv'
  <2>1. Unfinished' = Unfinished
    BY <1>0 DEF Unfinished
  <2> QED BY <2>1, KeepsCount
<1>4. NoLostError'
  <2>1. Recorded' = Recorded
    BY <1>0 DEF Recorded
  <2> QED BY <2>1, KeepsErrors
<1> QED BY <1>1, <1>2a, <1>2b, <1>2c, <1>3, <1>4

LEMMA WorkerReturnsStep ==
  ASSUME NEW w \in Workers, IInv, WorkerReturns(w)
  PROVE  IInv'
<1> USE NAssumption DEF IInv, WorkerReturns, TypeOK, AfterWork
<1>0. PICK o \in {"ok", "err"} :
        /\ outcome' = [outcome EXCEPT ![w] = o]
        /\ pc' = [pc EXCEPT ![w] = AfterWork(o)]
  OBVIOUS
<1>1. TypeOK'
  BY <1>0
<1>2. PcMatchesOutcome' /\ SpawnedPrefix' /\ MutexInv' /\ ResultInv'
  BY <1>0 DEF PcMatchesOutcome, SpawnedPrefix, MutexInv, ResultInv, NoWorker
<1>3. WaitGroupInv'
  <2>1. Unfinished' = Unfinished
    BY <1>0 DEF Unfinished
  <2> QED BY <2>1, KeepsCount
<1>4. NoLostError'
  <2>1. Recorded' = Recorded
    BY <1>0 DEF Recorded, PcMatchesOutcome
  <2> QED BY <2>1, KeepsErrors
<1> QED BY <1>1, <1>2, <1>3, <1>4

LEMMA LockAndReadStep ==
  ASSUME NEW w \in Workers, IInv, LockAndRead(w)
  PROVE  IInv'
<1> USE NAssumption DEF IInv, LockAndRead, TypeOK
<1>1. TypeOK'
  OBVIOUS
<1>2. PcMatchesOutcome' /\ SpawnedPrefix' /\ ResultInv'
  BY DEF PcMatchesOutcome, SpawnedPrefix, ResultInv
<1>3. MutexInv'
  BY DEF MutexInv, NoWorker, Workers
<1>4. WaitGroupInv'
  <2>1. Unfinished' = Unfinished
    BY DEF Unfinished
  <2> QED BY <2>1, KeepsCount
<1>5. NoLostError'
  <2>1. Recorded' = Recorded
    BY DEF Recorded
  <2> QED BY <2>1, KeepsErrors
<1> QED BY <1>1, <1>2, <1>3, <1>4, <1>5

LEMMA WriteAndUnlockStep ==
  ASSUME NEW w \in Workers, IInv, WriteAndUnlock(w)
  PROVE  IInv'
<1> USE NAssumption DEF IInv, WriteAndUnlock, TypeOK
<1>0. seen[w] = errs /\ errs' = Append(errs, w)
  BY DEF MutexInv
<1>1. TypeOK'
  BY <1>0
<1>2. PcMatchesOutcome' /\ SpawnedPrefix' /\ ResultInv'
  BY DEF PcMatchesOutcome, SpawnedPrefix, ResultInv
<1>3. MutexInv'
  BY DEF MutexInv, NoWorker, Workers
<1>4. WaitGroupInv'
  <2>1. Unfinished' = Unfinished
    BY DEF Unfinished
  <2> QED BY <2>1, KeepsCount
<1>5. NoLostError'
  <2>1. Recorded' = Recorded \cup {w} /\ w \notin Recorded /\ Recorded \in SUBSET Workers
    BY DEF Recorded, PcMatchesOutcome
  <2>2. Cardinality(Recorded') = Cardinality(Recorded) + 1
    BY <2>1, AddToSubset
  <2>3. /\ Len(errs') = Len(errs) + 1
        /\ Entries(errs') = Entries(errs) \cup {w}
    BY <1>0, AppendRange
  <2> QED BY <2>1, <2>2, <2>3 DEF NoLostError
<1> QED BY <1>1, <1>2, <1>3, <1>4, <1>5

LEMMA DoneStep ==
  ASSUME NEW w \in Workers, IInv, Done(w)
  PROVE  IInv'
<1> USE NAssumption DEF IInv, Done, TypeOK
<1>0. /\ Unfinished' = Unfinished \ {w} /\ w \in Unfinished
      /\ Unfinished \in SUBSET Workers
  BY DEF Unfinished
<1>1. /\ Cardinality(Unfinished') = Cardinality(Unfinished) - 1
      /\ Cardinality(Unfinished) > 0
  BY <1>0, RemoveFromSubset
<1>2. WaitGroupInv'
  BY <1>1 DEF WaitGroupInv
<1>3. TypeOK'
  <2>1. wg' \in 0..N
    BY <1>1 DEF WaitGroupInv
  <2> QED BY <2>1
<1>4. PcMatchesOutcome' /\ SpawnedPrefix' /\ MutexInv'
  BY DEF PcMatchesOutcome, SpawnedPrefix, MutexInv, NoWorker, Workers
<1>5. ResultInv'
  BY <1>1 DEF ResultInv, WaitGroupInv
<1>6. NoLostError'
  <2>1. Recorded' = Recorded
    BY DEF Recorded
  <2> QED BY <2>1, KeepsErrors
<1> QED BY <1>2, <1>3, <1>4, <1>5, <1>6

LEMMA ReturnStep == IInv /\ Return => IInv'
<1> SUFFICES ASSUME IInv, Return PROVE IInv'
  OBVIOUS
<1> USE NAssumption DEF IInv, Return, TypeOK
<1>1. TypeOK'
  BY DEF NoWorker
<1>2. PcMatchesOutcome' /\ SpawnedPrefix' /\ MutexInv' /\ ResultInv'
  BY DEF PcMatchesOutcome, SpawnedPrefix, MutexInv, ResultInv
<1>3. Unfinished' = Unfinished /\ Recorded' = Recorded
  BY DEF Unfinished, Recorded
<1>4. WaitGroupInv' /\ NoLostError'
  BY <1>3, KeepsCount, KeepsErrors
<1> QED BY <1>1, <1>2, <1>4

LEMMA StutterStep == IInv /\ UNCHANGED vars => IInv'
<1> SUFFICES ASSUME IInv, UNCHANGED vars PROVE IInv'
  OBVIOUS
<1> USE DEF IInv, vars
<1>1. TypeOK' /\ PcMatchesOutcome' /\ SpawnedPrefix' /\ MutexInv' /\ ResultInv'
  BY DEF TypeOK, PcMatchesOutcome, SpawnedPrefix, MutexInv, ResultInv
<1>2. Unfinished' = Unfinished /\ Recorded' = Recorded
  BY DEF Unfinished, Recorded
<1>3. WaitGroupInv' /\ NoLostError'
  BY <1>2, KeepsCount, KeepsErrors
<1> QED BY <1>1, <1>3

LEMMA NextStep == IInv /\ [Next]_vars => IInv'
<1> SUFFICES ASSUME IInv, [Next]_vars PROVE IInv'
  OBVIOUS
<1>1. CASE Spawn
  BY <1>1, SpawnStep
<1>2. CASE Return
  BY <1>2, ReturnStep
<1>3. CASE Returned \/ UNCHANGED vars
  BY <1>3, StutterStep DEF Returned
<1>4. ASSUME NEW w \in Workers, Goroutine(w) PROVE IInv'
  BY <1>4, WorkerReturnsStep, LockAndReadStep, WriteAndUnlockStep, DoneStep DEF Goroutine
<1> QED BY <1>1, <1>2, <1>3, <1>4 DEF Next

\* The inductive invariant holds in every reachable state.
THEOREM Invariance == Safety => []IInv
BY InitIInv, NextStep, PTL DEF Safety

\* Every variable keeps its type; in particular the WaitGroup's counter never goes
\* below zero, where Go's sync.WaitGroup panics.
THEOREM TypeCorrect == Safety => []TypeOK
BY Invariance, PTL DEF IInv

\* No error that a worker returned is overwritten in the slice, whatever the
\* interleaving of the goroutines.
THEOREM ErrorsKept == Safety => []NoLostError
BY Invariance, PTL DEF IInv
-----------------------------------------------------------------------------
\* When the WaitGroup's counter is zero, every goroutine is done.
LEMMA ZeroMeansDone ==
  ASSUME IInv, wg = 0
  PROVE  \A w \in Workers : pc[w] = "done"
<1> SUFFICES ASSUME NEW w \in Workers, pc[w] # "done" PROVE FALSE
  OBVIOUS
<1>1. Unfinished \in SUBSET Workers /\ w \in Unfinished
  BY DEF Unfinished
<1>2. Cardinality(Unfinished) > 0
  BY <1>1, RemoveFromSubset
<1> QED BY <1>2 DEF IInv, WaitGroupInv

LEMMA InitMaps == Init => Contract!ContractInit
BY DEF Init, Contract!ContractInit, Contract!Running, Running, Contract!Workers, Workers,
       Contract!NoWorker, NoWorker

LEMMA WorkerReturnsMaps ==
  ASSUME NEW w \in Workers, IInv, WorkerReturns(w)
  PROVE  Contract!Finish(w)
<1>1. outcome[w] = "pending"
  BY DEF IInv, PcMatchesOutcome, WorkerReturns
<1>2. ~result.returned
  BY ZeroMeansDone DEF IInv, ResultInv, WorkerReturns
<1> QED BY <1>1, <1>2 DEF WorkerReturns, Contract!Finish

LEMMA ReturnMaps == IInv /\ Return => Contract!ReturnToCaller
<1> SUFFICES ASSUME IInv, Return PROVE Contract!ReturnToCaller
  OBVIOUS
<1>1. \A w \in Workers : pc[w] = "done" /\ outcome[w] # "pending"
  BY ZeroMeansDone DEF Return, IInv, PcMatchesOutcome
<1>2. Contract!Failed = Recorded
  BY <1>1 DEF Contract!Failed, Contract!Workers, Workers, Recorded
<1>3. Len(errs) = Cardinality(Contract!Failed) /\ Entries(errs) = Contract!Failed
  BY <1>2 DEF IInv, NoLostError
<1>4. errs = <<>> => Contract!Failed = {}
  BY <1>3 DEF Entries
<1>5. errs # <<>> => errs[1] \in Contract!Failed
  <2> SUFFICES ASSUME errs # <<>> PROVE errs[1] \in Entries(errs)
    BY <1>3
  <2>1. 1 \in 1..Len(errs)
    BY DEF IInv, TypeOK
  <2> QED BY <2>1 DEF Entries
<1>6. (IF errs = <<>> THEN NoWorker ELSE errs[1])
         \in IF Contract!Failed = {} THEN {Contract!NoWorker} ELSE Contract!Failed
  BY <1>4, <1>5 DEF NoWorker, Contract!NoWorker
<1>7. Contract!Cardinality(Contract!Failed) = Cardinality(Contract!Failed)
  BY DEF Cardinality, Contract!Cardinality
<1> QED BY <1>1, <1>3, <1>6, <1>7
        DEF Return, Contract!ReturnToCaller, Contract!Workers, Workers

LEMMA StepMaps == IInv /\ [Next]_vars => [Contract!ContractNext]_(Contract!contractVars)
<1> SUFFICES ASSUME IInv, [Next]_vars
             PROVE  [Contract!ContractNext]_(Contract!contractVars)
  OBVIOUS
<1> USE DEF Contract!ContractNext, Contract!contractVars
<1>1. CASE Return
  BY <1>1, ReturnMaps
<1>2. CASE Spawn \/ Returned \/ UNCHANGED vars
  BY <1>2 DEF Spawn, Returned, vars
<1>3. ASSUME NEW w \in Workers, WorkerReturns(w)
      PROVE  [Contract!ContractNext]_(Contract!contractVars)
  BY <1>3, WorkerReturnsMaps DEF Contract!Workers, Workers
<1>4. ASSUME NEW w \in Workers, LockAndRead(w) \/ WriteAndUnlock(w) \/ Done(w)
      PROVE  [Contract!ContractNext]_(Contract!contractVars)
  BY <1>4 DEF LockAndRead, WriteAndUnlock, Done
<1> QED BY <1>1, <1>2, <1>3, <1>4 DEF Next, Goroutine

\* parallel.Run implements its contract, for any number of workers: it returns only
\* after every worker has, with the number of failures and the error of one of them.
THEOREM Refinement == Safety => Contract!ContractSafety
<1>1. IInv /\ [Next]_vars => [Contract!ContractNext]_(Contract!contractVars)
  BY StepMaps
<1> QED BY InitMaps, <1>1, Invariance, PTL DEF Safety, Contract!ContractSafety

-----------------------------------------------------------------------------
\* Why the call ends: what its goroutines have still to do

\* The places that a goroutine comes to after the one where it is; without an error it
\* leaves some of them out.
PlacesAfter(place) ==
  CASE place = "idle" -> {"working", "failed", "locked", "finishing", "done"}
    [] place = "working" -> {"failed", "locked", "finishing", "done"}
    [] place = "failed" -> {"locked", "finishing", "done"}
    [] place = "locked" -> {"finishing", "done"}
    [] place = "finishing" -> {"done"}
    [] OTHER -> {}
AllPlaces == PlacesAfter("idle")
PlacesAhead == {p \in Workers \X AllPlaces : p[2] \in PlacesAfter(pc[p[1]])}
StepsAhead == Cardinality(PlacesAhead) + IF result.returned THEN 0 ELSE 1

\* Every step but the stutter after the return leaves less to do.
StepsRunOut == [][StepsAhead' < StepsAhead]_vars

\* The guards of Spawn, of Return and of a goroutine's steps.
CanGo(w) ==
  \/ pc[w] \in {"working", "locked", "finishing"}
  \/ pc[w] = "failed" /\ mutex = NoWorker
NeverStuck ==
  ~result.returned => spawned < N \/ (spawned = N /\ wg = 0) \/ \E w \in Workers : CanGo(w)

LEMMA AheadIsFinite ==
  IsFiniteSet(PlacesAhead) /\ Cardinality(PlacesAhead) \in Nat /\ StepsAhead \in Nat
<1>1. IsFiniteSet(AllPlaces)
  <2>1. IsFiniteSet({}) /\ IsFiniteSet({"working"})
    BY FS_EmptySet, FS_Singleton
  <2>2. AllPlaces = ((({"working"} \cup {"failed"}) \cup {"locked"}) \cup {"finishing"}) \cup {"done"}
    BY DEF AllPlaces, PlacesAfter
  <2> QED BY <2>1, <2>2, FS_AddElement
<1>2. PlacesAhead \in SUBSET (Workers \X AllPlaces)
  BY DEF PlacesAhead
<1>3. IsFiniteSet(PlacesAhead)
  BY <1>1, <1>2, WorkersFinite, FS_Product, FS_Subset
<1>4. Cardinality(PlacesAhead) \in Nat
  BY <1>3, FS_CardinalityType
<1> QED BY <1>3, <1>4 DEF StepsAhead

\* A goroutine goes on, all others stay where they are.
LEMMA GoesOn ==
  ASSUME TypeOK, NEW w \in Workers, NEW place, pc' = [pc EXCEPT ![w] = place],
         place \in PlacesAfter(pc[w]), PlacesAfter(place) \subseteq PlacesAfter(pc[w]) \ {place},
         result' = result
  PROVE  StepsAhead' < StepsAhead
<1>1. pc'[w] = place /\ \A u \in Workers : u # w => pc'[u] = pc[u]
  BY DEF TypeOK
<1>2. \A u \in Workers : PlacesAfter(pc'[u]) \subseteq PlacesAfter(pc[u])
  <2> SUFFICES ASSUME NEW u \in Workers PROVE PlacesAfter(pc'[u]) \subseteq PlacesAfter(pc[u])
    OBVIOUS
  <2> QED BY <1>1
<1>3. PlacesAhead' \in SUBSET PlacesAhead
  BY <1>2 DEF PlacesAhead
<1>4. <<w, place>> \in PlacesAhead
  <2>1. place \in AllPlaces
    BY DEF AllPlaces, PlacesAfter
  <2> QED BY <2>1 DEF PlacesAhead
<1>5. <<w, place>> \notin PlacesAhead'
  BY <1>1 DEF PlacesAhead
<1>6. /\ Cardinality(PlacesAhead') <= Cardinality(PlacesAhead)
      /\ Cardinality(PlacesAhead) # Cardinality(PlacesAhead')
  BY <1>3, <1>4, <1>5, AheadIsFinite, FS_Subset
<1>7. Cardinality(PlacesAhead') \in Nat
  BY <1>3, AheadIsFinite, FS_Subset, FS_CardinalityType
<1> QED BY <1>6, <1>7, AheadIsFinite DEF StepsAhead

LEMMA StepIsAhead == IInv /\ [Next]_vars => [StepsAhead' < StepsAhead]_vars
<1> SUFFICES ASSUME IInv, Next, vars' # vars PROVE StepsAhead' < StepsAhead
  OBVIOUS
<1>0. TypeOK
  BY DEF IInv
<1>1. CASE Spawn
  <2>1. spawned + 1 \in Workers /\ spawned + 1 > spawned
    BY <1>0, <1>1, NAssumption DEF Spawn, TypeOK, Workers
  <2>2. pc[spawned + 1] = "idle"
    BY <2>1 DEF IInv, SpawnedPrefix
  <2>3. PICK w \in Workers : w = spawned + 1
    BY <2>1
  <2>4. pc' = [pc EXCEPT ![w] = "working"] /\ pc[w] = "idle" /\ result' = result
    BY <1>1, <2>2, <2>3 DEF Spawn
  <2>5. "working" \in PlacesAfter(pc[w]) /\ PlacesAfter("working") \subseteq PlacesAfter(pc[w]) \ {"working"}
    BY <2>4 DEF PlacesAfter
  <2> QED BY <1>0, <2>4, <2>5, GoesOn
<1>2. CASE Return
  <2>1. result.returned = FALSE /\ result'.returned = TRUE
    BY <1>0, <1>2 DEF Return, TypeOK
  <2>2. PlacesAhead' = PlacesAhead
    BY <1>2 DEF Return, PlacesAhead
  <2> QED BY <2>1, <2>2, AheadIsFinite DEF StepsAhead
<1>3. ASSUME NEW w \in Workers, Goroutine(w) PROVE StepsAhead' < StepsAhead
  <2>1. PICK place :
          /\ pc' = [pc EXCEPT ![w] = place] /\ result' = result
          /\ \/ pc[w] = "working" /\ place \in {"failed", "finishing"}
             \/ pc[w] = "failed" /\ place = "locked"
             \/ pc[w] = "locked" /\ place = "finishing"
             \/ pc[w] = "finishing" /\ place = "done"
    BY <1>3 DEF Goroutine, WorkerReturns, AfterWork, LockAndRead, WriteAndUnlock, Done
  <2>2. place \in PlacesAfter(pc[w]) /\ PlacesAfter(place) \subseteq PlacesAfter(pc[w]) \ {place}
    BY <2>1 DEF PlacesAfter
  <2> QED BY <1>0, <2>1, <2>2, GoesOn
<1> QED BY <1>1, <1>2, <1>3 DEF Next, Returned

\* With all goroutines started and none that can go on, the counter is zero: whoever waits
\* for the mutex waits for a goroutine that holds it and can go on.
LEMMA IInvGoesOn == IInv => NeverStuck
<1> SUFFICES ASSUME IInv, spawned = N, wg # 0 PROVE \E w \in Workers : CanGo(w)
  BY NAssumption DEF NeverStuck, IInv, TypeOK
<1>1. \E w \in Workers : pc[w] # "done"
  <2> SUFFICES ASSUME Unfinished = {} PROVE FALSE
    BY DEF Unfinished
  <2> QED BY FS_EmptySet DEF IInv, WaitGroupInv
<1>2. PICK w \in Workers : pc[w] # "done"
  BY <1>1
<1>3. pc[w] # "idle"
  BY NAssumption DEF IInv, SpawnedPrefix, Workers
<1>4. CASE pc[w] = "failed" /\ mutex # NoWorker
  <2>1. mutex \in Workers /\ pc[mutex] = "locked"
    BY <1>4 DEF IInv, TypeOK, MutexInv
  <2> QED BY <2>1 DEF CanGo
<1> QED BY <1>2, <1>3, <1>4 DEF CanGo, IInv, TypeOK

\* parallel.Run comes to its end for any number of workers: every step of a goroutine or of
\* the caller leaves less to do, of which there is finitely much, and until the call returns
\* somebody can go on, so nobody waits for the mutex or the WaitGroup for ever.
THEOREM RunRunsOut == Safety => [](StepsAhead \in Nat /\ NeverStuck) /\ StepsRunOut
<1>1. [](StepsAhead \in Nat)
  BY AheadIsFinite, PTL
<1> QED BY <1>1, Invariance, IInvGoesOn, StepIsAhead, PTL DEF Safety, StepsRunOut
==============================================================================
