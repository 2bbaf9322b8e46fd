----------------------------- MODULE ParallelRun -----------------------------
(***************************************************************************)
(* pkg/parallel/runner.go, func Run: one goroutine per worker, a WaitGroup *)
(* the caller blocks on and a mutex around the slice of errors.            *)
(***************************************************************************)
EXTENDS Naturals, FiniteSets, Sequences

CONSTANT N                    \* len(workers)
ASSUME NAssumption == N \in Nat

VARIABLES
  spawned,                    \* how many goroutines the loop has started
  pc,                         \* control state of each goroutine
  outcome,                    \* what each worker function has returned
  wg,                         \* the WaitGroup's counter
  mutex,                      \* holder of the mutex, NoWorker when free
  seen,                       \* the errs slice as a goroutine's append has read it
  errs,                       \* the errors, named by the worker that returned them
  result                      \* what Run has returned to its caller

vars == <<spawned, pc, outcome, wg, mutex, seen, errs, result>>

Workers == 1..N
NoWorker == 0
Running == [returned |-> FALSE, failed |-> 0, first |-> NoWorker]

TypeOK ==
  /\ spawned \in 0..N
  /\ pc \in [Workers -> {"idle", "working", "failed", "locked", "finishing", "done"}]
  /\ outcome \in [Workers -> {"pending", "ok", "err"}]
  /\ wg \in 0..N
  /\ mutex \in Workers \cup {NoWorker}
  /\ seen \in [Workers -> Seq(Workers)]
  /\ errs \in Seq(Workers)
  /\ result \in [returned : BOOLEAN, failed : Nat, first : Workers \cup {NoWorker}]

\* wg.Add(len(workers)) precedes the first goroutine.
Init ==
  /\ spawned = 0
  /\ pc = [w \in Workers |-> "idle"]
  /\ outcome = [w \in Workers |-> "pending"]
  /\ wg = N
  /\ mutex = NoWorker
  /\ seen = [w \in Workers |-> <<>>]
  /\ errs = <<>>
  /\ result = Running

Spawn ==
  /\ spawned < N
  /\ spawned' = spawned + 1
  /\ pc' = [pc EXCEPT ![spawned + 1] = "working"]
  /\ UNCHANGED <<outcome, wg, mutex, seen, errs, result>>

\* Mutant: the error path leaves the goroutine without wg.Done().
AfterWorkNoDone(o) == IF o = "err" THEN "done" ELSE "finishing"

AfterWork(o) == IF o = "err" THEN "failed" ELSE "finishing"

WorkerReturns(w) ==
  /\ pc[w] = "working"
  /\ \E o \in {"ok", "err"} :
       /\ outcome' = [outcome EXCEPT ![w] = o]
       /\ pc' = [pc EXCEPT ![w] = AfterWork(o)]
  /\ UNCHANGED <<spawned, wg, mutex, seen, errs, result>>

\* Mutant: errs is read without the mutex.
ReadUnlocked(w) ==
  /\ pc[w] = "failed"
  /\ mutex' = w
  /\ seen' = [seen EXCEPT ![w] = errs]
  /\ pc' = [pc EXCEPT ![w] = "locked"]
  /\ UNCHANGED <<spawned, outcome, wg, errs, result>>

\* mutex.Lock(), then append's read of errs; the write is a step of its own, so that
\* a second goroutine in the critical section would overwrite it.
LockAndRead(w) ==
  /\ pc[w] = "failed"
  /\ mutex = NoWorker
  /\ mutex' = w
  /\ seen' = [seen EXCEPT ![w] = errs]
  /\ pc' = [pc EXCEPT ![w] = "locked"]
  /\ UNCHANGED <<spawned, outcome, wg, errs, result>>

WriteAndUnlock(w) ==
  /\ pc[w] = "locked"
  /\ errs' = Append(seen[w], w)
  /\ mutex' = NoWorker
  /\ pc' = [pc EXCEPT ![w] = "finishing"]
  /\ UNCHANGED <<spawned, outcome, wg, seen, result>>

\* Mutant: wg.Done() for the worker and once more for its error.
DoneTwice(w) ==
  /\ pc[w] = "finishing"
  /\ wg' = wg - (IF outcome[w] = "err" THEN 2 ELSE 1)
  /\ pc' = [pc EXCEPT ![w] = "done"]
  /\ UNCHANGED <<spawned, outcome, mutex, seen, errs, result>>

Done(w) ==
  /\ pc[w] = "finishing"
  /\ wg' = wg - 1
  /\ pc' = [pc EXCEPT ![w] = "done"]
  /\ UNCHANGED <<spawned, outcome, mutex, seen, errs, result>>

\* Mutant: the call returns as soon as the first error is known.
ReturnOnFirstError ==
  /\ wg = 0 \/ errs # <<>>
  /\ ~result.returned
  /\ result' = [returned |-> TRUE, failed |-> Len(errs),
                first |-> IF errs = <<>> THEN NoWorker ELSE errs[1]]
  /\ UNCHANGED <<spawned, pc, outcome, wg, mutex, seen, errs>>

\* wg.Wait() returns, and Run formats len(errs) and errs[0], or returns nil.
Return ==
  /\ spawned = N
  /\ wg = 0
  /\ ~result.returned
  /\ result' = [returned |-> TRUE, failed |-> Len(errs),
                first |-> IF errs = <<>> THEN NoWorker ELSE errs[1]]
  /\ UNCHANGED <<spawned, pc, outcome, wg, mutex, seen, errs>>

\* The call is over; without this step TLC would take the end for a deadlock.
Returned == result.returned /\ UNCHANGED vars

Goroutine(w) == WorkerReturns(w) \/ LockAndRead(w) \/ WriteAndUnlock(w) \/ Done(w)
Next == Spawn \/ Return \/ Returned \/ \E w \in Workers : Goroutine(w)

Safety == Init /\ [][Next]_vars

\* The Go scheduler runs every runnable goroutine; each locks the mutex at most once,
\* so weak fairness is enough for it too. That a worker function returns is the
\* caller's duty, so it is stated apart.
Scheduling ==
  /\ WF_vars(Spawn) /\ WF_vars(Return)
  /\ \A w \in Workers : WF_vars(LockAndRead(w) \/ WriteAndUnlock(w) \/ Done(w))
WorkersReturn == \A w \in Workers : WF_vars(WorkerReturns(w))

Spec == Safety /\ Scheduling
FairSpec == Spec /\ WorkersReturn
-----------------------------------------------------------------------------
Entries(s) == {s[i] : i \in 1..Len(s)}
Recorded == {w \in Workers : outcome[w] = "err" /\ pc[w] \in {"finishing", "done"}}

\* The error slice holds exactly the errors of the goroutines that have left the
\* critical section, each once: no append overwrites another.
NoLostError ==
  /\ Len(errs) = Cardinality(Recorded)
  /\ Entries(errs) = Recorded

\* "awaits for all of them to finish before returning" and "failed N out of M workers,
\* 1st error": Run, goroutines and all, does what RunContract allows and nothing else.
Contract == INSTANCE RunContract
ImplementsContract == Contract!ContractSpec

\* If every worker function returns, Run returns: no goroutine leaves without wg.Done
\* and none waits for the mutex for ever.
RunReturns == <>result.returned
==============================================================================
