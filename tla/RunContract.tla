----------------------------- MODULE RunContract -----------------------------
(***************************************************************************)
(* What a caller of parallel.Run may rely on, with no goroutine, mutex or  *)
(* WaitGroup in sight: the call returns once, after every worker function  *)
(* has returned, and its error counts the failures and quotes one of them. *)
(***************************************************************************)
EXTENDS Naturals, FiniteSets

CONSTANT N                    \* number of workers passed to the call, at least 0

VARIABLES
  outcome,                    \* what each worker function has returned so far
  result                      \* what the call has returned

Workers == 1..N
NoWorker == 0
Failed == {w \in Workers : outcome[w] = "err"}
Running == [returned |-> FALSE, failed |-> 0, first |-> NoWorker]

ContractInit ==
  /\ outcome = [w \in Workers |-> "pending"]
  /\ result = Running

Finish(w) ==
  /\ outcome[w] = "pending"
  /\ ~result.returned
  /\ \E o \in {"ok", "err"} : outcome' = [outcome EXCEPT ![w] = o]
  /\ UNCHANGED result

\* A nil error is `failed = 0`; otherwise the message says how many workers failed
\* and quotes the error of one of them.
ReturnToCaller ==
  /\ ~result.returned
  /\ \A w \in Workers : outcome[w] # "pending"
  /\ \E f \in IF Failed = {} THEN {NoWorker} ELSE Failed :
       result' = [returned |-> TRUE, failed |-> Cardinality(Failed), first |-> f]
  /\ UNCHANGED outcome

ContractNext == ReturnToCaller \/ \E w \in Workers : Finish(w)
contractVars == <<outcome, result>>

ContractSafety == ContractInit /\ [][ContractNext]_contractVars
ContractSpec == ContractSafety /\ WF_contractVars(ReturnToCaller)
==============================================================================
