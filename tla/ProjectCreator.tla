--------------------------- MODULE ProjectCreator ---------------------------
(***************************************************************************)
(* pkg/storage/dtprojcreator/project_creator.go, CreateProjectFiles: three *)
(* goroutines, each of which writes one file of a new project and reports  *)
(* its status to the one callback, a WaitGroup and a mutex around the      *)
(* errors; a runner of its own, to the contract of parallel.Run.  Files    *)
(* are written by WriteFile of storage/filestore/storage.go: MkdirAll,     *)
(* Create, which truncates what is there, and Copy.                        *)
(***************************************************************************)
EXTENDS Naturals, FiniteSets, Sequences

\* .datatug.yaml, README.md and datatug-project.json.
RootFile == 1
ReadmeFile == 2
SummaryFile == 3
Workers == 1..3
NoWorker == 0

VARIABLES
  at,         \* per worker: where its goroutine is
  files,      \* per worker: its file, as it was "before" the call (absent, or of an
              \* earlier one), "empty" or "written"
  shown,      \* per worker: the status last reported, "none", "...", "failed" or "Done"
  outcome,    \* per worker: what its function has returned
  errs,       \* the workers whose errors have been appended
  result      \* what CreateProjectFiles has returned

creatorVars == <<at, files, shown, outcome, errs, result>>

CreatorInit ==
  /\ at = [w \in Workers |-> "started"]
  /\ files = [w \in Workers |-> "before"]
  /\ shown = [w \in Workers |-> "none"]
  /\ outcome = [w \in Workers |-> "pending"]
  /\ errs = <<>>
  /\ result = [returned |-> FALSE, failed |-> 0, first |-> NoWorker]

Goes(w, place) == at' = [at EXCEPT ![w] = place]
Shows(w, status) == shown' = [shown EXCEPT ![w] = status]

ReportStart(w) ==
  /\ at[w] = "started"
  /\ Shows(w, "...") /\ Goes(w, IF w = ReadmeFile THEN "mkdir" ELSE "marshal")
  /\ UNCHANGED <<files, outcome, errs, result>>

\* The steps of a worker's function that may fail, in the order they come.
StepAfter == [marshal |-> "mkdir", mkdir |-> "create", create |-> "copy"]
Advance(w) ==
  /\ at[w] \in DOMAIN StepAfter
  /\ Goes(w, StepAfter[at[w]])
  /\ files' = [files EXCEPT ![w] = IF at[w] = "create" THEN "empty" ELSE @]
  /\ UNCHANGED <<shown, outcome, errs, result>>
Copy(w) ==
  /\ at[w] = "copy"
  /\ files' = [files EXCEPT ![w] = "written"]
  /\ outcome' = [outcome EXCEPT ![w] = "ok"]
  /\ Goes(w, "report")
  /\ UNCHANGED <<shown, errs, result>>
StepFails(w) ==
  /\ at[w] \in DOMAIN StepAfter \cup {"copy"}
  /\ outcome' = [outcome EXCEPT ![w] = "err"]
  /\ Goes(w, "failed")
  /\ UNCHANGED <<files, shown, errs, result>>

\* The mutex is held from the read of errs to the end of the write.
AppendError(w) ==
  /\ at[w] = "failed"
  /\ errs' = Append(errs, w)
  /\ Goes(w, "reportFailure")
  /\ UNCHANGED <<files, shown, outcome, result>>

ReportFailure(w) ==
  /\ at[w] = "reportFailure"
  /\ Shows(w, "failed") /\ Goes(w, "leaving")
  /\ UNCHANGED <<files, outcome, errs, result>>
\* Mutant: a failure is reported and the goroutine goes on to report success.
ReportDoneToo(w) ==
  /\ at[w] \in {"report", "leaving"}
  /\ Shows(w, "Done") /\ Goes(w, "done")
  /\ UNCHANGED <<files, outcome, errs, result>>
ReportDone(w) ==
  /\ at[w] = "report"
  /\ Shows(w, "Done") /\ Goes(w, "leaving")
  /\ UNCHANGED <<files, outcome, errs, result>>
\* The deferred wg.Done().
Done(w) == at[w] = "leaving" /\ Goes(w, "done") /\ UNCHANGED <<files, shown, outcome, errs, result>>

\* Mutant: the first error ends the call.
AllLeftOrFailed == errs # <<>> \/ \A w \in Workers : at[w] = "done"
\* Mutant: wg.Done() is called when the function has returned, not when the goroutine ends.
AllFunctionsReturned == \A w \in Workers : outcome[w] # "pending"
AllLeft == \A w \in Workers : at[w] = "done"

\* wg.Wait() has returned: the errors are counted and joined, the first of them leads.
ReturnToCaller ==
  /\ ~result.returned /\ AllLeft
  /\ result' = [returned |-> TRUE, failed |-> Len(errs), first |-> IF errs = <<>> THEN NoWorker ELSE errs[1]]
  /\ UNCHANGED <<at, files, shown, outcome, errs>>

Goroutine(w) ==
  ReportStart(w) \/ Advance(w) \/ Copy(w) \/ StepFails(w) \/ AppendError(w) \/ ReportFailure(w) \/ ReportDone(w) \/ Done(w)
CreatorNext == ReturnToCaller \/ \E w \in Workers : Goroutine(w)

\* Every runnable goroutine runs, and calls of the file system and of the callback return.
CreatorFairness == WF_creatorVars(ReturnToCaller) /\ \A w \in Workers : WF_creatorVars(Goroutine(w))

-----------------------------------------------------------------------------
(* Properties. *)

(* Whoever watches the statuses is told the truth: "Done" of a file that   *)
(* is there, "failed" of one whose error the call returns; and a call that *)
(* returns nil has written all three files.                                *)
StatusesAreTrue ==
  /\ \A w \in Workers :
       /\ shown[w] = "Done" => files[w] = "written" /\ outcome[w] = "ok"
       /\ shown[w] = "failed" => \E i \in DOMAIN errs : errs[i] = w
  /\ (result.returned /\ result.failed = 0) => \A w \in Workers : files[w] = "written"

(* The callback is not called after CreateProjectFiles has returned, and   *)
(* not with a second last word.                                            *)
LastWordFirst ==
  [][\A w \in Workers : shown'[w] # shown[w] =>
       ~result.returned /\ shown[w] \in {"none", "..."}]_creatorVars

(* "reuse parallel runner or document why not": seen by its caller the     *)
(* creator keeps the contract of parallel.Run for three workers, a nil     *)
(* error, all errors counted and an end included.                          *)
Contract == INSTANCE RunContract WITH N <- Cardinality(Workers)
CreatorKeepsContract == Contract!ContractSpec
=============================================================================
