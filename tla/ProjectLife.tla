----------------------------- MODULE ProjectLife -----------------------------
(***************************************************************************)
(* A project from its creation to its use: CreateProjectFiles of           *)
(* pkg/storage/dtprojcreator writes the files and reports, and when it has *)
(* returned without an error the Project of pkg/datatug is used from       *)
(* memory.                                                                 *)
(***************************************************************************)
EXTENDS ProjectCreator, ProjectMemory

vars == <<creatorVars, memoryVars>>

Init == CreatorInit /\ MemoryInit
Creates == CreatorNext /\ UNCHANGED memoryVars
Uses == result.returned /\ result.failed = 0 /\ MemoryNext /\ UNCHANGED creatorVars
Next == Creates \/ Uses

\* The user of the project may never come; the creator's goroutines run.
Spec == Init /\ [][Next]_vars /\ CreatorFairness
=============================================================================
