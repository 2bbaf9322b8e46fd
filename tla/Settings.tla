------------------------------ MODULE Settings -------------------------------
(***************************************************************************)
(* pkg/dtconfig/settings.go: AddProjectToSettings reads the user's         *)
(* ~/.datatug.yaml, looks for the project's ID, appends the project and    *)
(* writes the file anew.  Every command of the CLI is a process of its     *)
(* own, nothing locks the file, and os.Create truncates it first.  The     *)
(* YAML encoder writes the text in pieces of 128 bytes and the decoder     *)
(* reads it in pieces, so others come in between, a process may die and    *)
(* the disk may be full after any of them.                                 *)
(*                                                                         *)
(* A text that is cut short, or has another's end, may be YAML all the     *)
(* same: with fewer projects, with an ID cut short, with one ID twice.     *)
(* What it says is not known then, and neither is what a process that has  *)
(* read it writes; everything else is.                                     *)
(***************************************************************************)
EXTENDS Naturals, Sequences, FiniteSets

CONSTANTS Projects, Processes

ASSUME ProjectsAssumption == IsFiniteSet(Projects)

VARIABLES
  file,        \* its state and, when they are known, the IDs of its projects
  process,     \* per process: its call of AddProjectToSettings
  kept,        \* history: projects added by calls that no other call overlapped
  damaged,     \* history: a process has died or failed at writing, or two have written at once
  misread      \* history: a process has read what another was writing

vars == <<file, process, kept, damaged, misread>>
history == <<kept, damaged, misread>>

Absent == [state |-> "absent", list |-> <<>>]
Empty == [state |-> "empty", list |-> <<>>]
Part == [state |-> "part", list |-> <<>>]          \* pieces of texts: YAML, or not
Unclear == [state |-> "unclear", list |-> <<>>]    \* a whole text made from what such pieces said
Text(list) == [state |-> "text", list |-> list]

NoProject == "none"
NoCall == [step |-> "idle", project |-> NoProject, list |-> <<>>, known |-> TRUE,
           disturbed |-> FALSE, alone |-> TRUE, refused |-> FALSE]
Entries(list) == {list[i] : i \in DOMAIN list}
Lists == UNION {[1..n -> Projects] : n \in 0..Cardinality(Projects)}
Readable == file.state = "text"

TypeOK ==
  /\ file \in {Absent, Empty, Part, Unclear} \cup {Text(list) : list \in Lists}
  /\ process \in [Processes ->
       [step : {"idle", "read", "decode", "check", "create", "encode", "ok", "error"},
        project : Projects \cup {NoProject}, list : Lists, known : BOOLEAN,
        disturbed : BOOLEAN, alone : BOOLEAN, refused : BOOLEAN]]
  /\ kept \subseteq Projects
  /\ damaged \in BOOLEAN /\ misread \in BOOLEAN

Init ==
  /\ file \in {Absent, Text(<<>>)}
  /\ process = [p \in Processes |-> NoCall]
  /\ kept = {}
  /\ damaged = FALSE /\ misread = FALSE

Busy(p) == process[p].step \in {"read", "decode", "check", "create", "encode"}
At(p, step) == process[p].step = step
Writes(p) == At(p, "encode")
Goes(p, step) == [process EXCEPT ![p].step = step, ![p].disturbed = FALSE]
\* The call fails for a reason of its own: the ID is taken, the file cannot be opened, created
\* or written.
Refused(p) == [Goes(p, "error") EXCEPT ![p].refused = TRUE]
\* p changes the file: whoever reads or writes it is disturbed.
Disturbing(p, processes) ==
  [q \in Processes |-> IF q # p /\ process[q].step \in {"decode", "encode"}
                       THEN [processes[q] EXCEPT !.disturbed = TRUE] ELSE processes[q]]

Call(p) ==
  /\ At(p, "idle")
  /\ \E x \in Projects :
       process' = [q \in Processes |->
         IF q = p THEN [NoCall EXCEPT !.step = "read", !.project = x,
                                      !.alone = ~\E r \in Processes : Busy(r)]
         ELSE [process[q] EXCEPT !.alone = @ /\ ~Busy(q)]]
  /\ UNCHANGED <<file, history>>

\* Mutant: a first use is an error.
OpenStrictly(p) ==
  /\ At(p, "read")
  /\ process' = IF file = Absent THEN Goes(p, "error") ELSE Goes(p, "decode")
  /\ UNCHANGED <<file, history>>

\* os.Open: no file is no projects.
Open(p) ==
  /\ At(p, "read")
  /\ \/ process' = IF file = Absent THEN Goes(p, "check") ELSE Goes(p, "decode")
     \/ process' = Refused(p)
  /\ UNCHANGED <<file, history>>

\* Mutant: settings that cannot be decoded are taken for a first use.
DecodeOrStartAnew(p) ==
  /\ At(p, "decode")
  /\ process' = [Goes(p, "check") EXCEPT ![p].list = file.list]
  /\ UNCHANGED <<file, history>>

\* An empty file is io.EOF to the decoder, and pieces may or may not be YAML; so may be what was
\* read while others wrote.
Decode(p) ==
  LET disturbed == process[p].disturbed IN
  /\ At(p, "decode")
  /\ \/ /\ Readable /\ ~disturbed
        /\ process' = [Goes(p, "check") EXCEPT ![p].list = file.list]
        /\ UNCHANGED misread
     \/ /\ file \in {Part, Unclear} \/ disturbed
        /\ process' = [Goes(p, "check") EXCEPT ![p].known = FALSE]
        /\ misread' = (misread \/ disturbed \/ (file = Part /\ \E q \in Processes : Writes(q)))
     \/ /\ file \in {Part, Empty} \/ disturbed
        /\ process' = Goes(p, "error")
        /\ UNCHANGED misread
  /\ UNCHANGED <<file, kept, damaged>>

\* Mutant: the ID is compared with the last project only.
CheckLast(p) ==
  LET list == process[p].list
      taken == list # <<>> /\ list[Len(list)] = process[p].project
  IN  /\ At(p, "check")
      /\ process' = IF taken THEN Refused(p)
                    ELSE [Goes(p, "create") EXCEPT ![p].list = Append(list, process[p].project)]
      /\ UNCHANGED <<file, history>>

\* The ID is taken, or the project is appended.
Check(p) ==
  LET call == process[p]
      taken == call.project \in Entries(call.list)
  IN  /\ At(p, "check")
      /\ \/ /\ taken \/ ~call.known
            /\ process' = Refused(p)
         \/ /\ ~taken \/ ~call.known
            /\ process' = [Goes(p, "create") EXCEPT
                             ![p].list = IF call.known THEN Append(@, call.project) ELSE @]
      /\ UNCHANGED <<file, history>>

\* os.Create truncates the file, or fails and leaves it.
Create(p) ==
  /\ At(p, "create")
  /\ \/ file' = Empty /\ process' = Disturbing(p, Goes(p, "encode"))
     \/ process' = Refused(p) /\ UNCHANGED file
  /\ UNCHANGED history

\* A piece of the text, at the place in the file where the process has come to.
WritePiece(p) ==
  /\ Writes(p)
  /\ file' = Part
  /\ process' = Disturbing(p, process)
  /\ UNCHANGED history

\* The last piece.  The text is in the file as a whole, unless another process has truncated
\* or written it since: it may have left a gap, pieces of its own, or a longer text's end.
Encode(p) ==
  /\ Writes(p)
  /\ \/ file' = (IF process[p].known THEN Text(process[p].list) ELSE Unclear) /\ UNCHANGED damaged
     \/ process[p].disturbed /\ file' = Part /\ damaged' = TRUE
  /\ process' = Disturbing(p, Goes(p, "ok"))
  /\ kept' = IF process[p].alone THEN kept \cup {process[p].project} ELSE kept
  /\ UNCHANGED misread

\* Encode returns an error: nothing or not all of the piece has been written.
EncodeFails(p) ==
  /\ Writes(p)
  /\ file' \in {file, Part}
  /\ process' = Disturbing(p, Refused(p))
  /\ damaged' = TRUE
  /\ UNCHANGED <<kept, misread>>

Exit(p) ==
  /\ process[p].step \in {"ok", "error"}
  /\ process' = [process EXCEPT ![p] = NoCall]
  /\ UNCHANGED <<file, history>>

Crash(p) ==
  /\ Busy(p)
  /\ process' = [process EXCEPT ![p] = NoCall]
  /\ damaged' = (damaged \/ Writes(p))
  /\ UNCHANGED <<file, kept, misread>>

Next ==
  \E p \in Processes :
    \/ Call(p) \/ Open(p) \/ Decode(p) \/ Check(p) \/ Create(p)
    \/ WritePiece(p) \/ Encode(p) \/ EncodeFails(p)
    \/ Exit(p) \/ Crash(p)
Spec == Init /\ [][Next]_vars
----------------------------------------------------------------------------
\* A list that has been written whole, by a process that had read a whole one, names no project
\* twice, whatever has happened to the file before and between.
IdsUnique ==
  Readable => \A i, j \in DOMAIN file.list : file.list[i] = file.list[j] => i = j

\* A project whose call had the file to itself stays in such a list: calls that overlap each
\* other later on may lose one another's projects, not this one.  And lists are such, as long as
\* no process has died or failed at writing, no two have written at once, and none has read
\* what another was writing.
KeptStay ==
  /\ Readable => kept \subseteq Entries(file.list)
  /\ file = Unclear => damaged \/ misread

\* A call that had the file to itself fails for its own reasons, or because another has died or
\* failed at writing, or two have written at once, before.
FailuresAreExplained ==
  \A p \in Processes :
    At(p, "error") /\ process[p].alone => process[p].refused \/ damaged
==============================================================================
