--------------------------- MODULE Settings_proofs ---------------------------
(***************************************************************************)
(* Proofs about the user's settings for any number of processes and        *)
(* projects: in a list that is known IDs are unique and what a call has    *)
(* added alone stays, lists are known short of damage and of reading what  *)
(* is being written, and a call that was alone fails for a reason.         *)
(***************************************************************************)
EXTENDS Settings, FunctionTheorems, FiniteSetTheorems, TLAPS

Steps == {"idle", "read", "decode", "check", "create", "encode", "ok", "error"}
Calls == [step : Steps, project : Projects \cup {NoProject}, list : Seq(Projects),
          known : BOOLEAN, disturbed : BOOLEAN, alone : BOOLEAN, refused : BOOLEAN]

\* TypeOK with sequences for its lists, whose length follows from their being unique.
Typed ==
  /\ \/ file \in {Absent, Empty, Part, Unclear}
     \/ file = Text(file.list) /\ file.list \in Seq(Projects)
  /\ process \in [Processes -> Calls]
  /\ kept \subseteq Projects
  /\ damaged \in BOOLEAN /\ misread \in BOOLEAN

Unique(list) == \A i, j \in DOMAIN list : list[i] = list[j] => i = j

\* A process that has read a known list holds a unique one, of all projects that are kept;
\* once it has appended its own, that one is in it.
Holds(p) == process[p].step \in {"check", "create", "encode"} /\ process[p].known
ListIsGood(p) ==
  /\ Unique(process[p].list)
  /\ Busy(p) => process[p].project \in Projects
  /\ Holds(p) => kept \subseteq Entries(process[p].list)
  /\ process[p].step \in {"create", "encode"} /\ process[p].known
       => process[p].project \in Entries(process[p].list)
  /\ ~process[p].known => damaged \/ misread
ListsAreGood == \A p \in Processes : ListIsGood(p)

\* A busy process that is alone is the only busy one, and nobody disturbs it.
AloneIsAlone ==
  \A p \in Processes :
    Busy(p) /\ process[p].alone => /\ ~process[p].disturbed
                                  /\ \A q \in Processes : Busy(q) => p = q

\* What the file can be, short of damage.
FileIsExplained ==
  /\ file = Absent => kept = {}
  /\ file \in {Empty, Part} => damaged \/ \E p \in Processes : Writes(p)

IInv ==
  /\ Typed
  /\ ListsAreGood
  /\ AloneIsAlone
  /\ FileIsExplained
  /\ IdsUnique
  /\ KeptStay
  /\ FailuresAreExplained

-----------------------------------------------------------------------------
\* The states of the file are told apart by their first field.
LEMMA FileStates ==
  /\ Absent.state = "absent" /\ Empty.state = "empty" /\ Part.state = "part"
  /\ Unclear.state = "unclear"
  /\ \A list : Text(list).state = "text" /\ Text(list).list = list
BY DEF Absent, Empty, Part, Unclear, Text

LEMMA NoCallTyped ==
  /\ NoCall \in Calls /\ NoCall.step = "idle" /\ NoCall.alone = TRUE /\ Unique(NoCall.list)
  /\ NoCall.known = TRUE /\ NoCall.disturbed = FALSE
BY DEF NoCall, Calls, Steps, Unique, NoProject

\* A list with a new project appended is unique if the list was.
LEMMA AppendedIsUnique ==
  ASSUME NEW list \in Seq(Projects), Unique(list), NEW x \in Projects, x \notin Entries(list)
  PROVE  /\ Append(list, x) \in Seq(Projects) /\ Unique(Append(list, x))
         /\ Entries(Append(list, x)) = Entries(list) \cup {x}
<1>1. /\ Len(list) \in Nat /\ DOMAIN list = 1..Len(list)
      /\ Append(list, x) \in Seq(Projects) /\ DOMAIN Append(list, x) = 1..(Len(list) + 1)
      /\ \A i \in 1..Len(list) : Append(list, x)[i] = list[i]
      /\ Append(list, x)[Len(list) + 1] = x
  OBVIOUS
<1>2. 1..(Len(list) + 1) = (1..Len(list)) \cup {Len(list) + 1}
  BY <1>1
<1>3. \A i \in 1..Len(list) : list[i] # x
  BY <1>1 DEF Entries
<1>4. Unique(Append(list, x))
  BY <1>1, <1>2, <1>3 DEF Unique
<1> QED BY <1>1, <1>2, <1>4 DEF Entries

\* What a step of p may do to the calls of the others: disturb those that read or write the file.
LeavesOthers(p) ==
  /\ process' \in [Processes -> Calls]
  /\ \A q \in Processes \ {p} :
       /\ process'[q].step = process[q].step /\ process'[q].project = process[q].project
       /\ process'[q].list = process[q].list /\ process'[q].known = process[q].known
       /\ process'[q].alone = process[q].alone /\ process'[q].refused = process[q].refused
       /\ process'[q].disturbed # process[q].disturbed => Busy(q) /\ Busy(p)

\* The call of p after a step.
Moved(p, step, list, known, refused) ==
  /\ process'[p].step = step /\ process'[p].list = list /\ process'[p].known = known
  /\ process'[p].refused = refused /\ process'[p].project = process[p].project
  /\ process'[p].alone = process[p].alone

LEMMA GoesTo ==
  ASSUME Typed, NEW p \in Processes, NEW step \in Steps
  PROVE  /\ Goes(p, step) \in [Processes -> Calls]
         /\ Goes(p, step)[p].step = step /\ ~Goes(p, step)[p].disturbed
         /\ Goes(p, step)[p].project = process[p].project
         /\ Goes(p, step)[p].list = process[p].list /\ Goes(p, step)[p].known = process[p].known
         /\ Goes(p, step)[p].alone = process[p].alone
         /\ Goes(p, step)[p].refused = process[p].refused
         /\ \A q \in Processes \ {p} : Goes(p, step)[q] = process[q]
<1>1. process[p] \in Calls /\ process \in [Processes -> Calls]
  BY DEF Typed
<1>2. Goes(p, step)[p] = [process[p] EXCEPT !.step = step, !.disturbed = FALSE]
  BY <1>1 DEF Goes
<1>3. [process[p] EXCEPT !.step = step, !.disturbed = FALSE] \in Calls
  BY <1>1 DEF Calls
<1>4. Goes(p, step) \in [Processes -> Calls] /\ \A q \in Processes \ {p} : Goes(p, step)[q] = process[q]
  BY <1>1, <1>2, <1>3 DEF Goes
<1> QED BY <1>1, <1>2, <1>4 DEF Calls

\* Goes with another list, or with a list that is not known, or refused.
LEMMA GoesWith ==
  ASSUME Typed, NEW p \in Processes, NEW step \in Steps
  PROVE  /\ \A list \in Seq(Projects) : process' = [Goes(p, step) EXCEPT ![p].list = list]
              => LeavesOthers(p) /\ ~process'[p].disturbed
                 /\ Moved(p, step, list, process[p].known, process[p].refused)
         /\ process' = [Goes(p, step) EXCEPT ![p].known = FALSE]
              => LeavesOthers(p) /\ ~process'[p].disturbed
                 /\ Moved(p, step, process[p].list, FALSE, process[p].refused)
         /\ process' = Goes(p, step)
              => LeavesOthers(p) /\ ~process'[p].disturbed
                 /\ Moved(p, step, process[p].list, process[p].known, process[p].refused)
<1>1. PICK went : went = Goes(p, step)
  OBVIOUS
<1>2. /\ went \in [Processes -> Calls] /\ went[p] \in Calls
      /\ went[p].step = step /\ ~went[p].disturbed /\ went[p].project = process[p].project
      /\ went[p].list = process[p].list /\ went[p].known = process[p].known
      /\ went[p].alone = process[p].alone /\ went[p].refused = process[p].refused
      /\ \A q \in Processes \ {p} : went[q] = process[q]
  BY <1>1, GoesTo
<1>3. ASSUME NEW list \in Seq(Projects), process' = [went EXCEPT ![p].list = list]
      PROVE  LeavesOthers(p) /\ ~process'[p].disturbed
             /\ Moved(p, step, list, process[p].known, process[p].refused)
  <2>1. process'[p] = [went[p] EXCEPT !.list = list] /\ \A q \in Processes \ {p} : process'[q] = process[q]
    BY <1>2, <1>3
  <2>2. [went[p] EXCEPT !.list = list] \in Calls
    BY <1>2 DEF Calls
  <2>3. process' \in [Processes -> Calls]
    BY <1>2, <1>3, <2>1, <2>2
  <2> QED BY <1>2, <2>1, <2>3 DEF LeavesOthers, Moved, Calls
<1>4. ASSUME process' = [went EXCEPT ![p].known = FALSE]
      PROVE  LeavesOthers(p) /\ ~process'[p].disturbed
             /\ Moved(p, step, process[p].list, FALSE, process[p].refused)
  <2>1. process'[p] = [went[p] EXCEPT !.known = FALSE] /\ \A q \in Processes \ {p} : process'[q] = process[q]
    BY <1>2, <1>4
  <2>2. [went[p] EXCEPT !.known = FALSE] \in Calls
    BY <1>2 DEF Calls
  <2>3. process' \in [Processes -> Calls]
    BY <1>2, <1>4, <2>1, <2>2
  <2> QED BY <1>2, <2>1, <2>3 DEF LeavesOthers, Moved, Calls
<1>5. ASSUME process' = went
      PROVE  LeavesOthers(p) /\ ~process'[p].disturbed
             /\ Moved(p, step, process[p].list, process[p].known, process[p].refused)
  BY <1>2, <1>5 DEF LeavesOthers, Moved
<1> QED BY <1>1, <1>3, <1>4, <1>5

\* A call that is refused.
LEMMA RefusedCall ==
  ASSUME Typed, NEW p \in Processes
  PROVE  /\ Refused(p) \in [Processes -> Calls]
         /\ Refused(p)[p].step = "error" /\ Refused(p)[p].refused = TRUE
         /\ Refused(p)[p].project = process[p].project /\ Refused(p)[p].list = process[p].list
         /\ Refused(p)[p].known = process[p].known /\ Refused(p)[p].alone = process[p].alone
         /\ ~Refused(p)[p].disturbed
         /\ \A q \in Processes \ {p} : Refused(p)[q] = process[q]
<1>1. PICK went : went = Goes(p, "error")
  OBVIOUS
<1>2. /\ went \in [Processes -> Calls] /\ went[p] \in Calls
      /\ went[p].step = "error" /\ ~went[p].disturbed /\ went[p].project = process[p].project
      /\ went[p].list = process[p].list /\ went[p].known = process[p].known
      /\ went[p].alone = process[p].alone /\ \A q \in Processes \ {p} : went[q] = process[q]
  BY <1>1, GoesTo DEF Steps
<1>3. Refused(p) = [went EXCEPT ![p].refused = TRUE]
  BY <1>1 DEF Refused
<1>4. Refused(p)[p] = [went[p] EXCEPT !.refused = TRUE]
  BY <1>2, <1>3
<1>5. [went[p] EXCEPT !.refused = TRUE] \in Calls
  BY <1>2 DEF Calls
<1>6. Refused(p) \in [Processes -> Calls] /\ \A q \in Processes \ {p} : Refused(p)[q] = process[q]
  BY <1>2, <1>3, <1>4, <1>5
<1> QED BY <1>2, <1>4, <1>6 DEF Calls

LEMMA RefusedStep ==
  ASSUME Typed, NEW p \in Processes, process' = Refused(p)
  PROVE  LeavesOthers(p) /\ ~process'[p].disturbed
         /\ Moved(p, "error", process[p].list, process[p].known, TRUE)
BY RefusedCall DEF LeavesOthers, Moved

\* The others are disturbed, no more.
LEMMA DisturbingOthers ==
  ASSUME NEW p \in Processes, Busy(p), NEW went \in [Processes -> Calls],
         \A q \in Processes \ {p} : went[q] = process[q], process' = Disturbing(p, went)
  PROVE  LeavesOthers(p) /\ process'[p] = went[p]
<1>1. \A q \in Processes :
         process'[q] = IF q # p /\ went[q].step \in {"decode", "encode"}
                       THEN [went[q] EXCEPT !.disturbed = TRUE] ELSE went[q]
  BY DEF Disturbing
<1>2. \A q \in Processes : process'[q] \in Calls
  BY <1>1 DEF Calls
<1>3. process' \in [Processes -> Calls]
  BY <1>2 DEF Disturbing
<1>4. ASSUME NEW q \in Processes \ {p}
      PROVE  /\ process'[q].step = process[q].step /\ process'[q].project = process[q].project
             /\ process'[q].list = process[q].list /\ process'[q].known = process[q].known
             /\ process'[q].alone = process[q].alone /\ process'[q].refused = process[q].refused
             /\ process'[q].disturbed # process[q].disturbed => Busy(q)
  <2>1. went[q] = process[q] /\ went[q] \in Calls
    OBVIOUS
  <2>2. \/ process'[q] = process[q]
        \/ process'[q] = [went[q] EXCEPT !.disturbed = TRUE] /\ Busy(q)
    BY <1>1, <2>1 DEF Busy
  <2> QED BY <2>1, <2>2 DEF Calls
<1> QED BY <1>1, <1>3, <1>4 DEF LeavesOthers

-----------------------------------------------------------------------------
LEMMA InitIInv == Init => IInv
<1> SUFFICES ASSUME Init PROVE IInv
  OBVIOUS
<1> USE NoCallTyped, FileStates DEF Init
<1>1. Typed
  <2>1. /\ file = Absent \/ (file = Text(file.list) /\ file.list \in Seq(Projects))
        /\ kept \subseteq Projects /\ damaged \in BOOLEAN /\ misread \in BOOLEAN
    <3>1. file = Absent \/ file = Text(<<>>)
      OBVIOUS
    <3>2. <<>> \in Seq(Projects) /\ {} \subseteq Projects /\ FALSE \in BOOLEAN
      OBVIOUS
    <3> QED BY <3>1, <3>2
  <2>2. process \in [Processes -> Calls]
    OBVIOUS
  <2> QED BY <2>1, <2>2 DEF Typed
<1>2. ListsAreGood /\ AloneIsAlone /\ FailuresAreExplained
  BY DEF ListsAreGood, ListIsGood, AloneIsAlone, FailuresAreExplained, Busy, Holds, At
<1>3. FileIsExplained /\ file # Unclear
  BY DEF FileIsExplained, Absent, Empty, Part, Unclear, Text
<1>4. IdsUnique /\ KeptStay
  BY <1>3 DEF IdsUnique, KeptStay, Readable
<1> QED BY <1>1, <1>2, <1>3, <1>4 DEF IInv

\* What a step of p has to keep, beside the file: its own call good and explained, and kept
\* known to whoever else holds a list.
LEMMA StepKeeps ==
  ASSUME IInv, NEW p \in Processes, LeavesOthers(p), Busy(p) \/ ~Busy(p)',
         damaged => damaged', misread => misread',
         kept' = kept \/ \A q \in Processes \ {p} : ~Busy(q),
         ListIsGood(p)', process'[p].alone = process[p].alone \/ ~Busy(p)',
         process'[p].disturbed => process[p].disturbed /\ process'[p].alone = process[p].alone,
         At(p, "error")' /\ process'[p].alone => process'[p].refused \/ damaged'
  PROVE  ListsAreGood' /\ AloneIsAlone' /\ FailuresAreExplained'
<1> USE DEF IInv, LeavesOthers
<1>1. \A q \in Processes \ {p} : (Busy(q)' <=> Busy(q)) /\ (Holds(q)' <=> Holds(q))
  BY DEF Busy, Holds
<1>2. ListsAreGood'
  <2> SUFFICES ASSUME NEW q \in Processes \ {p} PROVE ListIsGood(q)'
    BY DEF ListsAreGood
  <2>1. Holds(q) => kept' = kept
    BY DEF Holds, Busy
  <2> QED BY <1>1, <2>1 DEF ListsAreGood, ListIsGood
<1>3. AloneIsAlone'
  <2> SUFFICES ASSUME NEW q \in Processes, Busy(q)', process'[q].alone
               PROVE  ~process'[q].disturbed /\ \A r \in Processes : Busy(r)' => q = r
    BY DEF AloneIsAlone
  <2>1. Busy(q) /\ process[q].alone
    BY <1>1
  <2>2. ~process[q].disturbed /\ \A r \in Processes : Busy(r) => q = r
    BY <2>1 DEF AloneIsAlone
  <2>3. \A r \in Processes : Busy(r)' => Busy(r)
    BY <1>1
  <2>4. ~process'[q].disturbed
    <3>1. CASE q = p
      BY <2>2, <3>1
    <3>2. CASE q # p
      BY <2>2, <3>2, <2>1 DEF Typed, Calls
    <3> QED BY <3>1, <3>2
  <2> QED BY <2>2, <2>3, <2>4
<1>4. FailuresAreExplained'
  BY DEF FailuresAreExplained, At
<1> QED BY <1>2, <1>3, <1>4

\* A step that leaves the file alone.
LEMMA FileStays ==
  ASSUME IInv, NEW p \in Processes, LeavesOthers(p), UNCHANGED <<file, kept>>,
         damaged \/ (Writes(p) /\ ~Writes(p)') => damaged', damaged' \in BOOLEAN,
         misread => misread', misread' \in BOOLEAN
  PROVE  Typed' /\ FileIsExplained' /\ IdsUnique' /\ KeptStay'
<1> USE DEF IInv
<1>1. Typed'
  BY DEF Typed, LeavesOthers
<1>2. IdsUnique' /\ KeptStay'
  BY DEF IdsUnique, KeptStay, Readable
<1>3. FileIsExplained'
  BY DEF FileIsExplained, Writes, At, LeavesOthers
<1> QED BY <1>1, <1>2, <1>3

LEMMA CallStep ==
  ASSUME IInv, NEW p \in Processes, Call(p)
  PROVE  IInv'
<1> USE DEF IInv
<1>1. PICK x \in Projects :
        process' = [q \in Processes |->
          IF q = p THEN [NoCall EXCEPT !.step = "read", !.project = x,
                                       !.alone = ~\E r \in Processes : Busy(r)]
          ELSE [process[q] EXCEPT !.alone = @ /\ ~Busy(q)]]
  BY DEF Call
<1>2. /\ process'[p] \in Calls /\ process'[p].step = "read" /\ process'[p].project = x
      /\ Unique(process'[p].list) /\ process'[p].known /\ ~process'[p].disturbed
      /\ process'[p].alone => \A r \in Processes : ~Busy(r)
  <2>1. process'[p] = [NoCall EXCEPT !.step = "read", !.project = x,
                                     !.alone = ~\E r \in Processes : Busy(r)]
    BY <1>1
  <2>2. PICK alone \in BOOLEAN : alone = ~\E r \in Processes : Busy(r)
    OBVIOUS
  <2>3. process'[p] = [NoCall EXCEPT !.step = "read", !.project = x, !.alone = alone]
    BY <2>1, <2>2
  <2>4. /\ process'[p] \in Calls /\ process'[p].step = "read" /\ process'[p].project = x
        /\ process'[p].list = NoCall.list /\ process'[p].known = NoCall.known
        /\ process'[p].disturbed = NoCall.disturbed /\ process'[p].alone = alone
    <3> HIDE DEF NoCall
    <3>1. NoCall \in Calls
      BY NoCallTyped
    <3> QED BY <2>3, <3>1 DEF Calls, Steps
  <2> QED BY <2>2, <2>4, NoCallTyped
<1>3. ASSUME NEW q \in Processes \ {p}
      PROVE  /\ process'[q] \in Calls /\ process'[q].step = process[q].step
             /\ process'[q].project = process[q].project /\ process'[q].list = process[q].list
             /\ process'[q].refused = process[q].refused /\ process'[q].known = process[q].known
             /\ process'[q].disturbed = process[q].disturbed
             /\ process'[q].alone => process[q].alone /\ ~Busy(q)
  <2>1. process'[q] = [process[q] EXCEPT !.alone = @ /\ ~Busy(q)]
    BY <1>1
  <2>2. process[q] \in Calls
    BY DEF Typed
  <2> QED BY <2>1, <2>2 DEF Calls
<1>4. process' \in [Processes -> Calls]
  BY <1>1, <1>2, <1>3
<1>5. UNCHANGED <<file, kept, damaged, misread>> /\ process[p].step = "idle"
  BY DEF Call, At, history
<1>6. Typed' /\ IdsUnique' /\ KeptStay'
  BY <1>4, <1>5 DEF Typed, IdsUnique, KeptStay, Readable
<1>7. ListsAreGood'
  BY <1>2, <1>3, <1>5 DEF ListsAreGood, ListIsGood, Holds, Busy
<1>8. AloneIsAlone'
  BY <1>2, <1>3 DEF AloneIsAlone, Busy
<1>9. FileIsExplained'
  BY <1>3, <1>5 DEF FileIsExplained, Writes, At
<1>10. FailuresAreExplained'
  BY <1>2, <1>3, <1>5 DEF FailuresAreExplained, At
<1> QED BY <1>6, <1>7, <1>8, <1>9, <1>10

LEMMA OpenStep ==
  ASSUME IInv, NEW p \in Processes, Open(p)
  PROVE  IInv'
<1> USE DEF IInv
<1>1. process[p].step = "read" /\ UNCHANGED <<file, kept, damaged, misread>>
  BY DEF Open, At, history
<1>2. /\ LeavesOthers(p) /\ ~process'[p].disturbed
      /\ \/ \E step \in {"check", "decode"} :
              /\ Moved(p, step, process[p].list, process[p].known, process[p].refused)
              /\ step = "check" => file = Absent
         \/ Moved(p, "error", process[p].list, process[p].known, TRUE)
  <2>1. CASE process' = Refused(p)
    BY <2>1, RefusedStep
  <2>2. CASE process' = IF file = Absent THEN Goes(p, "check") ELSE Goes(p, "decode")
    <3>1. "check" \in Steps /\ "decode" \in Steps
      BY DEF Steps
    <3> QED BY <2>2, <3>1, GoesWith
  <2> QED BY <2>1, <2>2 DEF Open
<1>3. Typed' /\ FileIsExplained' /\ IdsUnique' /\ KeptStay'
  <2>1. ~Writes(p) /\ damaged \in BOOLEAN /\ misread \in BOOLEAN
    BY <1>1 DEF Writes, At, Typed
  <2> QED BY <1>1, <1>2, <2>1, FileStays
<1>4. ListIsGood(p)'
  BY <1>1, <1>2 DEF ListIsGood, ListsAreGood, Moved, Busy, Holds, FileIsExplained
<1>5. Busy(p)
  BY <1>1 DEF Busy
<1>6. /\ process'[p].alone = process[p].alone
      /\ At(p, "error")' => process'[p].refused
  BY <1>2 DEF Moved, At
<1> QED BY <1>1, <1>2, <1>3, <1>4, <1>5, <1>6, StepKeeps

LEMMA DecodeStep ==
  ASSUME IInv, NEW p \in Processes, Decode(p)
  PROVE  IInv'
<1> USE DEF IInv
<1>1. process[p].step = "decode" /\ UNCHANGED <<file, kept, damaged>> /\ Busy(p) /\ process[p] \in Calls
  BY DEF Decode, At, Busy, Typed
<1>2. /\ LeavesOthers(p) /\ ~process'[p].disturbed
      /\ \/ /\ Readable /\ UNCHANGED misread
            /\ Moved(p, "check", file.list, process[p].known, process[p].refused)
         \/ /\ file \in {Part, Unclear} \/ process[p].disturbed
            /\ Moved(p, "check", process[p].list, FALSE, process[p].refused)
            /\ misread' = (misread \/ process[p].disturbed \/ (file = Part /\ \E q \in Processes : Writes(q)))
         \/ /\ file \in {Part, Empty} \/ process[p].disturbed
            /\ Moved(p, "error", process[p].list, process[p].known, process[p].refused)
            /\ UNCHANGED misread
  <2>0. "check" \in Steps /\ "error" \in Steps
    BY DEF Steps
  <2>1. CASE /\ Readable /\ UNCHANGED misread
             /\ process' = [Goes(p, "check") EXCEPT ![p].list = file.list]
    <3>1. file.list \in Seq(Projects)
      BY <2>1, FileStates DEF Readable, Typed
    <3> QED BY <2>0, <2>1, <3>1, GoesWith
  <2>2. CASE /\ file \in {Part, Unclear} \/ process[p].disturbed
             /\ process' = [Goes(p, "check") EXCEPT ![p].known = FALSE]
             /\ misread' = (misread \/ process[p].disturbed \/ (file = Part /\ \E q \in Processes : Writes(q)))
    BY <2>0, <2>2, GoesWith
  <2>3. CASE /\ file \in {Part, Empty} \/ process[p].disturbed
             /\ process' = Goes(p, "error") /\ UNCHANGED misread
    BY <2>0, <2>3, GoesWith
  <2> QED BY <2>1, <2>2, <2>3 DEF Decode
<1>3. (misread => misread') /\ misread' \in BOOLEAN
  <2>1. misread \in BOOLEAN
    BY DEF Typed
  <2>2. CASE UNCHANGED misread
    BY <2>1, <2>2
  <2>3. CASE misread' = (misread \/ process[p].disturbed \/ (file = Part /\ \E q \in Processes : Writes(q)))
    BY <2>3
  <2> QED BY <1>2, <2>2, <2>3
<1>4. Typed' /\ FileIsExplained' /\ IdsUnique' /\ KeptStay'
  <2>1. ~Writes(p) /\ damaged \in BOOLEAN
    BY <1>1 DEF Writes, At, Typed
  <2> QED BY <1>1, <1>2, <1>3, <2>1, FileStays
<1>5. ListIsGood(p)'
  <2>1. CASE Readable /\ Moved(p, "check", file.list, process[p].known, process[p].refused)
    <3>1. Unique(file.list) /\ kept \subseteq Entries(file.list)
      BY <2>1 DEF IdsUnique, KeptStay, Unique
    <3> QED BY <1>1, <1>3, <2>1, <3>1 DEF ListIsGood, ListsAreGood, Moved, Busy, Holds
  <2>2. CASE /\ file \in {Part, Unclear} \/ process[p].disturbed
             /\ Moved(p, "check", process[p].list, FALSE, process[p].refused)
             /\ misread' = (misread \/ process[p].disturbed \/ (file = Part /\ \E q \in Processes : Writes(q)))
    <3>1. damaged \/ misread'
      BY <2>2 DEF KeptStay, FileIsExplained
    <3> QED BY <1>1, <2>2, <3>1 DEF ListIsGood, ListsAreGood, Moved, Busy, Holds
  <2>3. CASE Moved(p, "error", process[p].list, process[p].known, process[p].refused)
    BY <1>1, <1>3, <2>3 DEF ListIsGood, ListsAreGood, Moved, Busy, Holds
  <2> QED BY <1>2, <2>1, <2>2, <2>3
<1>6. process'[p].alone = process[p].alone
  BY <1>2 DEF Moved
<1>7. At(p, "error")' /\ process'[p].alone => damaged'
  <2> SUFFICES ASSUME At(p, "error")', process[p].alone PROVE damaged
    BY <1>1, <1>6
  <2>1. ~process[p].disturbed /\ \A q \in Processes : Busy(q) => p = q
    BY <1>1 DEF AloneIsAlone
  <2>2. file \in {Part, Empty}
    BY <1>2, <2>1 DEF At, Moved
  <2>3. \A q \in Processes : ~Writes(q)
    BY <1>1, <2>1 DEF Writes, At, Busy
  <2> QED BY <2>2, <2>3 DEF FileIsExplained
<1> QED BY <1>1, <1>2, <1>3, <1>4, <1>5, <1>6, <1>7, StepKeeps

LEMMA CheckStep ==
  ASSUME IInv, NEW p \in Processes, Check(p)
  PROVE  IInv'
<1> USE DEF IInv
<1>1. /\ process[p].step = "check" /\ UNCHANGED <<file, kept, damaged, misread>> /\ Busy(p)
      /\ process[p] \in Calls /\ ListIsGood(p)
  BY DEF Check, At, history, Busy, Typed, ListsAreGood
<1>2. /\ process[p].list \in Seq(Projects) /\ process[p].project \in Projects
      /\ Unique(process[p].list)
  BY <1>1 DEF Calls, ListIsGood
<1>3. /\ LeavesOthers(p) /\ ~process'[p].disturbed
      /\ \/ Moved(p, "error", process[p].list, process[p].known, TRUE)
         \/ ~process[p].known /\ Moved(p, "create", process[p].list, FALSE, process[p].refused)
         \/ /\ process[p].known /\ process[p].project \notin Entries(process[p].list)
            /\ Moved(p, "create", Append(process[p].list, process[p].project), TRUE, process[p].refused)
  <2>1. CASE process' = Refused(p)
    BY <2>1, RefusedStep
  <2>2. ASSUME process' = [Goes(p, "create") EXCEPT
                            ![p].list = IF process[p].known THEN Append(@, process[p].project) ELSE @]
        PROVE  process' = [Goes(p, "create") EXCEPT
                            ![p].list = IF process[p].known THEN Append(process[p].list, process[p].project)
                                        ELSE process[p].list]
    <3>1. Goes(p, "create")[p].list = process[p].list
      BY GoesTo DEF Steps
    <3> QED BY <2>2, <3>1
  <2>3. CASE ~process[p].known
             /\ process' = [Goes(p, "create") EXCEPT
                            ![p].list = IF process[p].known THEN Append(@, process[p].project) ELSE @]
    <3>1. process' = [Goes(p, "create") EXCEPT ![p].list = process[p].list]
      BY <2>2, <2>3
    <3>2. process[p].known = FALSE /\ "create" \in Steps
      BY <1>1, <2>3 DEF Calls, Steps
    <3> QED BY <1>2, <2>3, <3>1, <3>2, GoesWith
  <2>4. CASE process[p].known /\ process[p].project \notin Entries(process[p].list)
             /\ process' = [Goes(p, "create") EXCEPT
                            ![p].list = IF process[p].known THEN Append(@, process[p].project) ELSE @]
    <3>1. process' = [Goes(p, "create") EXCEPT ![p].list = Append(process[p].list, process[p].project)]
      BY <2>2, <2>4
    <3>2. process[p].known = TRUE /\ "create" \in Steps
      BY <1>1, <2>4 DEF Calls, Steps
    <3>3. Append(process[p].list, process[p].project) \in Seq(Projects)
      BY <1>2
    <3> QED BY <2>4, <3>1, <3>2, <3>3, GoesWith
  <2> QED BY <2>1, <2>3, <2>4 DEF Check
<1>4. Typed' /\ FileIsExplained' /\ IdsUnique' /\ KeptStay'
  <2>1. ~Writes(p) /\ damaged \in BOOLEAN /\ misread \in BOOLEAN
    BY <1>1 DEF Writes, At, Typed
  <2> QED BY <1>1, <1>3, <2>1, FileStays
<1>5. ListIsGood(p)'
  <2>1. CASE Moved(p, "error", process[p].list, process[p].known, TRUE)
    BY <1>1, <2>1 DEF ListIsGood, Moved, Busy, Holds
  <2>2. CASE ~process[p].known /\ Moved(p, "create", process[p].list, FALSE, process[p].refused)
    BY <1>1, <1>2, <2>2 DEF ListIsGood, Moved, Busy, Holds
  <2>3. CASE /\ process[p].known /\ process[p].project \notin Entries(process[p].list)
             /\ Moved(p, "create", Append(process[p].list, process[p].project), TRUE, process[p].refused)
    <3>1. /\ Unique(Append(process[p].list, process[p].project))
          /\ Entries(Append(process[p].list, process[p].project))
             = Entries(process[p].list) \cup {process[p].project}
      BY <1>2, <2>3, AppendedIsUnique
    <3>2. kept \subseteq Entries(process[p].list)
      BY <1>1, <2>3 DEF ListIsGood, Holds
    <3> QED BY <1>1, <1>2, <2>3, <3>1, <3>2 DEF ListIsGood, Moved, Busy, Holds
  <2> QED BY <1>3, <2>1, <2>2, <2>3
<1>6. process'[p].alone = process[p].alone /\ (At(p, "error")' => process'[p].refused)
  BY <1>3 DEF Moved, At
<1> QED BY <1>1, <1>3, <1>4, <1>5, <1>6, StepKeeps

LEMMA CreateStep ==
  ASSUME IInv, NEW p \in Processes, Create(p)
  PROVE  IInv'
<1> USE DEF IInv
<1>1. /\ process[p].step = "create" /\ UNCHANGED <<kept, damaged, misread>> /\ Busy(p)
      /\ process[p] \in Calls /\ ListIsGood(p)
      /\ damaged \in BOOLEAN /\ misread \in BOOLEAN
  BY DEF Create, At, history, Busy, Typed, ListsAreGood
<1>2. /\ LeavesOthers(p) /\ ~process'[p].disturbed
      /\ \/ Moved(p, "error", process[p].list, process[p].known, TRUE) /\ UNCHANGED file
         \/ Moved(p, "encode", process[p].list, process[p].known, process[p].refused) /\ file' = Empty
  <2>1. CASE process' = Refused(p) /\ UNCHANGED file
    BY <2>1, RefusedStep
  <2>2. CASE file' = Empty /\ process' = Disturbing(p, Goes(p, "encode"))
    <3>1. "encode" \in Steps
      BY DEF Steps
    <3>2. PICK went : went = Goes(p, "encode")
      OBVIOUS
    <3>3. /\ went \in [Processes -> Calls] /\ \A q \in Processes \ {p} : went[q] = process[q]
          /\ went[p].step = "encode" /\ ~went[p].disturbed
          /\ went[p].project = process[p].project /\ went[p].list = process[p].list
          /\ went[p].known = process[p].known /\ went[p].alone = process[p].alone
          /\ went[p].refused = process[p].refused
      BY <3>1, <3>2, GoesTo
    <3>4. LeavesOthers(p) /\ process'[p] = went[p]
      BY <1>1, <2>2, <3>2, <3>3, DisturbingOthers
    <3> QED BY <2>2, <3>3, <3>4 DEF Moved
  <2> QED BY <2>1, <2>2 DEF Create
<1>3. Typed' /\ FileIsExplained' /\ IdsUnique' /\ KeptStay'
  <2>1. CASE UNCHANGED file
    <3>1. ~Writes(p)
      BY <1>1 DEF Writes, At
    <3> QED BY <1>1, <1>2, <2>1, <3>1, FileStays
  <2>2. CASE file' = Empty /\ Moved(p, "encode", process[p].list, process[p].known, process[p].refused)
    <3>1. Typed' /\ IdsUnique' /\ KeptStay'
      BY <1>1, <1>2, <2>2, FileStates DEF Typed, LeavesOthers, IdsUnique, KeptStay, Readable
    <3>2. FileIsExplained'
      BY <2>2, FileStates DEF FileIsExplained, Writes, At, Moved
    <3> QED BY <3>1, <3>2
  <2> QED BY <1>2, <2>1, <2>2
<1>4. ListIsGood(p)'
  BY <1>1, <1>2 DEF ListIsGood, Moved, Busy, Holds
<1>5. process'[p].alone = process[p].alone /\ (At(p, "error")' => process'[p].refused)
  BY <1>2 DEF Moved, At
<1> QED BY <1>1, <1>2, <1>3, <1>4, <1>5, StepKeeps

\* Who writes has a good list, and is undisturbed when it is alone.
LEMMA WriterFacts ==
  ASSUME IInv, NEW p \in Processes, Writes(p)
  PROVE  /\ Busy(p) /\ process[p] \in Calls /\ ListIsGood(p) /\ process[p].project \in Projects
         /\ process[p].list \in Seq(Projects) /\ Unique(process[p].list)
         /\ process[p].known => /\ kept \subseteq Entries(process[p].list)
                                /\ process[p].project \in Entries(process[p].list)
         /\ process[p].alone => ~process[p].disturbed
         /\ damaged \in BOOLEAN /\ misread \in BOOLEAN /\ kept \subseteq Projects
<1>1. Busy(p) /\ process[p] \in Calls /\ ListIsGood(p)
  BY DEF IInv, Writes, At, Busy, Typed, ListsAreGood
<1> QED BY <1>1 DEF IInv, Writes, At, Typed, Calls, ListIsGood, Holds, AloneIsAlone

LEMMA WritePieceStep ==
  ASSUME IInv, NEW p \in Processes, WritePiece(p)
  PROVE  IInv'
<1> USE DEF IInv
<1>1. Writes(p) /\ file' = Part /\ UNCHANGED <<kept, damaged, misread>>
  BY DEF WritePiece, history
<1>2. LeavesOthers(p) /\ process'[p] = process[p]
  <2>1. process \in [Processes -> Calls] /\ process' = Disturbing(p, process) /\ Busy(p)
    BY <1>1, WriterFacts DEF WritePiece, Typed
  <2> QED BY <2>1, DisturbingOthers
<1>3. Typed' /\ IdsUnique' /\ KeptStay'
  BY <1>1, <1>2, WriterFacts, FileStates DEF Typed, LeavesOthers, IdsUnique, KeptStay, Readable
<1>4. FileIsExplained'
  BY <1>1, <1>2, FileStates DEF FileIsExplained, Writes, At
<1>5. ListIsGood(p)'
  BY <1>1, <1>2, WriterFacts DEF ListIsGood, Busy, Holds
<1>6. ~At(p, "error")'
  BY <1>1, <1>2 DEF Writes, At
<1> QED BY <1>1, <1>2, <1>3, <1>4, <1>5, <1>6, WriterFacts, StepKeeps

\* What a lone process writes makes its project kept while no other process holds a list.
LEMMA EncodeStep ==
  ASSUME IInv, NEW p \in Processes, Encode(p)
  PROVE  IInv'
<1> USE DEF IInv
<1>1. /\ Writes(p) /\ UNCHANGED misread
      /\ kept' = IF process[p].alone THEN kept \cup {process[p].project} ELSE kept
      /\ \/ process[p].known /\ file' = Text(process[p].list) /\ UNCHANGED damaged
         \/ ~process[p].known /\ file' = Unclear /\ UNCHANGED damaged
         \/ file' = Part /\ damaged' = TRUE
  BY DEF Encode
<1>2. /\ LeavesOthers(p) /\ ~process'[p].disturbed
      /\ Moved(p, "ok", process[p].list, process[p].known, process[p].refused)
  <2>1. process' = Disturbing(p, Goes(p, "ok")) /\ "ok" \in Steps
    BY DEF Encode, Steps
  <2>2. PICK went : went = Goes(p, "ok")
    OBVIOUS
  <2>3. /\ went \in [Processes -> Calls] /\ \A q \in Processes \ {p} : went[q] = process[q]
        /\ went[p].step = "ok" /\ ~went[p].disturbed
        /\ went[p].project = process[p].project /\ went[p].list = process[p].list
        /\ went[p].known = process[p].known /\ went[p].alone = process[p].alone
        /\ went[p].refused = process[p].refused
    BY <2>1, <2>2, GoesTo
  <2>4. LeavesOthers(p) /\ process'[p] = went[p]
    BY <1>1, <2>1, <2>2, <2>3, WriterFacts, DisturbingOthers
  <2> QED BY <2>3, <2>4 DEF Moved
<1>3. (damaged => damaged') /\ damaged' \in BOOLEAN /\ kept' \subseteq Projects
  <2>1. CASE UNCHANGED damaged
    BY <1>1, <2>1, WriterFacts
  <2>2. CASE damaged' = TRUE
    BY <1>1, <2>2, WriterFacts
  <2> QED BY <1>1, <2>1, <2>2
<1>4. Typed'
  <2>1. \/ file' \in {Absent, Empty, Part, Unclear}
        \/ file' = Text(file'.list) /\ file'.list \in Seq(Projects)
    BY <1>1, WriterFacts, FileStates
  <2> QED BY <1>1, <1>2, <1>3, <2>1, WriterFacts DEF Typed, LeavesOthers
<1>5. IdsUnique' /\ KeptStay'
  <2>1. CASE process[p].known /\ file' = Text(process[p].list)
    <3>1. Unique(process[p].list) /\ kept' \subseteq Entries(process[p].list)
      BY <1>1, <2>1, WriterFacts
    <3> QED BY <2>1, <3>1, FileStates DEF IdsUnique, KeptStay, Readable, Unique
  <2>2. CASE ~process[p].known /\ file' = Unclear
    <3>1. damaged \/ misread
      BY <1>1, <2>2, WriterFacts DEF ListIsGood
    <3> QED BY <1>1, <1>3, <2>2, <3>1, FileStates DEF IdsUnique, KeptStay, Readable
  <2>3. CASE file' = Part
    BY <2>3, FileStates DEF IdsUnique, KeptStay, Readable
  <2> QED BY <1>1, <2>1, <2>2, <2>3
<1>6. FileIsExplained'
  BY <1>1, FileStates DEF FileIsExplained
<1>7. ListIsGood(p)'
  BY <1>1, <1>2, <1>3, WriterFacts DEF ListIsGood, Moved, Busy, Holds
<1>8. kept' = kept \/ \A q \in Processes \ {p} : ~Busy(q)
  BY <1>1, WriterFacts DEF AloneIsAlone
<1>9. process'[p].alone = process[p].alone /\ ~At(p, "error")' /\ Busy(p)
  BY <1>1, <1>2, WriterFacts DEF Moved, At
<1> QED BY <1>1, <1>2, <1>3, <1>4, <1>5, <1>6, <1>7, <1>8, <1>9, StepKeeps

LEMMA EncodeFailsStep ==
  ASSUME IInv, NEW p \in Processes, EncodeFails(p)
  PROVE  IInv'
<1> USE DEF IInv
<1>1. Writes(p) /\ file' \in {file, Part} /\ damaged' = TRUE /\ UNCHANGED <<kept, misread>>
  BY DEF EncodeFails
<1>2. /\ LeavesOthers(p) /\ ~process'[p].disturbed
      /\ Moved(p, "error", process[p].list, process[p].known, TRUE)
  <2>1. PICK went : went = Refused(p)
    OBVIOUS
  <2>2. /\ went \in [Processes -> Calls] /\ \A q \in Processes \ {p} : went[q] = process[q]
        /\ went[p].step = "error" /\ ~went[p].disturbed
        /\ went[p].project = process[p].project /\ went[p].list = process[p].list
        /\ went[p].known = process[p].known /\ went[p].alone = process[p].alone
        /\ went[p].refused = TRUE
    BY <2>1, RefusedCall
  <2>3. LeavesOthers(p) /\ process'[p] = went[p]
    BY <1>1, <2>1, <2>2, WriterFacts, DisturbingOthers DEF EncodeFails
  <2> QED BY <2>2, <2>3 DEF Moved
<1>3. Typed'
  BY <1>1, <1>2, WriterFacts DEF Typed, LeavesOthers
<1>4. IdsUnique' /\ KeptStay'
  BY <1>1, FileStates DEF IdsUnique, KeptStay, Readable
<1>5. FileIsExplained'
  BY <1>1, FileStates DEF FileIsExplained
<1>6. ListIsGood(p)'
  BY <1>1, <1>2, WriterFacts DEF ListIsGood, Moved, Busy, Holds
<1>7. process'[p].alone = process[p].alone /\ Busy(p)
  BY <1>1, <1>2, WriterFacts DEF Moved
<1> QED BY <1>1, <1>2, <1>3, <1>4, <1>5, <1>6, <1>7, StepKeeps

\* A call that ends, and a process that dies, leaves the file as it is; a file that is
\* left truncated is damage.
LEMMA LeaveStep ==
  ASSUME IInv, NEW p \in Processes, Exit(p) \/ Crash(p)
  PROVE  IInv'
<1> USE DEF IInv
<1>1. /\ process' = [process EXCEPT ![p] = NoCall] /\ UNCHANGED <<file, kept, misread>>
      /\ damaged' \in BOOLEAN /\ (damaged \/ Writes(p) => damaged')
  BY DEF Exit, Crash, history, Writes, At, Typed
<1>2. LeavesOthers(p) /\ process'[p] = NoCall
  BY <1>1, NoCallTyped DEF Typed, LeavesOthers
<1>3. Typed' /\ FileIsExplained' /\ IdsUnique' /\ KeptStay'
  <2>1. misread \in BOOLEAN
    BY DEF Typed
  <2> QED BY <1>1, <1>2, <2>1, FileStays
<1>4. ListIsGood(p)' /\ ~Busy(p)' /\ ~At(p, "error")' /\ ~process'[p].disturbed
  BY <1>2, NoCallTyped DEF ListIsGood, Busy, Holds, At
<1> QED BY <1>1, <1>2, <1>3, <1>4, StepKeeps

LEMMA IInvIsInductive == IInv /\ [Next]_vars => IInv'
<1> SUFFICES ASSUME IInv, [Next]_vars PROVE IInv'
  OBVIOUS
<1>1. CASE UNCHANGED vars
  BY <1>1 DEF vars, IInv, Typed, ListsAreGood, ListIsGood, AloneIsAlone, FileIsExplained, IdsUnique,
              KeptStay, FailuresAreExplained, Busy, Holds, At, Writes, Readable
<1>2. ASSUME NEW p \in Processes, Call(p) PROVE IInv'
  BY <1>2, CallStep
<1>3. ASSUME NEW p \in Processes, Open(p) \/ Decode(p) \/ Check(p) \/ Create(p) PROVE IInv'
  BY <1>3, OpenStep, DecodeStep, CheckStep, CreateStep
<1>4. ASSUME NEW p \in Processes, WritePiece(p) \/ Encode(p) \/ EncodeFails(p) PROVE IInv'
  BY <1>4, WritePieceStep, EncodeStep, EncodeFailsStep
<1>5. ASSUME NEW p \in Processes, Exit(p) \/ Crash(p) PROVE IInv'
  BY <1>5, LeaveStep
<1> QED BY <1>1, <1>2, <1>3, <1>4, <1>5 DEF Next

-----------------------------------------------------------------------------
\* A list that names no project twice is no longer than there are projects.
LEMMA UniqueListsAreLists ==
  ASSUME NEW list \in Seq(Projects), Unique(list)
  PROVE  list \in Lists
<1>1. list \in [1..Len(list) -> Projects] /\ Len(list) \in Nat /\ DOMAIN list = 1..Len(list)
  OBVIOUS
<1>2. Len(list) <= Cardinality(Projects)
  <2>1. list \in Injection(1..Len(list), Projects)
    <3>1. \A a, b \in 1..Len(list) : list[a] = list[b] => a = b
      BY <1>1 DEF Unique
    <3>2. \A S : \A f \in [S -> Projects] :
            (\A a, b \in S : f[a] = f[b] => a = b) => f \in Injection(S, Projects)
      BY Fun_IsInj
    <3>3. list \in [1..Len(list) -> Projects]
      BY <1>1
    <3> HIDE DEF Unique
    <3> QED BY <3>1, <3>2, <3>3, Zenon
  <2>2. Cardinality(1..Len(list)) = Len(list)
    <3>1. 1 \in Int /\ Len(list) \in Int
      BY <1>1
    <3>2. Cardinality(1..Len(list)) = IF 1 > Len(list) THEN 0 ELSE Len(list) - 1 + 1
      BY <3>1, FS_Interval
    <3> QED BY <1>1, <3>2
  <2>3. Cardinality(1..Len(list)) <= Cardinality(Projects)
    BY <2>1, FS_Injection, ProjectsAssumption DEF ExistsInjection
  <2> QED BY <2>2, <2>3
<1>3. Cardinality(Projects) \in Nat
  BY ProjectsAssumption, FS_CardinalityType
<1>4. Len(list) \in 0..Cardinality(Projects)
  BY <1>1, <1>2, <1>3
<1> QED BY <1>1, <1>4 DEF Lists

\* The invariant implies the type invariant that the run checks.
LEMMA IInvTypes == IInv => TypeOK
<1> SUFFICES ASSUME IInv PROVE TypeOK
  OBVIOUS
<1> USE DEF IInv
<1>1. file \in {Absent, Empty, Part, Unclear} \cup {Text(list) : list \in Lists}
  <2>1. CASE file \in {Absent, Empty, Part, Unclear}
    BY <2>1
  <2>2. CASE file = Text(file.list) /\ file.list \in Seq(Projects)
    <3>1. Unique(file.list)
      BY <2>2, FileStates DEF IdsUnique, Readable, Unique
    <3>2. file.list \in Lists
      BY <3>1, <2>2, UniqueListsAreLists
    <3> QED BY <2>2, <3>2
  <2> QED BY <2>1, <2>2 DEF Typed
<1>2. ASSUME NEW p \in Processes
      PROVE  process[p] \in [step : Steps, project : Projects \cup {NoProject}, list : Lists,
                             known : BOOLEAN, disturbed : BOOLEAN, alone : BOOLEAN,
                             refused : BOOLEAN]
  <2>1. process[p] \in Calls /\ Unique(process[p].list)
    BY DEF Typed, ListsAreGood, ListIsGood
  <2>2. process[p].list \in Lists
    BY <2>1, UniqueListsAreLists DEF Calls
  <2> QED BY <2>1, <2>2 DEF Calls
<1>3. process \in [Processes -> [step : Steps, project : Projects \cup {NoProject}, list : Lists,
                                 known : BOOLEAN, disturbed : BOOLEAN, alone : BOOLEAN,
                                 refused : BOOLEAN]]
  BY <1>2 DEF Typed
<1> QED BY <1>1, <1>3 DEF TypeOK, Typed, Steps

\* Whatever the interleaving of the commands and wherever one dies or fails to write, the state
\* is well typed and the invariant of this module holds.
THEOREM SettingsInvariance == Spec => [](TypeOK /\ IInv)
BY InitIInv, IInvIsInductive, IInvTypes, PTL DEF Spec

\* AddProjectToSettings lets no ID in twice: a list that was written whole by a process that
\* had read a whole one names every project once, even when several commands have written at
\* the same time, died or failed before.
THEOREM NoIdTwice == Spec => []IdsUnique
BY SettingsInvariance, PTL DEF IInv

\* What AddProjectToSettings has added with the file to itself stays in every list that is
\* known; and lists are known as long as nobody dies or fails at writing, no two write at once
\* and nobody reads what another is writing.
THEOREM AddedAloneStays == Spec => []KeptStay
BY SettingsInvariance, PTL DEF IInv

\* AddProjectToSettings fails with the file to itself only when the ID is taken, the file cannot
\* be opened, created or written, or the file has been damaged before: by a process that died
\* or failed at writing, or by two that wrote at once.
THEOREM LoneFailuresAreExplained == Spec => []FailuresAreExplained
BY SettingsInvariance, PTL DEF IInv
=============================================================================
