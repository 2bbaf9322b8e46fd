----------------------------- MODULE Items_proofs -----------------------------
(***************************************************************************)
(* Proofs about the items of a project.  About their store, for any number *)
(* of items and callers: what a lone save or delete leaves is what         *)
(* everybody finds, a list without an error is complete, and only races    *)
(* and crashes make a delete, a list, or the load of a saved item fail.    *)
(* About one item on its way through the store, whatever it is: what was   *)
(* saved passes again but for an int, what becomes of recordset keys, and  *)
(* what validation can panic over, however much is wrong with the item.    *)
(***************************************************************************)
EXTENDS ItemsStore, ItemLife, WellFoundedInduction, TLAPS

\* Only the path that saves go to is ever in use.
OnePathInUse ==
  \A id \in Ids :
    /\ files[<<id, "listing">>] = Absent
    /\ storedAs = "file" => files[<<id, "summary">>] = Absent
    /\ storedAs = "dir" => files[<<id, "file">>] = Absent

\* Where a call can be.
StepsOf(op) ==
  CASE op = "save" -> {"validate", "mkdir", "create", "write"}
    [] op = "delete" -> {"stat", "remove"}
    [] op = "load" -> {"read"}
    [] op = "list" -> {"readdir", "items"}
    [] OTHER -> {}

InCall(c) ==
  /\ Busy(c) => client[c].step \in StepsOf(client[c].op)
  /\ Busy(c) /\ client[c].op # "list" => client[c].id \in Ids
  /\ client[c].op = "save" => client[c].content \in Contents
  /\ client[c].linked => At(c, "write")

\* While an item is being changed nothing is known of it; who changes it and is not raced is
\* the only one who does.
Alone ==
  /\ \A id \in Changing : settled[id] = Unknown
  /\ \A c, d \in Clients : \A id \in Ids :
       Changes(c, id) /\ Changes(d, id) /\ ~client[c].raced => c = d

\* A file that is open for writing and has not been removed is there; only a race removes it.
OpenFiles(c) ==
  At(c, "write") => /\ client[c].linked => files[SavedAt(client[c].id)] # Absent
                    /\ ~client[c].raced => client[c].linked

\* A file is empty because somebody is about to write it, or has died over it or failed to.
WritesTo(c, id) == At(c, "write") /\ client[c].linked /\ client[c].id = id
EmptyFiles ==
  \A id \in Ids : files[SavedAt(id)] = Empty => id \in torn \/ \E c \in Clients : WritesTo(c, id)

\* What a call without a race relies on.
Relies(c) ==
  /\ At(c, "remove") /\ ~client[c].raced => files[DeletedAt(client[c].id)] # Absent
  /\ At(c, "read") /\ ~client[c].raced /\ client[c].id \in client[c].present
       => settled[client[c].id] \notin {Absent, Unknown}
  /\ client[c].op = "list" /\ Busy(c) /\ ~client[c].raced => Changing = {} /\ torn = {}
  /\ At(c, "items") /\ ~client[c].raced => client[c].todo \subseteq Entries

\* What a listing has seen and has still to see.
Sees(c) ==
  /\ At(c, "readdir") => client[c].present \subseteq Entries /\ Entries \subseteq client[c].ever
  /\ At(c, "items") => /\ client[c].items \cup client[c].todo \subseteq client[c].ever
                       /\ client[c].ok =>
                            client[c].present \subseteq client[c].items \cup client[c].todo
  /\ At(c, "readdir") => client[c].items = {} /\ client[c].ok
  /\ client[c].op = "list" /\ ~client[c].ok => client[c].raced

\* What the caller is told.
Answers(c) ==
  /\ Answered(c, "list") /\ client[c].ok =>
       client[c].present \subseteq client[c].items /\ client[c].items \subseteq client[c].ever
  /\ client[c].step = "returned" /\ ~client[c].ok /\ ~client[c].raced =>
       \/ client[c].op = "save"
       \/ client[c].op = "load" /\ client[c].id \notin client[c].present

Sound(c) == InCall(c) /\ OpenFiles(c) /\ Relies(c) /\ Sees(c) /\ Answers(c)

IInv ==
  /\ TypeOK /\ OnePathInUse /\ Alone /\ SettledContent /\ EmptyFiles
  /\ \A c \in Clients : Sound(c)

-----------------------------------------------------------------------------
\* Types, and what the state's functions are

Records ==
  [op : {"idle", "save", "delete", "load", "list"}, id : Ids \cup {Unknown},
   content : Contents \cup {Absent},
   step : {"validate", "mkdir", "create", "write", "stat", "remove", "read", "readdir",
           "items", "returned"},
   linked : BOOLEAN, todo : SUBSET Ids, items : SUBSET Ids,
   present : SUBSET Ids, ever : SUBSET Ids, raced : BOOLEAN, ok : BOOLEAN]

LEMMA TypeFacts ==
  TypeOK <=> /\ storedAs \in {"file", "dir"}
             /\ files \in [Paths -> Contents \cup {Absent, Empty}]
             /\ dirs \subseteq Ids
             /\ client \in [Clients -> Records]
             /\ settled \in [Ids -> Contents \cup {Absent, Unknown}]
             /\ torn \subseteq Ids
BY DEF TypeOK, Records

LEMMA PathFacts ==
  ASSUME TypeOK, NEW i \in Ids
  PROVE  /\ <<i, "file">> \in Paths /\ <<i, "summary">> \in Paths /\ <<i, "listing">> \in Paths
         /\ SavedAt(i) \in Paths /\ ListedAt(i) \in Paths /\ DeletedAt(i) \in Paths
         /\ files[SavedAt(i)] \in Contents \cup {Absent, Empty}
         /\ storedAs = "file" => SavedAt(i) = DeletedAt(i) /\ ListedAt(i) = DeletedAt(i)
<1>1. <<i, "file">> \in Paths /\ <<i, "summary">> \in Paths /\ <<i, "listing">> \in Paths
  BY DEF Paths
<1>2. SavedAt(i) \in Paths /\ ListedAt(i) \in Paths /\ DeletedAt(i) \in Paths
  BY <1>1 DEF SavedAt, ListedAt, DeletedAt
<1>3. files[SavedAt(i)] \in Contents \cup {Absent, Empty}
  BY <1>2 DEF TypeOK
<1> QED BY <1>1, <1>2, <1>3 DEF SavedAt, ListedAt, DeletedAt

LEMMA StepFacts ==
  /\ StepsOf("save") = {"validate", "mkdir", "create", "write"}
  /\ StepsOf("delete") = {"stat", "remove"} /\ StepsOf("load") = {"read"}
  /\ StepsOf("list") = {"readdir", "items"} /\ StepsOf("idle") = {}
BY DEF StepsOf

\* Where the call of a client is says what it does.
LEMMA CallFacts ==
  ASSUME IInv, NEW c \in Clients
  PROVE  /\ client[c] \in Records
         /\ At(c, "validate") \/ At(c, "mkdir") \/ At(c, "create") \/ At(c, "write")
              => client[c].op = "save" /\ Changes(c, client[c].id)
         /\ At(c, "stat") \/ At(c, "remove")
              => client[c].op = "delete" /\ Changes(c, client[c].id)
         /\ At(c, "read") => client[c].op = "load"
         /\ At(c, "readdir") \/ At(c, "items") => client[c].op = "list"
         /\ Busy(c) /\ client[c].op # "list" => client[c].id \in Ids
         /\ client[c].linked => At(c, "write")
<1>1. client[c] \in Records
  BY TypeFacts DEF IInv
<1>2. InCall(c)
  BY DEF IInv, Sound
<1> QED BY <1>1, <1>2, StepFacts DEF InCall, At, Busy, Changes, Records

-----------------------------------------------------------------------------
\* What a step may do to the call of another client

Kept(d) ==
  /\ client'[d].op = client[d].op /\ client'[d].id = client[d].id
  /\ client'[d].content = client[d].content /\ client'[d].step = client[d].step
  /\ client'[d].todo = client[d].todo /\ client'[d].items = client[d].items
  /\ client'[d].ok = client[d].ok
  /\ client[d].raced => client'[d].raced
  /\ client'[d].linked => client[d].linked
  /\ client'[d].present \subseteq client[d].present /\ client[d].ever \subseteq client'[d].ever

LEMMA KeptStays ==
  ASSUME NEW d \in Clients, Kept(d)
  PROVE  /\ Busy(d)' <=> Busy(d)
         /\ \A x : At(d, x)' <=> At(d, x)
         /\ \A i : Changes(d, i)' <=> Changes(d, i)
BY DEF Kept, Busy, At, Changes

LEMMA KeptAnswers ==
  ASSUME IInv, NEW d \in Clients, Kept(d)
  PROVE  InCall(d)' /\ Answers(d)'
<1>1. InCall(d) /\ Answers(d)
  BY DEF IInv, Sound
<1>2. InCall(d)'
  BY <1>1, KeptStays DEF InCall, Kept
<1>3. Answers(d)'
  BY <1>1 DEF Answers, Answered, Kept
<1> QED BY <1>2, <1>3

-----------------------------------------------------------------------------
\* A step that changes only the caller's own record, and does not begin or end a write

Local(c) ==
  /\ UNCHANGED <<storedAs, disk, history>>
  /\ client' \in [Clients -> Records]
  /\ \A d \in Clients \ {c} : client'[d] = client[d]
  /\ \A i \in Ids : Changes(c, i)' => Changes(c, i) /\ client'[c].raced = client[c].raced
  /\ ~At(c, "write")' /\ ~(At(c, "write") /\ client[c].linked)

LEMMA LocalFrame ==
  ASSUME IInv, NEW c \in Clients, Local(c)
  PROVE  /\ Changing' \subseteq Changing /\ Entries' = Entries
         /\ storedAs' = storedAs /\ files' = files /\ dirs' = dirs
         /\ settled' = settled /\ torn' = torn
         /\ \A i : SavedAt(i)' = SavedAt(i) /\ DeletedAt(i)' = DeletedAt(i) /\ ListedAt(i)' = ListedAt(i)
         /\ \A d \in Clients \ {c} :
              /\ Busy(d)' <=> Busy(d)
              /\ \A x : At(d, x)' <=> At(d, x)
              /\ \A i : Changes(d, i)' <=> Changes(d, i)
<1>1. /\ storedAs' = storedAs /\ files' = files /\ dirs' = dirs
      /\ settled' = settled /\ torn' = torn
      /\ \A d \in Clients \ {c} : client'[d] = client[d]
      /\ \A i \in Ids : Changes(c, i)' => Changes(c, i)
  BY DEF Local, disk, history
<1>2. \A d \in Clients \ {c} :
              /\ Busy(d)' <=> Busy(d)
              /\ \A x : At(d, x)' <=> At(d, x)
              /\ \A i : Changes(d, i)' <=> Changes(d, i)
  BY <1>1 DEF Busy, At, Changes
<1>3. \A i \in Ids, d \in Clients : Changes(d, i)' => Changes(d, i)
  BY <1>1, <1>2
<1>4. Changing' \subseteq Changing
  BY <1>3 DEF Changing
<1>5. Entries' = Entries
  BY <1>1 DEF Entries
<1>6. \A i : SavedAt(i)' = SavedAt(i) /\ DeletedAt(i)' = DeletedAt(i) /\ ListedAt(i)' = ListedAt(i)
  BY <1>1 DEF SavedAt, DeletedAt, ListedAt
<1> QED BY <1>1, <1>2, <1>4, <1>5, <1>6

LEMMA LocalStep ==
  ASSUME IInv, NEW c \in Clients, Local(c), InCall(c)', Relies(c)', Sees(c)', Answers(c)'
  PROVE  IInv'
<1>1. /\ Changing' \subseteq Changing /\ Entries' = Entries
      /\ storedAs' = storedAs /\ files' = files /\ dirs' = dirs
      /\ settled' = settled /\ torn' = torn
      /\ \A i : SavedAt(i)' = SavedAt(i) /\ DeletedAt(i)' = DeletedAt(i) /\ ListedAt(i)' = ListedAt(i)
      /\ \A d \in Clients \ {c} :
           /\ Busy(d)' <=> Busy(d)
           /\ \A x : At(d, x)' <=> At(d, x)
           /\ \A i : Changes(d, i)' <=> Changes(d, i)
  BY LocalFrame
<1>2. /\ client' \in [Clients -> Records]
      /\ \A d \in Clients \ {c} : client'[d] = client[d]
      /\ \A i \in Ids : Changes(c, i)' => Changes(c, i) /\ client'[c].raced = client[c].raced
      /\ ~At(c, "write")' /\ ~(At(c, "write") /\ client[c].linked)
  BY DEF Local
<1>3. TypeOK' /\ OnePathInUse' /\ SettledContent'
  BY <1>1, <1>2, TypeFacts DEF IInv, TypeOK, Records, OnePathInUse, SettledContent
<1>4. Alone'
  <2>1. \A i \in Ids, d \in Clients : Changes(d, i)' => Changes(d, i) /\ client'[d].raced = client[d].raced
    BY <1>1, <1>2
  <2>2. \A i \in Changing' : settled'[i] = Unknown
    BY <1>1 DEF IInv, Alone
  <2> QED BY <2>1, <2>2 DEF IInv, Alone
<1>5. EmptyFiles'
  <2> SUFFICES ASSUME NEW i \in Ids, files[SavedAt(i)] = Empty, i \notin torn
               PROVE  \E d \in Clients : WritesTo(d, i)'
    BY <1>1 DEF EmptyFiles
  <2>1. PICK d \in Clients : WritesTo(d, i)
    BY DEF IInv, EmptyFiles
  <2>2. d # c
    BY <1>2, <2>1 DEF WritesTo
  <2>3. WritesTo(d, i)'
    BY <1>1, <1>2, <2>1, <2>2 DEF WritesTo
  <2> QED BY <2>3
<1>6. ASSUME NEW d \in Clients, d # c PROVE Sound(d)'
  <2>1. Sound(d) /\ client'[d] = client[d]
    BY <1>2, <1>6 DEF IInv
  <2>2. InCall(d)' /\ OpenFiles(d)' /\ Answers(d)' /\ Sees(d)'
    BY <1>1, <1>6, <2>1 DEF Sound, InCall, OpenFiles, Answers, Answered, Sees
  <2>3. Relies(d)'
    BY <1>1, <1>6, <2>1 DEF Sound, Relies
  <2> QED BY <2>2, <2>3 DEF Sound
<1>7. OpenFiles(c)'
  BY <1>2 DEF OpenFiles
<1>8. Sound(c)'
  BY <1>7 DEF Sound
<1> QED BY <1>3, <1>4, <1>5, <1>6, <1>8 DEF IInv

-----------------------------------------------------------------------------
\* A step of a call that changes item i

\* Of the disk and of the history it touches what is about i only, and it leaves behind what it
\* says; those who have the file open without a race are not cut off.
ChangesItem(c, i) ==
  /\ Changes(c, i)
  /\ storedAs' = storedAs /\ TypeOK' /\ OnePathInUse'
  /\ \A d \in Clients \ {c} : Kept(d)
  /\ \A j \in Ids \ {i} :
       /\ settled'[j] = settled[j] /\ (j \in torn' <=> j \in torn)
       /\ \A role \in {"file", "summary"} : files'[<<j, role>>] = files[<<j, role>>]
  /\ Busy(c)' => Changes(c, i)' /\ client'[c].raced = client[c].raced
  /\ settled'[i] # Unknown =>
       /\ ~client[c].raced /\ ~Busy(c)'
       /\ storedAs = "file" \/ settled'[i] # Absent => files'[SavedAt(i)] = settled'[i]
  /\ files'[SavedAt(i)] = Empty => i \in torn' \/ \E d \in Clients : WritesTo(d, i)'
  /\ \A d \in Clients \ {c} :
       /\ client'[d].linked # client[d].linked => client[d].id = i
       /\ client[d].id = i /\ client'[d].linked /\ files[SavedAt(i)] # Absent
            => files'[SavedAt(i)] # Absent
       /\ At(d, "readdir") => /\ client'[d].present \subseteq Entries'
                              /\ Entries' \subseteq client'[d].ever
  /\ client'[c].op # "list"
  /\ InCall(c)' /\ OpenFiles(c)' /\ Answers(c)'
  /\ ~At(c, "remove")'

LEMMA ChangeStep ==
  ASSUME IInv, NEW c \in Clients, NEW i \in Ids, ChangesItem(c, i)
  PROVE  IInv'
<1> USE DEF ChangesItem
<1>1. /\ \A d \in Clients \ {c} :
           /\ Busy(d)' <=> Busy(d)
           /\ \A x : At(d, x)' <=> At(d, x)
           /\ \A j : Changes(d, j)' <=> Changes(d, j)
      /\ \A j : SavedAt(j)' = SavedAt(j) /\ DeletedAt(j)' = DeletedAt(j)
      /\ \A j \in Ids \ {i} : files'[SavedAt(j)] = files[SavedAt(j)]
                              /\ files'[DeletedAt(j)] = files[DeletedAt(j)]
  BY KeptStays DEF SavedAt, DeletedAt
<1>2. \A j \in Ids : Changes(c, j) => j = i
  BY DEF Changes
<1>3. \A j \in Ids : Changes(c, j)' => j = i /\ client'[c].raced = client[c].raced
  BY DEF Changes
<1>4. \A d \in Clients : \A j \in Ids : Changes(d, j)' => Changes(d, j) /\ (client[d].raced => client'[d].raced)
  BY <1>1, <1>3 DEF Kept
<1>5. Alone'
  <2>1. ASSUME NEW j \in Changing' PROVE settled'[j] = Unknown
    <3>1. PICK d \in Clients : j \in Ids /\ Changes(d, j)'
      BY <2>1 DEF Changing
    <3>2. Changes(d, j) /\ j \in Changing
      BY <1>4, <3>1 DEF Changing
    <3>3. CASE j # i
      BY <3>1, <3>2, <3>3 DEF IInv, Alone
    <3>4. CASE j = i
      <4> SUFFICES ASSUME settled'[i] # Unknown PROVE FALSE
        BY <3>4
      <4>1. ~client[c].raced /\ ~Busy(c)' /\ Changes(c, i)
        OBVIOUS
      <4>2. c = d
        BY <3>2, <3>4, <4>1 DEF IInv, Alone
      <4> QED BY <3>1, <4>1, <4>2 DEF Changes
    <3> QED BY <3>3, <3>4
  <2>2. \A e, d \in Clients : \A j \in Ids :
          Changes(e, j)' /\ Changes(d, j)' /\ ~client'[e].raced => e = d
    BY <1>4 DEF IInv, Alone
  <2> QED BY <2>1, <2>2 DEF Alone
<1>6. SettledContent'
  BY <1>1 DEF IInv, SettledContent
<1>7. EmptyFiles'
  <2> SUFFICES ASSUME NEW j \in Ids, j # i, files'[SavedAt(j)] = Empty, j \notin torn'
               PROVE  \E d \in Clients : WritesTo(d, j)'
    BY <1>1 DEF EmptyFiles
  <2>1. PICK d \in Clients : WritesTo(d, j)
    BY <1>1 DEF IInv, EmptyFiles
  <2>2. d # c
    BY <2>1 DEF WritesTo, Changes
  <2>3. client'[d].linked = client[d].linked /\ client'[d].id = client[d].id
    BY <2>1, <2>2, TypeFacts DEF WritesTo, Kept
  <2>4. WritesTo(d, j)'
    BY <1>1, <2>1, <2>2, <2>3 DEF WritesTo
  <2> QED BY <2>4
<1>8. ASSUME NEW d \in Clients, d # c PROVE Sound(d)'
  <2>1. Sound(d) /\ Kept(d)
    BY <1>8 DEF IInv
  <2>2. InCall(d)' /\ Answers(d)'
    BY <2>1, KeptAnswers
  <2>3. /\ Busy(d)' <=> Busy(d)
        /\ \A x : At(d, x)' <=> At(d, x)
        /\ \A j : Changes(d, j)' <=> Changes(d, j)
    BY <1>1, <1>8
  <2>4. Changes(d, i) => client[d].raced /\ client'[d].raced
    BY <1>8, <2>1 DEF IInv, Alone, Kept
  <2>5. OpenFiles(d)'
    <3> SUFFICES ASSUME At(d, "write")
                 PROVE  /\ client'[d].linked => files'[SavedAt(client[d].id)] # Absent
                        /\ ~client'[d].raced => client'[d].linked
      BY <1>1, <2>1, <2>3 DEF OpenFiles, Kept
    <3>1. Changes(d, client[d].id) /\ client[d].id \in Ids
      BY CallFacts DEF At
    <3>2. CASE client[d].id = i
      BY <1>8, <2>1, <2>4, <3>1, <3>2 DEF Sound, OpenFiles, Kept
    <3>3. CASE client[d].id # i
      <4>1. client'[d].linked = client[d].linked
        BY <1>8, <3>3
      <4> QED BY <1>1, <2>1, <3>1, <3>3, <4>1 DEF Sound, OpenFiles, Kept
    <3> QED BY <3>2, <3>3
  <2>6. client[d].op = "list" /\ Busy(d) => client'[d].raced
    <3>1. i \in Changing
      BY DEF Changing
    <3> QED BY <2>1, <3>1 DEF Sound, Relies, Kept
  <2>7. Relies(d)'
    <3>1. At(d, "remove") /\ ~client'[d].raced => files'[DeletedAt(client[d].id)] # Absent
      <4> SUFFICES ASSUME At(d, "remove"), ~client'[d].raced
                   PROVE  files'[DeletedAt(client[d].id)] # Absent
        OBVIOUS
      <4>1. Changes(d, client[d].id) /\ client[d].id \in Ids
        BY CallFacts DEF At
      <4>2. client[d].id # i
        BY <2>4, <4>1
      <4> QED BY <1>1, <2>1, <4>1, <4>2 DEF Sound, Relies, Kept
    <3>2. At(d, "read") /\ ~client'[d].raced /\ client[d].id \in client'[d].present
            => settled'[client[d].id] \notin {Absent, Unknown}
      <4> SUFFICES ASSUME At(d, "read"), ~client'[d].raced, client[d].id \in client'[d].present
                   PROVE  settled'[client[d].id] \notin {Absent, Unknown}
        OBVIOUS
      <4>1. settled[client[d].id] \notin {Absent, Unknown} /\ client[d].id \in Ids
        BY <2>1, CallFacts DEF Sound, Relies, Kept, At
      <4>2. settled[i] = Unknown
        BY DEF IInv, Alone, Changing
      <4> QED BY <4>1, <4>2
    <3>3. At(d, "items") => client'[d].raced
      BY <2>6, CallFacts DEF At
    <3> QED BY <1>1, <2>1, <2>3, <2>6, <3>1, <3>2, <3>3 DEF Relies, Kept
  <2>8. Sees(d)'
    BY <1>8, <2>1, <2>3 DEF Sound, Sees, Kept
  <2> QED BY <2>2, <2>5, <2>7, <2>8 DEF Sound
<1>9. Sound(c)'
  <2>1. ~At(c, "read")' /\ ~At(c, "readdir")' /\ ~At(c, "items")'
    BY DEF Changes, At, InCall, StepsOf
  <2>2. Relies(c)' /\ Sees(c)'
    BY <2>1 DEF Relies, Sees
  <2> QED BY <2>2 DEF Sound
<1> QED BY <1>5, <1>6, <1>7, <1>8, <1>9 DEF IInv

-----------------------------------------------------------------------------
\* How the calls change the record of their client

Stepped(c, s) == [client EXCEPT ![c].step = s]

LEMMA SteppedFacts ==
  ASSUME client \in [Clients -> Records], NEW c \in Clients,
         NEW s \in {"validate", "mkdir", "create", "write", "stat", "remove", "read", "readdir",
                    "items", "returned"}
  PROVE  /\ Stepped(c, s) \in [Clients -> Records]
         /\ \A d \in Clients \ {c} : Stepped(c, s)[d] = client[d]
         /\ LET r == Stepped(c, s)[c] IN
            /\ r.op = client[c].op /\ r.id = client[c].id /\ r.content = client[c].content
            /\ r.step = s /\ r.linked = client[c].linked /\ r.todo = client[c].todo
            /\ r.items = client[c].items /\ r.present = client[c].present
            /\ r.ever = client[c].ever /\ r.raced = client[c].raced /\ r.ok = client[c].ok
BY DEF Stepped, Records

LEMMA ReturnsFacts ==
  ASSUME client \in [Clients -> Records], NEW c \in Clients, NEW b \in BOOLEAN
  PROVE  /\ Returns(c, b) \in [Clients -> Records]
         /\ \A d \in Clients \ {c} : Returns(c, b)[d] = client[d]
         /\ LET r == Returns(c, b)[c] IN
            /\ r.op = client[c].op /\ r.id = client[c].id /\ r.content = client[c].content
            /\ r.step = "returned" /\ r.linked = FALSE /\ r.todo = client[c].todo
            /\ r.items = client[c].items /\ r.present = client[c].present
            /\ r.ever = client[c].ever /\ r.raced = client[c].raced /\ r.ok = b
<1> DEFINE new == [client[c] EXCEPT !.step = "returned", !.ok = b, !.linked = FALSE]
<1>1. client[c] \in Records
  OBVIOUS
<1>2. Returns(c, b) = [client EXCEPT ![c] = new]
  BY DEF Returns
<1>3. /\ new \in Records
      /\ new.op = client[c].op /\ new.id = client[c].id /\ new.content = client[c].content
      /\ new.step = "returned" /\ new.linked = FALSE /\ new.todo = client[c].todo
      /\ new.items = client[c].items /\ new.present = client[c].present
      /\ new.ever = client[c].ever /\ new.raced = client[c].raced /\ new.ok = b
  BY <1>1 DEF Records
<1> HIDE DEF new
<1> QED BY <1>2, <1>3

LEMMA IdleFacts ==
  /\ Idle \in Records
  /\ Idle.op = "idle" /\ Idle.step = "returned" /\ Idle.linked = FALSE /\ Idle.ok = TRUE
  /\ Idle.todo = {} /\ Idle.items = {} /\ Idle.raced = FALSE
BY DEF Idle, Records

\* A call that ends without having touched anything.
LEMMA LocalReturn ==
  ASSUME IInv, NEW c \in Clients, UNCHANGED <<storedAs, disk, history>>,
         client' \in [Clients -> Records], \A d \in Clients \ {c} : client'[d] = client[d],
         ~(At(c, "write") /\ client[c].linked),
         client'[c].step = "returned", ~client'[c].linked,
         client'[c].op = "save" => client'[c].content \in Contents,
         client'[c].op = "list" /\ ~client'[c].ok => client'[c].raced,
         Answers(c)'
  PROVE  IInv'
<1>1. ~Busy(c)'
  BY DEF Busy
<1>2. (\A x : ~At(c, x)') /\ (\A j : ~Changes(c, j)')
  BY <1>1 DEF At, Changes
<1>3. Local(c)
  BY <1>2 DEF Local
<1>4. InCall(c)' /\ Relies(c)' /\ Sees(c)'
  BY <1>1, <1>2 DEF InCall, Relies, Sees
<1> QED BY <1>3, <1>4, LocalStep

LEMMA EndStep ==
  ASSUME IInv, NEW c \in Clients, End(c)
  PROVE  IInv'
<1>1. /\ UNCHANGED <<storedAs, disk, history>>
      /\ client' = [client EXCEPT ![c] = Idle] /\ client[c].step = "returned"
  BY DEF End
<1>2. client' \in [Clients -> Records] /\ (\A d \in Clients \ {c} : client'[d] = client[d]) /\ client'[c] = Idle
  BY <1>1, IdleFacts, TypeFacts DEF IInv
<1>3. ~At(c, "write")
  BY <1>1 DEF At, Busy
<1>4. Answers(c)'
  BY <1>2, IdleFacts DEF Answers, Answered
<1> QED BY <1>1, <1>2, <1>3, <1>4, IdleFacts, LocalReturn

\* A save or a delete that goes on before it has touched anything.
LEMMA GoesOn ==
  ASSUME IInv, NEW c \in Clients, UNCHANGED <<storedAs, disk, history>>, NEW s,
         \/ At(c, "validate") /\ s = "mkdir"
         \/ At(c, "mkdir") /\ s = "create"
         \/ At(c, "stat") /\ s = "remove" /\ files[DeletedAt(client[c].id)] # Absent,
         client' = Stepped(c, s)
  PROVE  IInv'
<1>0. PICK i : i = client[c].id
  OBVIOUS
<1>1. /\ client[c] \in Records /\ ~At(c, "write") /\ i \in Ids /\ ~client[c].linked
      /\ \/ client[c].op = "save" /\ s \in {"mkdir", "create"}
         \/ client[c].op = "delete" /\ s = "remove" /\ files[DeletedAt(i)] # Absent
  BY <1>0, CallFacts DEF At
<1>2. /\ client' \in [Clients -> Records] /\ \A d \in Clients \ {c} : client'[d] = client[d]
      /\ client'[c].op = client[c].op /\ client'[c].id = i
      /\ client'[c].content = client[c].content
      /\ client'[c].step = s /\ ~client'[c].linked
      /\ client'[c].raced = client[c].raced /\ client'[c].ok = client[c].ok
  BY <1>0, <1>1, SteppedFacts, TypeFacts DEF IInv
<1>3. Busy(c)' /\ (\A x : At(c, x)' <=> x = s)
  BY <1>1, <1>2 DEF Busy, At
<1>4. \A j : Changes(c, j) <=> j = i
  BY <1>0, <1>1 DEF Changes, At, Busy
<1>5. Local(c)
  <2>1. \A j : Changes(c, j)' => j = i
    BY <1>2 DEF Changes
  <2>2. ~At(c, "write")'
    BY <1>1, <1>3
  <2> QED BY <1>1, <1>2, <1>4, <2>1, <2>2 DEF Local
<1>6. InCall(c)'
  BY <1>1, <1>2, <1>3, StepFacts DEF InCall, IInv, Sound
<1>7. Relies(c)'
  <2>1. DeletedAt(i)' = DeletedAt(i) /\ files' = files
    BY <1>5, LocalFrame
  <2>2. At(c, "remove")' => files'[DeletedAt(i)] # Absent
    BY <1>1, <1>3, <2>1
  <2>3. (client[c].op = "list") = FALSE /\ ~At(c, "read")' /\ ~At(c, "items")'
    BY <1>1, <1>3
  <2> QED BY <1>2, <2>2, <2>3 DEF Relies, DeletedAt
<1>8. Sees(c)' /\ Answers(c)'
  BY <1>1, <1>2, <1>3 DEF Sees, Answers, Answered
<1> QED BY <1>5, <1>6, <1>7, <1>8, LocalStep

\* A save or a delete that fails with an error.
LEMMA GivesUp ==
  ASSUME IInv, NEW c \in Clients, UNCHANGED <<storedAs, disk, history>>,
         \/ At(c, "validate") \/ At(c, "mkdir") \/ At(c, "create")
         \/ At(c, "remove") /\ files[DeletedAt(client[c].id)] = Absent,
         client' = Returns(c, FALSE)
  PROVE  IInv'
<1>1. /\ client[c] \in Records /\ ~At(c, "write") /\ client[c].op # "list"
      /\ client[c].op = "save" \/ client[c].raced
  BY CallFacts DEF At, IInv, Sound, Relies
<1>2. /\ client' \in [Clients -> Records] /\ \A d \in Clients \ {c} : client'[d] = client[d]
      /\ client'[c].op = client[c].op /\ client'[c].content = client[c].content
      /\ client'[c].step = "returned" /\ ~client'[c].linked /\ client'[c].raced = client[c].raced
  BY ReturnsFacts, TypeFacts DEF IInv
<1>3. Answers(c)'
  BY <1>1, <1>2 DEF Answers, Answered
<1>4. client'[c].op = "save" => client'[c].content \in Contents
  BY <1>2 DEF IInv, Sound, InCall
<1> QED BY <1>1, <1>2, <1>3, <1>4, LocalReturn

LEMMA ValidateStep ==
  ASSUME IInv, NEW c \in Clients, Validate(c)
  PROVE  IInv'
<1>1. At(c, "validate") /\ UNCHANGED <<storedAs, disk, history>>
  BY DEF Validate
<1>2. CASE client' = Stepped(c, "mkdir")
  BY <1>1, <1>2, GoesOn
<1>3. CASE client' = Returns(c, FALSE)
  BY <1>1, <1>3, GivesUp
<1> QED BY <1>2, <1>3 DEF Validate, Stepped

\* A file that nobody is writing and no crash has left behind is not empty.
LEMMA QuietFiles ==
  ASSUME IInv, NEW i \in Ids, i \notin torn, i \notin Changing
  PROVE  files[SavedAt(i)] # Empty
<1> SUFFICES ASSUME files[SavedAt(i)] = Empty PROVE FALSE
  OBVIOUS
<1>1. PICK d \in Clients : WritesTo(d, i)
  BY DEF IInv, EmptyFiles
<1>2. Changes(d, i)
  BY <1>1, CallFacts DEF WritesTo
<1> QED BY <1>2 DEF Changing

LEMMA ReadStep ==
  ASSUME IInv, NEW c \in Clients, Read(c)
  PROVE  IInv'
<1>1. PICK i : i = client[c].id
  OBVIOUS
<1>2. PICK b \in BOOLEAN : b = Readable(SavedAt(i))
  BY DEF Readable
<1>3. /\ UNCHANGED <<storedAs, disk, history>> /\ At(c, "read")
      /\ client' = [Returns(c, b) EXCEPT ![c].content = IF b THEN files[SavedAt(i)] ELSE Absent]
  BY <1>1, <1>2 DEF Read
<1>4. /\ client[c].op = "load" /\ i \in Ids /\ ~At(c, "write")
  BY <1>1, <1>3, CallFacts DEF At
<1>5. (IF b THEN files[SavedAt(i)] ELSE Absent) \in Contents \cup {Absent}
  BY <1>2, <1>4, PathFacts DEF IInv, Readable
<1>6. /\ client' \in [Clients -> Records] /\ \A d \in Clients \ {c} : client'[d] = client[d]
      /\ client'[c].op = "load" /\ client'[c].id = i /\ client'[c].present = client[c].present
      /\ client'[c].step = "returned" /\ client'[c].linked = FALSE
      /\ client'[c].raced = client[c].raced /\ client'[c].ok = b
  <2> DEFINE f == Returns(c, b)
             x == IF b THEN files[SavedAt(i)] ELSE Absent
  <2>1. /\ f \in [Clients -> Records] /\ \A d \in Clients \ {c} : f[d] = client[d]
        /\ f[c].op = "load" /\ f[c].id = i /\ f[c].present = client[c].present
        /\ f[c].step = "returned" /\ f[c].linked = FALSE
        /\ f[c].raced = client[c].raced /\ f[c].ok = b
    BY <1>1, <1>4, ReturnsFacts, TypeFacts DEF IInv
  <2>2. client' = [f EXCEPT ![c] = [f[c] EXCEPT !.content = x]] /\ x \in Contents \cup {Absent}
    BY <1>3, <1>5
  <2> HIDE DEF f, x
  <2>3. f[c] \in Records
    BY <2>1
  <2>4. [f[c] EXCEPT !.content = x] \in Records
    BY <2>2, <2>3 DEF Records
  <2> QED BY <2>1, <2>2, <2>3, <2>4 DEF Records
<1>7. ~b /\ ~client[c].raced => i \notin client[c].present
  <2> SUFFICES ASSUME ~b, ~client[c].raced, i \in client[c].present PROVE FALSE
    OBVIOUS
  <2>1. settled[i] \notin {Absent, Unknown}
    BY <1>1, <1>3 DEF IInv, Sound, Relies
  <2>2. settled[i] \in Contents /\ files[SavedAt(i)] = settled[i]
    BY <1>4, <2>1 DEF IInv, TypeOK, SettledContent
  <2> QED BY <1>2, <2>2, ValuesAssumption DEF Readable
<1>8. Answers(c)'
  BY <1>6, <1>7 DEF Answers, Answered
<1> QED BY <1>3, <1>4, <1>6, <1>8, LocalReturn

\* A listing that goes on.
LEMMA ListGoesOn ==
  ASSUME IInv, NEW c \in Clients, UNCHANGED <<storedAs, disk, history>>,
         client' \in [Clients -> Records], \A d \in Clients \ {c} : client'[d] = client[d],
         client[c].op = "list", client'[c].op = "list", Busy(c), client'[c].step = "items",
         client'[c].linked = client[c].linked, client'[c].raced = client[c].raced,
         ~client[c].raced => client'[c].todo \subseteq Entries,
         client'[c].items \cup client'[c].todo \subseteq client'[c].ever,
         client'[c].ok => client'[c].present \subseteq client'[c].items \cup client'[c].todo,
         ~client'[c].ok => client'[c].raced
  PROVE  IInv'
<1>1. ~At(c, "write") /\ ~client[c].linked
  BY CallFacts
<1>2. Busy(c)' /\ (\A x : At(c, x)' <=> x = "items") /\ (\A j : ~Changes(c, j)')
  BY DEF Busy, At, Changes
<1>3. Local(c)
  BY <1>1, <1>2 DEF Local
<1>4. InCall(c)'
  BY <1>1, <1>2, StepFacts DEF InCall
<1>5. Relies(c)'
  <2>1. /\ Changing' \subseteq Changing /\ Entries' = Entries /\ torn' = torn
    BY <1>3, LocalFrame
  <2>2. ~client[c].raced => Changing = {} /\ torn = {}
    BY DEF IInv, Sound, Relies
  <2> QED BY <1>2, <2>1, <2>2 DEF Relies
<1>6. Sees(c)' /\ Answers(c)'
  BY <1>2 DEF Sees, Answers, Answered
<1> QED BY <1>3, <1>4, <1>5, <1>6, LocalStep

LEMMA ReaddirStep ==
  ASSUME IInv, NEW c \in Clients, Readdir(c)
  PROVE  IInv'
<1>1. PICK entries : entries = Entries
  OBVIOUS
<1>2. /\ UNCHANGED <<storedAs, disk, history>> /\ At(c, "readdir") /\ Busy(c)
      /\ client' = [client EXCEPT ![c] = [client[c] EXCEPT !.step = "items", !.todo = entries]]
  BY <1>1 DEF Readdir, At
<1>3. entries \subseteq Ids
  BY <1>1 DEF Entries, IInv, TypeOK
<1>4. client[c] \in Records /\ client[c].op = "list"
  BY <1>2, CallFacts
<1>5. /\ client' \in [Clients -> Records] /\ \A d \in Clients \ {c} : client'[d] = client[d]
      /\ client'[c].op = "list" /\ client'[c].step = "items" /\ client'[c].todo = entries
      /\ client'[c].items = client[c].items /\ client'[c].present = client[c].present
      /\ client'[c].ever = client[c].ever /\ client'[c].linked = client[c].linked
      /\ client'[c].raced = client[c].raced /\ client'[c].ok = client[c].ok
  <2>1. client \in [Clients -> Records]
    BY TypeFacts DEF IInv
  <2> QED BY <1>2, <1>3, <1>4, <2>1 DEF Records
<1>6. /\ client[c].present \subseteq entries /\ entries \subseteq client[c].ever
      /\ client[c].items = {} /\ client[c].ok
  BY <1>1, <1>2 DEF IInv, Sound, Sees
<1> QED BY <1>1, <1>2, <1>4, <1>5, <1>6, ListGoesOn

\* An entry fails to load when it is a file that is empty or has gone: not without a race.
LEMMA LoadEntryStep ==
  ASSUME IInv, NEW c \in Clients, LoadEntry(c)
  PROVE  IInv'
<1>1. PICK i \in client[c].todo :
        LET loads == Readable(ListedAt(i)) \/ (storedAs = "dir" /\ files[ListedAt(i)] = Absent)
        IN  client' = [client EXCEPT ![c].todo = @ \ {i},
                         ![c].items = IF loads THEN @ \cup {i} ELSE @,
                         ![c].ok = @ /\ loads]
  BY DEF LoadEntry
<1>2. PICK b \in BOOLEAN : b <=> Readable(ListedAt(i)) \/ (storedAs = "dir" /\ files[ListedAt(i)] = Absent)
  OBVIOUS
<1>3. /\ UNCHANGED <<storedAs, disk, history>> /\ At(c, "items") /\ Busy(c)
  BY DEF LoadEntry, At
<1>4. /\ client[c] \in Records /\ client[c].op = "list" /\ i \in Ids
  BY <1>3, CallFacts DEF Records
<1>5. PICK newOk \in BOOLEAN : newOk <=> client[c].ok /\ b
  OBVIOUS
<1>6. client' = [client EXCEPT ![c] =
                   [client[c] EXCEPT !.todo = @ \ {i}, !.items = IF b THEN @ \cup {i} ELSE @, !.ok = newOk]]
  <2>1. (client[c].ok /\ (Readable(ListedAt(i)) \/ (storedAs = "dir" /\ files[ListedAt(i)] = Absent))) = newOk
    BY <1>2, <1>4, <1>5 DEF Records
  <2> QED BY <1>1, <1>2, <2>1
<1>7. /\ client' \in [Clients -> Records] /\ \A d \in Clients \ {c} : client'[d] = client[d]
      /\ client'[c].op = "list" /\ client'[c].step = "items" /\ client'[c].todo = client[c].todo \ {i}
      /\ client'[c].items = (IF b THEN client[c].items \cup {i} ELSE client[c].items)
      /\ client'[c].present = client[c].present
      /\ client'[c].ever = client[c].ever /\ client'[c].linked = client[c].linked
      /\ client'[c].raced = client[c].raced /\ client'[c].ok = newOk
  <2>1. client \in [Clients -> Records] /\ client[c].step = "items"
    BY <1>3, TypeFacts DEF IInv, At
  <2> QED BY <1>4, <1>6, <2>1 DEF Records
<1>8. /\ client[c].items \cup client[c].todo \subseteq client[c].ever
      /\ client[c].ok => client[c].present \subseteq client[c].items \cup client[c].todo
      /\ ~client[c].ok => client[c].raced
  BY <1>3, <1>4 DEF IInv, Sound, Sees
<1>9. ~client[c].raced => client[c].todo \subseteq Entries /\ Changing = {} /\ torn = {}
  BY <1>3, <1>4 DEF IInv, Sound, Relies
<1>10. ~client[c].raced => b
  <2> SUFFICES ASSUME ~client[c].raced PROVE b
    OBVIOUS
  <2>1. CASE storedAs = "dir"
    <3>1. files[ListedAt(i)] = Absent
      BY <1>4, <2>1 DEF IInv, OnePathInUse, ListedAt
    <3> QED BY <1>2, <2>1, <3>1
  <2>2. CASE storedAs = "file"
    <3>1. i \in Entries /\ files[SavedAt(i)] # Empty
      BY <1>4, <1>9, QuietFiles
    <3>2. ListedAt(i) = SavedAt(i) /\ files[SavedAt(i)] # Absent
      BY <2>2, <3>1 DEF Entries, SavedAt, ListedAt
    <3> QED BY <1>2, <3>1, <3>2 DEF Readable
  <2> QED BY <2>1, <2>2 DEF IInv, TypeOK
<1>11. client'[c].items \cup client'[c].todo \subseteq client'[c].ever
  BY <1>1, <1>7, <1>8
<1>12. client'[c].ok => client'[c].present \subseteq client'[c].items \cup client'[c].todo
  BY <1>5, <1>7, <1>8
<1>13. ~client'[c].ok => client'[c].raced
  BY <1>5, <1>7, <1>8, <1>10
<1>14. ~client[c].raced => client'[c].todo \subseteq Entries
  BY <1>7, <1>9
<1> QED BY <1>3, <1>4, <1>7, <1>11, <1>12, <1>13, <1>14, ListGoesOn

LEMMA ListedStep ==
  ASSUME IInv, NEW c \in Clients, Listed(c)
  PROVE  IInv'
<1>1. /\ UNCHANGED <<storedAs, disk, history>> /\ At(c, "items") /\ client[c].todo = {}
      /\ client' = [client EXCEPT ![c] =
           [client[c] EXCEPT !.step = "returned", !.items = IF client[c].ok THEN @ ELSE {}]]
  BY DEF Listed
<1>2. client[c] \in Records /\ client[c].op = "list" /\ ~At(c, "write") /\ ~client[c].linked
  BY <1>1, CallFacts DEF At
<1>3. /\ client' \in [Clients -> Records] /\ \A d \in Clients \ {c} : client'[d] = client[d]
      /\ client'[c].op = "list" /\ client'[c].step = "returned"
      /\ client'[c].items = (IF client[c].ok THEN client[c].items ELSE {})
      /\ client'[c].present = client[c].present
      /\ client'[c].ever = client[c].ever /\ client'[c].linked = client[c].linked
      /\ client'[c].raced = client[c].raced /\ client'[c].ok = client[c].ok
  <2>1. client \in [Clients -> Records]
    BY TypeFacts DEF IInv
  <2> QED BY <1>1, <1>2, <2>1 DEF Records
<1>4. /\ client[c].items \subseteq client[c].ever
      /\ client[c].ok => client[c].present \subseteq client[c].items
      /\ ~client[c].ok => client[c].raced
  BY <1>1, <1>2 DEF IInv, Sound, Sees
<1>5. Answers(c)'
  BY <1>3, <1>4 DEF Answers, Answered
<1> QED BY <1>1, <1>2, <1>3, <1>4, <1>5, LocalReturn

-----------------------------------------------------------------------------
\* Calls begin

LEMMA CallsFacts ==
  ASSUME TypeOK, NEW o \in {"save", "delete", "load", "list"}, NEW i \in Ids \cup {Unknown},
         NEW x \in Contents \cup {Absent},
         NEW s \in {"validate", "stat", "read", "readdir"},
         NEW r, r = Calls(o, i, x, s)
  PROVE  /\ r \in Records /\ r.op = o /\ r.id = i /\ r.step = s /\ r.content = x
         /\ ~r.linked /\ r.items = {} /\ r.ok
         /\ r.present = There(o)
         /\ o = "list" => r.ever = Entries /\ (r.raced <=> Changing \cup torn # {})
         /\ o # "list" => (r.raced <=> i \in Changing \cup torn)
<1>1. There(o) \subseteq Ids /\ Entries \subseteq Ids
  BY DEF There, Entries, TypeOK
<1>2. PICK p : p = There(o)
  OBVIOUS
<1>3. PICK e : e = (IF o = "list" THEN Entries ELSE {})
  OBVIOUS
<1>4. PICK b \in BOOLEAN :
        b <=> IF o = "list" THEN Changing \cup torn # {} ELSE i \in Changing \cup torn
  OBVIOUS
<1>5. (IF o = "list" THEN Changing \cup torn # {} ELSE i \in Changing \cup torn) = b
  BY <1>4
<1>6. r = [Idle EXCEPT !.op = o, !.id = i, !.content = x, !.step = s, !.present = p, !.ever = e,
                       !.raced = b]
  BY <1>2, <1>3, <1>5 DEF Calls
<1>7. p \in SUBSET Ids /\ e \in SUBSET Ids
  BY <1>1, <1>2, <1>3
<1>8. /\ r \in Records /\ r.op = o /\ r.id = i /\ r.step = s /\ r.content = x
      /\ ~r.linked /\ r.items = {} /\ r.ok
      /\ r.present = p /\ r.ever = e /\ r.raced = b
  BY <1>6, <1>7 DEF Idle, Records
<1> QED BY <1>2, <1>3, <1>4, <1>8

LEMMA BeginReading ==
  ASSUME IInv, NEW c \in Clients,
         \/ \E i \in Ids : Begin(c, "load", i, Absent, "read")
         \/ Begin(c, "list", Unknown, Absent, "readdir")
  PROVE  IInv'
<1>1. PICK o \in {"load", "list"}, i \in Ids \cup {Unknown}, s \in {"read", "readdir"} :
        /\ o = "load" => s = "read" /\ i \in Ids
        /\ o = "list" => s = "readdir"
        /\ Begin(c, o, i, Absent, s)
  OBVIOUS
<1>2. /\ client[c].op = "idle" /\ client' = [client EXCEPT ![c] = Calls(o, i, Absent, s)]
      /\ UNCHANGED <<storedAs, disk, history>>
  BY <1>1 DEF Begin, history
<1>3. PICK r : r = Calls(o, i, Absent, s)
  OBVIOUS
<1>4. /\ r \in Records /\ r.op = o /\ r.id = i /\ r.step = s
      /\ ~r.linked /\ r.items = {} /\ r.ok
      /\ r.present = There(o)
      /\ o = "list" => r.ever = Entries /\ (r.raced <=> Changing \cup torn # {})
      /\ o # "list" => (r.raced <=> i \in Changing \cup torn)
  <2>1. /\ TypeOK /\ r = Calls(o, i, Absent, s)
        /\ o \in {"save", "delete", "load", "list"} /\ i \in Ids \cup {Unknown}
        /\ Absent \in Contents \cup {Absent} /\ s \in {"validate", "stat", "read", "readdir"}
    BY <1>1, <1>3 DEF IInv
  <2> QED BY <2>1, CallsFacts
<1>5. /\ client' \in [Clients -> Records] /\ (\A d \in Clients \ {c} : client'[d] = client[d])
      /\ client'[c] = r
  BY <1>2, <1>3, <1>4, TypeFacts DEF IInv
<1>6. Busy(c)' /\ (\A x : At(c, x)' <=> x = s) /\ (\A j : ~Changes(c, j)')
  BY <1>1, <1>4, <1>5 DEF Busy, At, Changes
<1>7. ~(At(c, "write") /\ client[c].linked)
  BY <1>2, CallFacts DEF At
<1>8. Local(c)
  BY <1>2, <1>5, <1>6, <1>7 DEF Local
<1>9. InCall(c)'
  BY <1>1, <1>4, <1>5, <1>6, StepFacts DEF InCall
<1>10. /\ Changing' \subseteq Changing /\ Entries' = Entries /\ torn' = torn /\ settled' = settled
  BY <1>8, LocalFrame
<1>11. Relies(c)'
  <2>1. CASE o = "load"
    <3>1. \A j \in There("load") : settled[j] \notin {Absent, Unknown}
      BY DEF There
    <3> QED BY <1>1, <1>4, <1>5, <1>6, <1>10, <2>1, <3>1 DEF Relies
  <2>2. CASE o = "list"
    BY <1>1, <1>4, <1>5, <1>6, <1>10, <2>2 DEF Relies
  <2> QED BY <1>1, <2>1, <2>2
<1>12. Sees(c)'
  <2>1. There("list") = Entries
    BY DEF There
  <2> QED BY <1>1, <1>4, <1>5, <1>6, <1>10, <2>1 DEF Sees
<1>13. Answers(c)'
  BY <1>1, <1>4, <1>5 DEF Answers, Answered
<1> QED BY <1>8, <1>9, <1>11, <1>12, <1>13, LocalStep

\* Whoever is busy with the item, or lists, is raced from now on.
LEMMA BeginChanging ==
  ASSUME IInv, NEW c \in Clients, NEW i \in Ids, NEW o \in {"save", "delete"},
         NEW x \in Contents \cup {Absent}, NEW s \in {"validate", "stat"},
         o = "save" => s = "validate" /\ x \in Contents,
         o = "delete" => s = "stat",
         Begin(c, o, i, x, s)
  PROVE  IInv'
<1>1. /\ client[c].op = "idle" /\ client' = [Disturbed(i) EXCEPT ![c] = Calls(o, i, x, s)]
      /\ settled' = [settled EXCEPT ![i] = Unknown]
      /\ storedAs' = storedAs /\ files' = files /\ dirs' = dirs /\ torn' = torn
  BY DEF Begin, disk
<1>2. PICK r : r = Calls(o, i, x, s)
  OBVIOUS
<1>3. /\ r \in Records /\ r.op = o /\ r.id = i /\ r.step = s /\ r.content = x
      /\ ~r.linked /\ r.ok
      /\ r.raced <=> i \in Changing \cup torn
  <2>1. /\ TypeOK /\ r = Calls(o, i, x, s) /\ o # "list"
        /\ o \in {"save", "delete", "load", "list"} /\ i \in Ids \cup {Unknown}
        /\ x \in Contents \cup {Absent} /\ s \in {"validate", "stat", "read", "readdir"}
    BY <1>2 DEF IInv
  <2> HIDE <1>2
  <2>2. /\ r \in Records /\ r.op = o /\ r.id = i /\ r.step = s /\ r.content = x
        /\ ~r.linked /\ r.items = {} /\ r.ok
        /\ o # "list" => (r.raced <=> i \in Changing \cup torn)
    BY <2>1, CallsFacts
  <2> QED BY <2>1, <2>2
<1>4. client \in [Clients -> Records]
  BY TypeFacts DEF IInv
<1>5. /\ DOMAIN client' = Clients /\ client'[c] = r
      /\ \A d \in Clients \ {c} :
           client'[d] = IF Busy(d) /\ (client[d].id = i \/ client[d].op = "list")
                        THEN [client[d] EXCEPT !.raced = TRUE] ELSE client[d]
  BY <1>1, <1>2 DEF Disturbed
<1>6. ASSUME NEW d \in Clients, d # c
      PROVE  /\ client'[d] \in Records /\ Kept(d)
             /\ client'[d].linked = client[d].linked /\ client'[d].present = client[d].present
             /\ client'[d].ever = client[d].ever
             /\ Busy(d) /\ (client[d].id = i \/ client[d].op = "list") => client'[d].raced
  <2>1. client[d] \in Records
    BY <1>4
  <2>2. CASE Busy(d) /\ (client[d].id = i \/ client[d].op = "list")
    <3>1. client'[d] = [client[d] EXCEPT !.raced = TRUE]
      BY <1>5, <1>6, <2>2
    <3> QED BY <2>1, <3>1 DEF Kept, Records
  <2>3. CASE ~(Busy(d) /\ (client[d].id = i \/ client[d].op = "list"))
    <3>1. client'[d] = client[d]
      BY <1>5, <1>6, <2>3
    <3> QED BY <2>1, <2>3, <3>1 DEF Kept
  <2> QED BY <2>2, <2>3
<1>7. client' \in [Clients -> Records]
  <2>1. \A d \in Clients : client'[d] \in Records
    BY <1>3, <1>5, <1>6
  <2>2. client' = [d \in Clients |-> client'[d]]
    BY <1>1 DEF Disturbed
  <2> QED BY <2>1, <2>2
<1>8. \A d \in Clients \ {c} :
        /\ Busy(d)' <=> Busy(d)
        /\ \A y : At(d, y)' <=> At(d, y)
        /\ \A j : Changes(d, j)' <=> Changes(d, j)
  BY <1>6, KeptStays
<1>9. Busy(c)' /\ (\A y : At(c, y)' <=> y = s) /\ (\A j : Changes(c, j)' <=> j = i) /\ ~Busy(c)
  BY <1>1, <1>3, <1>5 DEF Busy, At, Changes
<1>10. ~At(c, "write") /\ (\A j : ~Changes(c, j))
  BY <1>9 DEF At, Changes
<1>11. /\ \A j : SavedAt(j)' = SavedAt(j) /\ DeletedAt(j)' = DeletedAt(j)
       /\ Entries' = Entries
  BY <1>1 DEF SavedAt, DeletedAt, Entries
<1>12. settled \in [Ids -> Contents \cup {Absent, Unknown}]
  BY DEF IInv, TypeOK
<1>13. TypeOK' /\ OnePathInUse'
  <2>1. settled' \in [Ids -> Contents \cup {Absent, Unknown}]
    BY <1>1, <1>12
  <2> QED BY <1>1, <1>7, <2>1 DEF IInv, TypeOK, Records, OnePathInUse
<1>14. settled'[i] = Unknown /\ \A j \in Ids : j # i => settled'[j] = settled[j]
  BY <1>1, <1>12
<1>15. SettledContent'
  BY <1>1, <1>11, <1>14 DEF IInv, SettledContent
<1>16. Alone'
  <2>1. ASSUME NEW j \in Changing' PROVE settled'[j] = Unknown
    <3> SUFFICES ASSUME j # i PROVE settled'[j] = Unknown
      BY <1>14
    <3>1. PICK d \in Clients : j \in Ids /\ Changes(d, j)'
      BY <2>1 DEF Changing
    <3>2. j \in Changing
      BY <1>8, <1>9, <3>1 DEF Changing
    <3> QED BY <1>14, <3>1, <3>2 DEF IInv, Alone
  <2>2. ASSUME NEW e \in Clients, NEW d \in Clients, NEW j \in Ids,
               Changes(e, j)', Changes(d, j)', ~client'[e].raced
        PROVE  e = d
    <3>1. CASE e = c /\ d # c
      <4>1. j = i /\ Changes(d, i)
        BY <1>8, <1>9, <2>2, <3>1
      <4>2. i \in Changing
        BY <4>1 DEF Changing
      <4> QED BY <1>3, <1>5, <2>2, <3>1, <4>2
    <3>2. CASE e # c /\ d = c
      <4>1. j = i /\ Changes(e, i)
        BY <1>8, <1>9, <2>2, <3>2
      <4> QED BY <1>6, <2>2, <3>2, <4>1 DEF Changes
    <3>3. CASE e # c /\ d # c
      <4>1. Changes(e, j) /\ Changes(d, j) /\ ~client[e].raced
        BY <1>6, <1>8, <2>2, <3>3 DEF Kept
      <4> QED BY <4>1 DEF IInv, Alone
    <3> QED BY <3>1, <3>2, <3>3
  <2> QED BY <2>1, <2>2 DEF Alone
<1>17. EmptyFiles'
  <2> SUFFICES ASSUME NEW j \in Ids, files[SavedAt(j)] = Empty, j \notin torn
               PROVE  \E d \in Clients : WritesTo(d, j)'
    BY <1>1, <1>11 DEF EmptyFiles
  <2>1. PICK d \in Clients : WritesTo(d, j)
    BY DEF IInv, EmptyFiles
  <2>2. d # c
    BY <1>10, <2>1 DEF WritesTo
  <2>3. WritesTo(d, j)'
    BY <1>6, <1>8, <2>1, <2>2 DEF WritesTo, Kept
  <2> QED BY <2>3
<1>18. ASSUME NEW d \in Clients, d # c PROVE Sound(d)'
  <2>1. Sound(d) /\ Kept(d)
    BY <1>6, <1>18 DEF IInv
  <2>2. InCall(d)' /\ Answers(d)'
    BY <2>1, KeptAnswers
  <2>3. OpenFiles(d)'
    BY <1>1, <1>6, <1>8, <1>11, <1>18, <2>1 DEF Sound, OpenFiles, Kept
  <2>4. Relies(d)'
    <3>1. client[d].op = "list" /\ Busy(d) => client'[d].raced
      BY <1>6, <1>18
    <3>2. At(d, "items") => client'[d].raced
      BY <3>1, CallFacts DEF At
    <3>3. At(d, "read") /\ ~client'[d].raced => client[d].id \in Ids /\ client[d].id # i
      BY <1>6, <1>18, CallFacts DEF At
    <3> QED BY <1>1, <1>6, <1>8, <1>11, <1>14, <1>18, <2>1, <3>1, <3>2, <3>3 DEF Sound, Relies, Kept
  <2>5. Sees(d)'
    BY <1>6, <1>8, <1>11, <1>18, <2>1 DEF Sound, Sees, Kept
  <2> QED BY <2>2, <2>3, <2>4, <2>5 DEF Sound
<1>19. Sound(c)'
  <2>1. InCall(c)'
    BY <1>3, <1>5, <1>9, StepFacts DEF InCall
  <2>2. OpenFiles(c)' /\ Relies(c)' /\ Sees(c)' /\ Answers(c)'
    BY <1>3, <1>5, <1>9 DEF OpenFiles, Relies, Sees, Answers, Answered
  <2> QED BY <2>1, <2>2 DEF Sound
<1> QED BY <1>13, <1>15, <1>16, <1>17, <1>18, <1>19 DEF IInv

LEMMA BeginStep ==
  ASSUME IInv, NEW c \in Clients, BeginCall(c)
  PROVE  IInv'
<1>1. ASSUME NEW i \in Ids, NEW x \in Contents, Begin(c, "save", i, x, "validate") PROVE IInv'
  BY <1>1, BeginChanging
<1>2. ASSUME NEW i \in Ids, Begin(c, "delete", i, Absent, "stat") PROVE IInv'
  BY <1>2, BeginChanging
<1>3. ASSUME \/ \E i \in Ids : Begin(c, "load", i, Absent, "read")
             \/ Begin(c, "list", Unknown, Absent, "readdir")
      PROVE  IInv'
  BY <1>3, BeginReading
<1> QED BY <1>1, <1>2, <1>3 DEF BeginCall

-----------------------------------------------------------------------------
\* Calls that touch the disk

\* The other clients' calls when nothing about them changes.
LEMMA OthersKept ==
  ASSUME IInv, NEW c \in Clients, \A d \in Clients \ {c} : client'[d] = client[d],
         Entries' = Entries
  PROVE  \A d \in Clients \ {c} :
           /\ Kept(d) /\ client'[d].linked = client[d].linked
           /\ At(d, "readdir") => /\ client'[d].present \subseteq Entries'
                                  /\ Entries' \subseteq client'[d].ever
BY DEF Kept, IInv, Sound, Sees

\* The other clients' calls when the entries become more, and listings hear of it.
LEMMA OthersSeeMore ==
  ASSUME IInv, NEW c \in Clients, NEW i, NEW clients, client' = Appears(clients, i),
         client' \in [Clients -> Records],
         \A d \in Clients \ {c} : clients[d] = client[d],
         Entries' = Entries \cup {i}
  PROVE  \A d \in Clients \ {c} :
           /\ Kept(d) /\ client'[d].linked = client[d].linked
           /\ At(d, "readdir") => /\ client'[d].present \subseteq Entries'
                                  /\ Entries' \subseteq client'[d].ever
<1> SUFFICES ASSUME NEW d \in Clients, d # c
             PROVE  /\ Kept(d) /\ client'[d].linked = client[d].linked
                    /\ At(d, "readdir") => /\ client'[d].present \subseteq Entries'
                                           /\ Entries' \subseteq client'[d].ever
  OBVIOUS
<1>1. client[d] \in Records /\ clients[d] = client[d] /\ Sees(d)
  BY CallFacts DEF IInv, Sound
<1>2. client'[d] = IF Busy(d) /\ client[d].op = "list"
                   THEN [client[d] EXCEPT !.ever = @ \cup {i}] ELSE client[d]
  BY <1>1 DEF Appears
<1>3. CASE Busy(d) /\ client[d].op = "list"
  <2>1. client'[d] = [client[d] EXCEPT !.ever = client[d].ever \cup {i}]
    BY <1>2, <1>3
  <2>2. Kept(d) /\ client'[d].linked = client[d].linked /\ client'[d].present = client[d].present
        /\ client'[d].ever = client[d].ever \cup {i}
    BY <1>1, <2>1 DEF Kept, Records
  <2> QED BY <1>1, <2>2 DEF Sees
<1>4. CASE ~(Busy(d) /\ client[d].op = "list")
  <2>1. client'[d] = client[d]
    BY <1>2, <1>4
  <2>2. ~At(d, "readdir")
    BY <1>4, CallFacts DEF At
  <2> QED BY <2>1, <2>2 DEF Kept
<1> QED BY <1>3, <1>4

\* The clients when listings have heard of a new entry.
LEMMA AppearsFacts ==
  ASSUME NEW clients \in [Clients -> Records], NEW c \in Clients, NEW i \in Ids,
         client[c].op # "list"
  PROVE  Appears(clients, i) \in [Clients -> Records] /\ Appears(clients, i)[c] = clients[c]
<1>1. ASSUME NEW d \in Clients
      PROVE  (IF Busy(d) /\ client[d].op = "list"
              THEN [clients[d] EXCEPT !.ever = @ \cup {i}] ELSE clients[d]) \in Records
  <2>1. clients[d] \in Records
    OBVIOUS
  <2>2. [clients[d] EXCEPT !.ever = clients[d].ever \cup {i}] \in Records
    BY <2>1 DEF Records
  <2> QED BY <2>1, <2>2
<1>2. Appears(clients, i) \in [Clients -> Records]
  BY <1>1 DEF Appears
<1>3. Appears(clients, i)[c] = clients[c]
  BY DEF Appears
<1> QED BY <1>2, <1>3

LEMMA MkdirAllStep ==
  ASSUME IInv, NEW c \in Clients, MkdirAll(c)
  PROVE  IInv'
<1>1. PICK i : i = client[c].id
  OBVIOUS
<1>2. /\ At(c, "mkdir") /\ client[c].op = "save" /\ i \in Ids /\ Changes(c, i)
      /\ storedAs' = storedAs /\ files' = files /\ settled' = settled /\ torn' = torn
      /\ client[c] \in Records /\ ~client[c].linked
  BY <1>1, CallFacts DEF MkdirAll, At, history
<1>3. CASE storedAs = "file"
  <2>1. client' = Stepped(c, "create") /\ UNCHANGED <<storedAs, disk, history>>
    BY <1>2, <1>3 DEF MkdirAll, Stepped, disk, history
  <2> QED BY <1>2, <2>1, GoesOn
<1>4. CASE storedAs = "dir"
  <2>1. dirs' = dirs \cup {i} /\ client' = Appears(Stepped(c, "create"), i)
    BY <1>1, <1>4 DEF MkdirAll, Stepped
  <2>2. /\ Stepped(c, "create") \in [Clients -> Records]
        /\ \A d \in Clients \ {c} : Stepped(c, "create")[d] = client[d]
    BY SteppedFacts, TypeFacts DEF IInv
  <2>3. /\ client' \in [Clients -> Records] /\ client'[c] = Stepped(c, "create")[c]
    BY <1>2, <2>1, <2>2, AppearsFacts
  <2>4. /\ client'[c].op = "save" /\ client'[c].id = i /\ client'[c].step = "create"
        /\ client'[c].content = client[c].content
        /\ ~client'[c].linked /\ client'[c].raced = client[c].raced
    BY <1>1, <1>2, <2>3, SteppedFacts, TypeFacts DEF IInv
  <2>5. Entries' = Entries \cup {i}
    BY <1>2, <1>4, <2>1 DEF Entries
  <2>6. \A d \in Clients \ {c} :
           /\ Kept(d) /\ client'[d].linked = client[d].linked
           /\ At(d, "readdir") => /\ client'[d].present \subseteq Entries'
                                  /\ Entries' \subseteq client'[d].ever
    BY <2>1, <2>2, <2>3, <2>5, OthersSeeMore
  <2>7. TypeOK' /\ OnePathInUse'
    BY <1>2, <2>1, <2>3 DEF IInv, TypeOK, Records, OnePathInUse
  <2>8. Busy(c)' /\ (\A x : At(c, x)' <=> x = "create") /\ (\A j : Changes(c, j)' <=> j = i)
    BY <2>4 DEF Busy, At, Changes
  <2>9. InCall(c)' /\ OpenFiles(c)' /\ Answers(c)'
    <3>1. client[c].content \in Contents
      BY <1>2 DEF IInv, Sound, InCall
    <3> QED BY <1>2, <2>4, <2>8, <3>1, StepFacts DEF InCall, OpenFiles, Answers, Answered
  <2>10. settled[i] = Unknown
    BY <1>2 DEF IInv, Alone, Changing
  <2>11. \A j : SavedAt(j)' = SavedAt(j)
    BY <1>2 DEF SavedAt
  <2>12. files'[SavedAt(i)] = Empty => i \in torn' \/ \E d \in Clients : WritesTo(d, i)'
    <3> SUFFICES ASSUME files[SavedAt(i)] = Empty, i \notin torn
                 PROVE  \E d \in Clients : WritesTo(d, i)'
      BY <1>2
    <3>1. PICK d \in Clients : WritesTo(d, i)
      BY <1>2 DEF IInv, EmptyFiles
    <3>2. d # c
      BY <1>2, <3>1 DEF WritesTo
    <3>3. WritesTo(d, i)'
      BY <2>6, <3>1, <3>2, KeptStays DEF WritesTo, Kept
    <3> QED BY <3>3
  <2>13. ChangesItem(c, i)
    BY <1>2, <2>4, <2>6, <2>7, <2>8, <2>9, <2>10, <2>12 DEF ChangesItem
  <2> QED BY <1>2, <2>13, ChangeStep
<1> QED BY <1>3, <1>4 DEF IInv, TypeOK

\* Only the file of the item is another one.
LEMMA FileWritten ==
  ASSUME TypeOK, OnePathInUse, NEW i \in Ids, NEW x \in Contents \cup {Absent, Empty},
         files' = [files EXCEPT ![SavedAt(i)] = x], storedAs' = storedAs
  PROVE  /\ files' \in [Paths -> Contents \cup {Absent, Empty}] /\ OnePathInUse'
         /\ files'[SavedAt(i)] = x
         /\ \A j \in Ids \ {i} : \A role \in {"file", "summary"} :
              files'[<<j, role>>] = files[<<j, role>>]
         /\ \A j : SavedAt(j)' = SavedAt(j)
<1>1. files \in [Paths -> Contents \cup {Absent, Empty}] /\ SavedAt(i) \in Paths
  BY PathFacts DEF TypeOK
<1>2. \A j \in Ids : <<j, "file">> \in Paths /\ <<j, "summary">> \in Paths /\ <<j, "listing">> \in Paths
  BY PathFacts
<1>3. \A path \in Paths : files'[path] = IF path = SavedAt(i) THEN x ELSE files[path]
  BY <1>1
<1>4. files' \in [Paths -> Contents \cup {Absent, Empty}] /\ files'[SavedAt(i)] = x
  BY <1>1, <1>3
<1>5. \A j \in Ids : /\ files'[<<j, "listing">>] = files[<<j, "listing">>]
                     /\ storedAs = "file" => files'[<<j, "summary">>] = files[<<j, "summary">>]
                     /\ storedAs = "dir" => files'[<<j, "file">>] = files[<<j, "file">>]
  BY <1>2, <1>3 DEF SavedAt
<1>6. OnePathInUse'
  BY <1>5 DEF OnePathInUse
<1>7. \A j \in Ids \ {i} : \A role \in {"file", "summary"} : files'[<<j, role>>] = files[<<j, role>>]
  <2> SUFFICES ASSUME NEW j \in Ids \ {i}, NEW role \in {"file", "summary"}
               PROVE  files'[<<j, role>>] = files[<<j, role>>]
    OBVIOUS
  <2>1. <<j, role>> \in Paths /\ <<j, role>> # SavedAt(i)
    BY <1>2 DEF SavedAt
  <2> QED BY <1>3, <2>1
<1>8. \A j : SavedAt(j)' = SavedAt(j)
  BY DEF SavedAt
<1> QED BY <1>4, <1>6, <1>7, <1>8

Opened(c) == [client EXCEPT ![c].step = "write", ![c].linked = TRUE]

LEMMA OpenedFacts ==
  ASSUME client \in [Clients -> Records], NEW c \in Clients
  PROVE  /\ Opened(c) \in [Clients -> Records]
         /\ \A d \in Clients \ {c} : Opened(c)[d] = client[d]
         /\ LET r == Opened(c)[c] IN
            /\ r.op = client[c].op /\ r.id = client[c].id /\ r.content = client[c].content
            /\ r.step = "write" /\ r.linked /\ r.raced = client[c].raced
<1> DEFINE new == [client[c] EXCEPT !.step = "write", !.linked = TRUE]
<1>1. client[c] \in Records
  OBVIOUS
<1>2. Opened(c) = [client EXCEPT ![c] = new]
  BY DEF Opened
<1>3. /\ new \in Records
      /\ new.op = client[c].op /\ new.id = client[c].id /\ new.content = client[c].content
      /\ new.step = "write" /\ new.linked /\ new.raced = client[c].raced
  BY <1>1 DEF Records
<1> HIDE DEF new
<1> QED BY <1>2, <1>3

LEMMA CreateStep ==
  ASSUME IInv, NEW c \in Clients, Create(c)
  PROVE  IInv'
<1>1. PICK i : i = client[c].id
  OBVIOUS
<1>2. /\ At(c, "create") /\ client[c].op = "save" /\ i \in Ids /\ Changes(c, i)
      /\ storedAs' = storedAs /\ dirs' = dirs /\ settled' = settled /\ torn' = torn
      /\ client[c] \in Records /\ ~client[c].linked
  BY <1>1, CallFacts DEF Create, At, history
<1>3. CASE client' = Returns(c, FALSE) /\ files' = files
  <2>1. UNCHANGED <<storedAs, disk, history>>
    BY <1>2, <1>3 DEF disk, history
  <2> QED BY <1>2, <1>3, <2>1, GivesUp
<1>4. CASE /\ files' = [files EXCEPT ![SavedAt(i)] = Empty]
           /\ client' = IF storedAs = "file" THEN Appears(Opened(c), i) ELSE Opened(c)
  <2>1. /\ files' \in [Paths -> Contents \cup {Absent, Empty}] /\ OnePathInUse'
        /\ files'[SavedAt(i)] = Empty
        /\ \A j \in Ids \ {i} : \A role \in {"file", "summary"} :
             files'[<<j, role>>] = files[<<j, role>>]
        /\ \A j : SavedAt(j)' = SavedAt(j)
    BY <1>2, <1>4, FileWritten DEF IInv
  <2>2. /\ Opened(c) \in [Clients -> Records]
        /\ \A d \in Clients \ {c} : Opened(c)[d] = client[d]
    BY OpenedFacts, TypeFacts DEF IInv
  <2>3. client' \in [Clients -> Records] /\ client'[c] = Opened(c)[c]
    BY <1>2, <1>4, <2>2, AppearsFacts
  <2>4. /\ client'[c].op = "save" /\ client'[c].id = i /\ client'[c].step = "write"
        /\ client'[c].content = client[c].content
        /\ client'[c].linked /\ client'[c].raced = client[c].raced
    BY <1>1, <1>2, <2>3, OpenedFacts, TypeFacts DEF IInv
  <2>5. \A d \in Clients \ {c} :
           /\ Kept(d) /\ client'[d].linked = client[d].linked
           /\ At(d, "readdir") => /\ client'[d].present \subseteq Entries'
                                  /\ Entries' \subseteq client'[d].ever
    <3>1. CASE storedAs = "file"
      <4>1. \A j \in Ids : files'[<<j, "file">>] # Absent <=> j = i \/ files[<<j, "file">>] # Absent
        BY <2>1, <3>1 DEF SavedAt, Empty, Absent
      <4>2. Entries' = Entries \cup {i}
        BY <1>2, <3>1, <4>1 DEF Entries
      <4> QED BY <1>4, <2>2, <2>3, <3>1, <4>2, OthersSeeMore
    <3>2. CASE storedAs # "file"
      <4>1. Entries' = Entries
        BY <1>2, <3>2 DEF Entries
      <4> QED BY <1>4, <2>2, <3>2, <4>1, OthersKept
    <3> QED BY <3>1, <3>2
  <2>6. TypeOK'
    BY <1>2, <2>1, <2>3 DEF IInv, TypeOK, Records
  <2>7. Busy(c)' /\ (\A x : At(c, x)' <=> x = "write") /\ (\A j : Changes(c, j)' <=> j = i)
    BY <2>4 DEF Busy, At, Changes
  <2>8. InCall(c)' /\ Answers(c)'
    <3>1. client[c].content \in Contents
      BY <1>2 DEF IInv, Sound, InCall
    <3> QED BY <1>2, <2>4, <2>7, <3>1, StepFacts DEF InCall, Answers, Answered
  <2>9. OpenFiles(c)'
    <3>1. files'[SavedAt(i)] # Absent
      BY <2>1 DEF Empty, Absent
    <3> QED BY <2>1, <2>4, <3>1 DEF OpenFiles
  <2>10. settled[i] = Unknown
    BY <1>2 DEF IInv, Alone, Changing
  <2>11. WritesTo(c, i)' /\ files'[SavedAt(i)] # Absent
    BY <2>1, <2>4, <2>7 DEF WritesTo, Empty, Absent
  <2>12. ChangesItem(c, i)
    BY <1>2, <2>1, <2>4, <2>5, <2>6, <2>7, <2>8, <2>9, <2>10, <2>11 DEF ChangesItem
  <2> QED BY <1>2, <2>12, ChangeStep
<1> QED BY <1>1, <1>3, <1>4 DEF Create, Opened

LEMMA WriteStep ==
  ASSUME IInv, NEW c \in Clients, Write(c)
  PROVE  IInv'
<1>1. PICK i : i = client[c].id
  OBVIOUS
<1>2. PICK x : x = client[c].content
  OBVIOUS
<1>3. /\ At(c, "write") /\ client[c].op = "save" /\ i \in Ids /\ Changes(c, i)
      /\ storedAs' = storedAs /\ dirs' = dirs /\ client' = Returns(c, TRUE)
      /\ settled' = (IF client[c].raced THEN settled ELSE [settled EXCEPT ![i] = x])
      /\ client[c] \in Records
  BY <1>1, <1>2, CallFacts DEF Write, At, Settles
<1>4. x \in Contents /\ x # Absent /\ x # Empty /\ x # Unknown
  BY <1>2, <1>3, ValuesAssumption DEF IInv, Sound, InCall
<1>5. /\ client' \in [Clients -> Records] /\ \A d \in Clients \ {c} : client'[d] = client[d]
      /\ client'[c].op = "save" /\ client'[c].id = i /\ client'[c].step = "returned"
      /\ client'[c].content = x /\ ~client'[c].linked
  BY <1>1, <1>2, <1>3, ReturnsFacts, TypeFacts DEF IInv
<1>6. /\ settled' \in [Ids -> Contents \cup {Absent, Unknown}] /\ settled[i] = Unknown
      /\ \A j \in Ids \ {i} : settled'[j] = settled[j]
      /\ settled'[i] = (IF client[c].raced THEN Unknown ELSE x)
  <2>1. settled \in [Ids -> Contents \cup {Absent, Unknown}]
    BY DEF IInv, TypeOK
  <2>2. settled[i] = Unknown
    BY <1>3 DEF IInv, Alone, Changing
  <2> QED BY <1>3, <1>4, <2>1, <2>2
<1>7. ~Busy(c)' /\ (\A y : ~At(c, y)')
  BY <1>5 DEF Busy, At
<1>8. InCall(c)' /\ OpenFiles(c)' /\ Answers(c)'
  BY <1>4, <1>5, <1>7 DEF InCall, OpenFiles, Answers, Answered
<1>9. /\ client[c].linked => files[SavedAt(i)] # Absent
      /\ ~client[c].raced => client[c].linked
  BY <1>1, <1>3 DEF IInv, Sound, OpenFiles
<1>10. CASE client[c].linked
  <2>1. files' = [files EXCEPT ![SavedAt(i)] = x] /\ torn' = torn \ {i}
    BY <1>1, <1>2, <1>10 DEF Write
  <2>2. /\ files' \in [Paths -> Contents \cup {Absent, Empty}] /\ OnePathInUse'
        /\ files'[SavedAt(i)] = x
        /\ \A j \in Ids \ {i} : \A role \in {"file", "summary"} :
             files'[<<j, role>>] = files[<<j, role>>]
        /\ \A j : SavedAt(j)' = SavedAt(j)
    BY <1>3, <1>4, <2>1, FileWritten DEF IInv
  <2>3. Entries' = Entries
    <3>1. CASE storedAs = "file"
      <4>1. \A j \in Ids : files'[<<j, "file">>] # Absent <=> files[<<j, "file">>] # Absent
        BY <1>4, <1>9, <1>10, <2>2, <3>1 DEF SavedAt
      <4> QED BY <1>3, <3>1, <4>1 DEF Entries
    <3>2. CASE storedAs # "file"
      BY <1>3, <3>2 DEF Entries
    <3> QED BY <3>1, <3>2
  <2>4. \A d \in Clients \ {c} :
           /\ Kept(d) /\ client'[d].linked = client[d].linked
           /\ At(d, "readdir") => /\ client'[d].present \subseteq Entries'
                                  /\ Entries' \subseteq client'[d].ever
    BY <1>5, <2>3, OthersKept
  <2>5. TypeOK'
    BY <1>3, <1>5, <1>6, <2>1, <2>2 DEF IInv, TypeOK, Records
  <2>6. ChangesItem(c, i)
    BY <1>3, <1>4, <1>5, <1>6, <1>7, <1>8, <2>1, <2>2, <2>4, <2>5 DEF ChangesItem
  <2> QED BY <1>3, <2>6, ChangeStep
<1>11. CASE ~client[c].linked
  <2>1. files' = files /\ torn' = torn
    BY <1>11 DEF Write
  <2>2. Entries' = Entries /\ \A j : SavedAt(j)' = SavedAt(j)
    BY <1>3, <2>1 DEF Entries, SavedAt
  <2>3. \A d \in Clients \ {c} :
           /\ Kept(d) /\ client'[d].linked = client[d].linked
           /\ At(d, "readdir") => /\ client'[d].present \subseteq Entries'
                                  /\ Entries' \subseteq client'[d].ever
    BY <1>5, <2>2, OthersKept
  <2>4. TypeOK' /\ OnePathInUse'
    BY <1>3, <1>5, <1>6, <2>1 DEF IInv, TypeOK, Records, OnePathInUse
  <2>5. files'[SavedAt(i)] = Empty => i \in torn' \/ \E d \in Clients : WritesTo(d, i)'
    <3> SUFFICES ASSUME files[SavedAt(i)] = Empty, i \notin torn
                 PROVE  \E d \in Clients : WritesTo(d, i)'
      BY <2>1
    <3>1. PICK d \in Clients : WritesTo(d, i)
      BY <1>3 DEF IInv, EmptyFiles
    <3>2. d # c
      BY <1>11, <3>1 DEF WritesTo
    <3>3. WritesTo(d, i)'
      BY <2>3, <3>1, <3>2, KeptStays DEF WritesTo, Kept
    <3> QED BY <3>3
  <2>6. settled'[i] = Unknown
    BY <1>6, <1>9, <1>11
  <2>7. ChangesItem(c, i)
    BY <1>3, <1>5, <1>6, <1>7, <1>8, <2>1, <2>2, <2>3, <2>4, <2>5, <2>6 DEF ChangesItem
  <2> QED BY <1>3, <2>7, ChangeStep
<1> QED BY <1>10, <1>11

\* A step that leaves the files alone leaves the empty ones to those who write them.
LEMMA WritersStay ==
  ASSUME IInv, NEW c \in Clients, NEW i \in Ids, ~(At(c, "write") /\ client[c].linked),
         files' = files, storedAs' = storedAs, torn' = torn,
         \A d \in Clients \ {c} : client'[d] = client[d]
  PROVE  files'[SavedAt(i)] = Empty => i \in torn' \/ \E d \in Clients : WritesTo(d, i)'
<1> SUFFICES ASSUME files[SavedAt(i)] = Empty, i \notin torn
             PROVE  \E d \in Clients : WritesTo(d, i)'
  OBVIOUS
<1>1. PICK d \in Clients : WritesTo(d, i)
  BY DEF IInv, EmptyFiles
<1>2. d # c
  BY <1>1 DEF WritesTo
<1>3. WritesTo(d, i)'
  BY <1>1, <1>2 DEF WritesTo, At, Busy
<1> QED BY <1>3

LEMMA StatStep ==
  ASSUME IInv, NEW c \in Clients, Stat(c)
  PROVE  IInv'
<1>1. PICK i : i = client[c].id
  OBVIOUS
<1>2. /\ At(c, "stat") /\ client[c].op = "delete" /\ i \in Ids /\ Changes(c, i)
      /\ storedAs' = storedAs /\ files' = files /\ dirs' = dirs /\ torn' = torn
      /\ client[c] \in Records /\ ~client[c].linked
  BY <1>1, CallFacts DEF Stat, At, disk
<1>3. CASE files[DeletedAt(i)] # Absent
  <2>1. client' = Stepped(c, "remove") /\ UNCHANGED <<storedAs, disk, history>>
    BY <1>1, <1>2, <1>3 DEF Stat, Stepped, disk, history
  <2> QED BY <1>1, <1>2, <1>3, <2>1, GoesOn
<1>4. CASE files[DeletedAt(i)] = Absent
  <2>1. /\ client' = Returns(c, TRUE)
        /\ settled' = (IF client[c].raced THEN settled ELSE [settled EXCEPT ![i] = Absent])
    BY <1>1, <1>4 DEF Stat, Settles
  <2>2. /\ client' \in [Clients -> Records] /\ \A d \in Clients \ {c} : client'[d] = client[d]
        /\ client'[c].op = "delete" /\ client'[c].id = i /\ client'[c].step = "returned"
        /\ ~client'[c].linked /\ client'[c].ok
    BY <1>1, <1>2, <2>1, ReturnsFacts, TypeFacts DEF IInv
  <2>3. /\ settled' \in [Ids -> Contents \cup {Absent, Unknown}]
        /\ \A j \in Ids \ {i} : settled'[j] = settled[j]
        /\ settled'[i] = (IF client[c].raced THEN Unknown ELSE Absent)
    <3>1. settled \in [Ids -> Contents \cup {Absent, Unknown}]
      BY DEF IInv, TypeOK
    <3>2. settled[i] = Unknown
      BY <1>2 DEF IInv, Alone, Changing
    <3> QED BY <1>2, <2>1, <3>1, <3>2
  <2>4. ~Busy(c)' /\ (\A y : ~At(c, y)')
    BY <2>2 DEF Busy, At
  <2>5. InCall(c)' /\ OpenFiles(c)' /\ Answers(c)'
    BY <2>2, <2>4 DEF InCall, OpenFiles, Answers, Answered
  <2>6. Entries' = Entries /\ \A j : SavedAt(j)' = SavedAt(j)
    BY <1>2 DEF Entries, SavedAt
  <2>7. \A d \in Clients \ {c} :
           /\ Kept(d) /\ client'[d].linked = client[d].linked
           /\ At(d, "readdir") => /\ client'[d].present \subseteq Entries'
                                  /\ Entries' \subseteq client'[d].ever
    BY <2>2, <2>6, OthersKept
  <2>8. TypeOK' /\ OnePathInUse'
    BY <1>2, <2>2, <2>3 DEF IInv, TypeOK, Records, OnePathInUse
  <2>9. files'[SavedAt(i)] = Empty => i \in torn' \/ \E d \in Clients : WritesTo(d, i)'
    BY <1>2, <2>2, WritersStay
  <2>10. settled'[i] # Unknown =>
           /\ ~client[c].raced
           /\ storedAs = "file" \/ settled'[i] # Absent => files'[SavedAt(i)] = settled'[i]
    BY <1>2, <1>4, <2>3, PathFacts DEF IInv
  <2>11. ChangesItem(c, i)
    BY <1>2, <2>2, <2>3, <2>4, <2>5, <2>6, <2>7, <2>8, <2>9, <2>10 DEF ChangesItem
  <2> QED BY <1>2, <2>11, ChangeStep
<1> QED BY <1>3, <1>4

\* What a removal does to the calls of the others: whoever is writing the file goes on writing
\* what nobody can find any more, and the item was not there all the time.
LEMMA RemovedFacts ==
  ASSUME NEW clients \in [Clients -> Records], NEW i \in Ids,
         NEW after, after = Vanishes(Unlinked(clients, i), i)
  PROVE  /\ after \in [Clients -> Records]
         /\ \A d \in Clients :
              /\ after[d].op = clients[d].op /\ after[d].id = clients[d].id
              /\ after[d].content = clients[d].content /\ after[d].step = clients[d].step
              /\ after[d].todo = clients[d].todo /\ after[d].items = clients[d].items
              /\ after[d].ever = clients[d].ever /\ after[d].raced = clients[d].raced
              /\ after[d].ok = clients[d].ok
              /\ after[d].linked <=> clients[d].linked /\ clients[d].id # i
              /\ after[d].present \subseteq clients[d].present
              /\ Busy(d) => after[d].present = clients[d].present \ {i}
<1> DEFINE un == Unlinked(clients, i)
           new == Vanishes(un, i)
<1>1. ASSUME NEW d \in Clients
      PROVE  /\ un[d] \in Records
             /\ un[d].op = clients[d].op /\ un[d].id = clients[d].id
             /\ un[d].content = clients[d].content /\ un[d].step = clients[d].step
             /\ un[d].todo = clients[d].todo /\ un[d].items = clients[d].items
             /\ un[d].ever = clients[d].ever /\ un[d].raced = clients[d].raced
             /\ un[d].ok = clients[d].ok /\ un[d].present = clients[d].present
             /\ un[d].linked <=> clients[d].linked /\ clients[d].id # i
  <2>1. PICK b \in BOOLEAN : b <=> clients[d].linked /\ clients[d].id # i
    OBVIOUS
  <2>2. clients[d] \in Records
    OBVIOUS
  <2>3. (clients[d].linked /\ clients[d].id # i) = b
    BY <2>1, <2>2 DEF Records
  <2>4. un[d] = [clients[d] EXCEPT !.linked = b]
    BY <2>3 DEF Unlinked
  <2> HIDE DEF un
  <2> QED BY <2>1, <2>2, <2>4 DEF Records
<1> HIDE DEF un
<1>2. ASSUME NEW d \in Clients
      PROVE  /\ new[d] \in Records
             /\ new[d].op = un[d].op /\ new[d].id = un[d].id
             /\ new[d].content = un[d].content /\ new[d].step = un[d].step
             /\ new[d].todo = un[d].todo /\ new[d].items = un[d].items
             /\ new[d].ever = un[d].ever /\ new[d].raced = un[d].raced
             /\ new[d].ok = un[d].ok /\ new[d].linked = un[d].linked
             /\ new[d].present = IF Busy(d) THEN un[d].present \ {i} ELSE un[d].present
  <2>1. un[d] \in Records
    BY <1>1
  <2>2. CASE Busy(d)
    <3>1. new[d] = [un[d] EXCEPT !.present = un[d].present \ {i}]
      BY <2>2 DEF Vanishes
    <3> HIDE DEF new
    <3> QED BY <2>1, <2>2, <3>1 DEF Records
  <2>3. CASE ~Busy(d)
    <3>1. new[d] = un[d]
      BY <2>3 DEF Vanishes
    <3> HIDE DEF new
    <3> QED BY <2>1, <2>3, <3>1
  <2> QED BY <2>2, <2>3
<1>3. new \in [Clients -> Records]
  <2>1. new = [d \in Clients |-> new[d]]
    BY DEF Vanishes
  <2> HIDE DEF new
  <2> QED BY <1>2, <2>1
<1> HIDE DEF new
<1>4. ASSUME NEW d \in Clients
      PROVE  /\ new[d].op = clients[d].op /\ new[d].id = clients[d].id
             /\ new[d].content = clients[d].content /\ new[d].step = clients[d].step
             /\ new[d].todo = clients[d].todo /\ new[d].items = clients[d].items
             /\ new[d].ever = clients[d].ever /\ new[d].raced = clients[d].raced
             /\ new[d].ok = clients[d].ok
             /\ new[d].linked <=> clients[d].linked /\ clients[d].id # i
             /\ new[d].present \subseteq clients[d].present
             /\ Busy(d) => new[d].present = clients[d].present \ {i}
  <2>1. /\ new[d].op = clients[d].op /\ new[d].id = clients[d].id
        /\ new[d].content = clients[d].content /\ new[d].step = clients[d].step
        /\ new[d].todo = clients[d].todo /\ new[d].items = clients[d].items
        /\ new[d].ever = clients[d].ever /\ new[d].raced = clients[d].raced
        /\ new[d].ok = clients[d].ok
    <3>1. /\ new[d].op = un[d].op /\ new[d].id = un[d].id
          /\ new[d].content = un[d].content /\ new[d].step = un[d].step
          /\ new[d].todo = un[d].todo /\ new[d].items = un[d].items
          /\ new[d].ever = un[d].ever /\ new[d].raced = un[d].raced
          /\ new[d].ok = un[d].ok
      BY <1>2
    <3>2. /\ un[d].op = clients[d].op /\ un[d].id = clients[d].id
          /\ un[d].content = clients[d].content /\ un[d].step = clients[d].step
          /\ un[d].todo = clients[d].todo /\ un[d].items = clients[d].items
          /\ un[d].ever = clients[d].ever /\ un[d].raced = clients[d].raced
          /\ un[d].ok = clients[d].ok
      BY <1>1
    <3> QED BY ONLY <3>1, <3>2
  <2>2. new[d].linked <=> clients[d].linked /\ clients[d].id # i
    <3>1. new[d].linked = un[d].linked
      BY <1>2
    <3>2. un[d].linked <=> clients[d].linked /\ clients[d].id # i
      BY <1>1
    <3> QED BY <3>1, <3>2
  <2>3. new[d].present = (IF Busy(d) THEN clients[d].present \ {i} ELSE clients[d].present)
    BY <1>1, <1>2
  <2> QED BY <2>1, <2>2, <2>3
<1>5. after = new
  BY DEF new, un
<1> QED BY <1>3, <1>4, <1>5

LEMMA RemoveStep ==
  ASSUME IInv, NEW c \in Clients, Remove(c)
  PROVE  IInv'
<1>1. PICK i : i = client[c].id
  OBVIOUS
<1>2. /\ At(c, "remove") /\ client[c].op = "delete" /\ i \in Ids /\ Changes(c, i)
      /\ storedAs' = storedAs /\ dirs' = dirs
      /\ client[c] \in Records /\ ~client[c].linked
  BY <1>1, CallFacts DEF Remove, At
<1>3. CASE files[DeletedAt(i)] = Absent
  <2>1. client' = Returns(c, FALSE) /\ UNCHANGED <<storedAs, disk, history>>
    BY <1>1, <1>2, <1>3 DEF Remove, disk
  <2> QED BY <1>1, <1>2, <1>3, <2>1, GivesUp
<1>4. CASE files[DeletedAt(i)] # Absent
  <2>1. storedAs = "file" /\ SavedAt(i) = DeletedAt(i)
    BY <1>2, <1>4, PathFacts DEF IInv, TypeOK, OnePathInUse, DeletedAt
  <2>2. /\ files' = [files EXCEPT ![SavedAt(i)] = Absent] /\ torn' = torn \ {i}
        /\ client' = Vanishes(Unlinked(Returns(c, TRUE), i), i)
        /\ settled' = (IF client[c].raced THEN settled ELSE [settled EXCEPT ![i] = Absent])
    BY <1>1, <1>4, <2>1 DEF Remove, Settles
  <2>3. PICK clients : clients = Returns(c, TRUE)
    OBVIOUS
  <2>4. /\ clients \in [Clients -> Records]
        /\ \A d \in Clients \ {c} : clients[d] = client[d]
        /\ clients[c].op = "delete" /\ clients[c].id = i /\ clients[c].step = "returned"
        /\ clients[c].ok /\ ~clients[c].linked
    BY <1>1, <1>2, <2>3, ReturnsFacts, TypeFacts DEF IInv
  <2>5. /\ client' \in [Clients -> Records]
        /\ \A d \in Clients :
              /\ client'[d].op = clients[d].op /\ client'[d].id = clients[d].id
              /\ client'[d].content = clients[d].content /\ client'[d].step = clients[d].step
              /\ client'[d].todo = clients[d].todo /\ client'[d].items = clients[d].items
              /\ client'[d].ever = clients[d].ever /\ client'[d].raced = clients[d].raced
              /\ client'[d].ok = clients[d].ok
              /\ client'[d].linked <=> clients[d].linked /\ clients[d].id # i
              /\ client'[d].present \subseteq clients[d].present
              /\ Busy(d) => client'[d].present = clients[d].present \ {i}
    <3>1. client' = Vanishes(Unlinked(clients, i), i)
      BY <2>2, <2>3
    <3> QED BY <1>2, <2>4, <3>1, RemovedFacts
  <2>6. /\ files' \in [Paths -> Contents \cup {Absent, Empty}] /\ OnePathInUse'
        /\ files'[SavedAt(i)] = Absent
        /\ \A j \in Ids \ {i} : \A role \in {"file", "summary"} :
             files'[<<j, role>>] = files[<<j, role>>]
        /\ \A j : SavedAt(j)' = SavedAt(j)
    BY <1>2, <2>2, FileWritten DEF IInv
  <2>7. Entries' = Entries \ {i}
    <3>1. \A j \in Ids : files'[<<j, "file">>] # Absent <=> j # i /\ files[<<j, "file">>] # Absent
      BY <2>1, <2>6 DEF SavedAt
    <3> QED BY <1>2, <2>1, <3>1 DEF Entries
  <2>8. ASSUME NEW d \in Clients, d # c
        PROVE  /\ Kept(d)
               /\ client'[d].linked # client[d].linked => client[d].id = i
               /\ client[d].id = i => ~client'[d].linked
               /\ At(d, "readdir") => /\ client'[d].present \subseteq Entries'
                                      /\ Entries' \subseteq client'[d].ever
    <3>1. clients[d] = client[d] /\ client[d] \in Records
      BY <2>4, <2>8
    <3>2. Kept(d)
      BY <2>5, <3>1 DEF Kept
    <3>3. client'[d].linked # client[d].linked => client[d].id = i
      <4>1. client[d].linked \in BOOLEAN /\ client'[d].linked \in BOOLEAN
        BY <2>5, <3>1 DEF Records
      <4> QED BY <2>5, <3>1, <4>1
    <3>4. client[d].id = i => ~client'[d].linked
      BY <2>5, <3>1
    <3>5. At(d, "readdir") => /\ client'[d].present \subseteq Entries'
                              /\ Entries' \subseteq client'[d].ever
      <4> SUFFICES ASSUME At(d, "readdir")
                   PROVE  client'[d].present \subseteq Entries' /\ Entries' \subseteq client'[d].ever
        OBVIOUS
      <4>1. Busy(d) /\ client[d].present \subseteq Entries /\ Entries \subseteq client[d].ever
        BY DEF At, IInv, Sound, Sees
      <4> QED BY <2>5, <2>7, <3>1, <4>1
    <3> QED BY <3>2, <3>3, <3>4, <3>5
  <2>9. /\ settled' \in [Ids -> Contents \cup {Absent, Unknown}]
        /\ \A j \in Ids \ {i} : settled'[j] = settled[j]
        /\ settled'[i] = (IF client[c].raced THEN Unknown ELSE Absent)
    <3>1. settled \in [Ids -> Contents \cup {Absent, Unknown}]
      BY DEF IInv, TypeOK
    <3>2. settled[i] = Unknown
      BY <1>2 DEF IInv, Alone, Changing
    <3> QED BY <1>2, <2>2, <3>1, <3>2
  <2>10. ~Busy(c)' /\ (\A y : ~At(c, y)') /\ client'[c].op = "delete" /\ ~client'[c].linked
         /\ client'[c].ok
    BY <2>4, <2>5 DEF Busy, At
  <2>11. InCall(c)' /\ OpenFiles(c)' /\ Answers(c)'
    BY <2>10 DEF InCall, OpenFiles, Answers, Answered
  <2>12. TypeOK'
    BY <1>2, <2>2, <2>5, <2>6, <2>9 DEF IInv, TypeOK, Records
  <2>13. files'[SavedAt(i)] # Empty
    BY <2>6 DEF Empty, Absent
  <2>14. settled'[i] # Unknown => ~client[c].raced /\ files'[SavedAt(i)] = settled'[i]
    BY <2>6, <2>9
  <2>15. ChangesItem(c, i)
    BY <1>2, <2>2, <2>6, <2>8, <2>9, <2>10, <2>11, <2>12, <2>13, <2>14 DEF ChangesItem
  <2> QED BY <1>2, <2>15, ChangeStep
<1> QED BY <1>3, <1>4

\* A save that dies between the creation of its file and the write leaves it empty.
LEMMA CrashStep ==
  ASSUME IInv, NEW c \in Clients, Crash(c)
  PROVE  IInv'
<1>1. /\ Busy(c) /\ client' = [client EXCEPT ![c] = Idle]
      /\ storedAs' = storedAs /\ files' = files /\ dirs' = dirs /\ settled' = settled
  BY DEF Crash, disk
<1>2. /\ client' \in [Clients -> Records] /\ (\A d \in Clients \ {c} : client'[d] = client[d])
      /\ client'[c] = Idle
  BY <1>1, IdleFacts, TypeFacts DEF IInv
<1>3. Answers(c)'
  BY <1>2, IdleFacts DEF Answers, Answered
<1>4. CASE ~(At(c, "write") /\ client[c].linked)
  <2>1. torn' = torn
    BY <1>1, <1>4 DEF Crash, At
  <2>2. UNCHANGED <<storedAs, disk, history>>
    BY <1>1, <2>1 DEF disk, history
  <2> QED BY <1>2, <1>3, <1>4, <2>2, IdleFacts, LocalReturn
<1>5. CASE At(c, "write") /\ client[c].linked
  <2>1. PICK i : i = client[c].id
    OBVIOUS
  <2>2. client[c].op = "save" /\ i \in Ids /\ Changes(c, i)
    BY <1>5, <2>1, CallFacts DEF At
  <2>3. torn' = torn \cup {i}
    BY <1>5, <2>1, <2>2 DEF Crash, At
  <2>4. Entries' = Entries /\ \A j : SavedAt(j)' = SavedAt(j)
    BY <1>1 DEF Entries, SavedAt
  <2>5. \A d \in Clients \ {c} :
           /\ Kept(d) /\ client'[d].linked = client[d].linked
           /\ At(d, "readdir") => /\ client'[d].present \subseteq Entries'
                                  /\ Entries' \subseteq client'[d].ever
    BY <1>2, <2>4, OthersKept
  <2>6. TypeOK' /\ OnePathInUse'
    BY <1>1, <1>2, <2>2, <2>3 DEF IInv, TypeOK, Records, OnePathInUse
  <2>7. ~Busy(c)' /\ (\A y : ~At(c, y)')
    BY <1>2, IdleFacts DEF Busy, At
  <2>8. InCall(c)' /\ OpenFiles(c)'
    BY <1>2, <2>7, IdleFacts DEF InCall, OpenFiles
  <2>9. settled[i] = Unknown
    BY <2>2 DEF IInv, Alone, Changing
  <2>10. ChangesItem(c, i)
    BY <1>1, <1>2, <1>3, <2>2, <2>3, <2>4, <2>5, <2>6, <2>7, <2>8, <2>9, IdleFacts DEF ChangesItem
  <2> QED BY <2>2, <2>10, ChangeStep
<1> QED BY <1>4, <1>5

\* A save whose writing fails leaves something at its path, and the item torn.
LEMMA WriteFailsStep ==
  ASSUME IInv, NEW c \in Clients, WriteFails(c)
  PROVE  IInv'
<1>1. PICK i : i = client[c].id
  OBVIOUS
<1>2. /\ At(c, "write") /\ client[c].op = "save" /\ i \in Ids /\ Changes(c, i)
      /\ storedAs' = storedAs /\ dirs' = dirs /\ client' = Returns(c, FALSE)
      /\ settled' = settled /\ settled[i] = Unknown
  <2>1. At(c, "write") /\ client[c].op = "save" /\ i \in Ids /\ Changes(c, i)
    BY <1>1, CallFacts DEF WriteFails, At
  <2> QED BY <2>1 DEF WriteFails, IInv, Alone, Changing
<1>3. /\ client' \in [Clients -> Records] /\ \A d \in Clients \ {c} : client'[d] = client[d]
      /\ client'[c].op = "save" /\ client'[c].id = i /\ client'[c].step = "returned"
      /\ client'[c].content = client[c].content /\ ~client'[c].linked
  BY <1>1, <1>2, ReturnsFacts, TypeFacts DEF IInv
<1>4. ~Busy(c)' /\ (\A y : ~At(c, y)')
  BY <1>3 DEF Busy, At
<1>5. client[c].content \in Contents
  BY <1>2 DEF IInv, Sound, InCall
<1>6. InCall(c)' /\ OpenFiles(c)' /\ Answers(c)'
  BY <1>3, <1>4, <1>5 DEF InCall, OpenFiles, Answers, Answered
<1>7. CASE client[c].linked
  <2>1. torn' = torn \cup {i}
    BY <1>1, <1>7 DEF WriteFails
  <2>2. PICK left \in LeftBy(c) : files' = [files EXCEPT ![SavedAt(i)] = left]
    BY <1>1, <1>7 DEF WriteFails
  <2>3. files[SavedAt(i)] # Absent /\ SavedAt(i) \in Paths
    BY <1>1, <1>2, <1>7, PathFacts DEF IInv, Sound, OpenFiles
  <2>4. left \in Contents \cup {Empty} /\ left # Absent
    <3>1. files[SavedAt(i)] \in Contents \cup {Empty}
      BY <2>3 DEF IInv, TypeOK
    <3> QED BY <1>1, <1>5, <2>2, <3>1, ValuesAssumption DEF LeftBy, Absent, Empty
  <2>5. /\ files' \in [Paths -> Contents \cup {Absent, Empty}] /\ OnePathInUse'
        /\ files'[SavedAt(i)] = left
        /\ \A j \in Ids \ {i} : \A role \in {"file", "summary"} :
             files'[<<j, role>>] = files[<<j, role>>]
        /\ \A j : SavedAt(j)' = SavedAt(j)
    BY <1>2, <2>2, <2>4, FileWritten DEF IInv
  <2>6. Entries' = Entries
    <3>1. CASE storedAs = "file"
      <4>1. \A j \in Ids : files'[<<j, "file">>] # Absent <=> files[<<j, "file">>] # Absent
        BY <2>3, <2>4, <2>5, <3>1 DEF SavedAt
      <4> QED BY <1>2, <3>1, <4>1 DEF Entries
    <3>2. CASE storedAs # "file"
      BY <1>2, <3>2 DEF Entries
    <3> QED BY <3>1, <3>2
  <2>7. \A d \in Clients \ {c} :
           /\ Kept(d) /\ client'[d].linked = client[d].linked
           /\ At(d, "readdir") => /\ client'[d].present \subseteq Entries'
                                  /\ Entries' \subseteq client'[d].ever
    BY <1>3, <2>6, OthersKept
  <2>8. TypeOK'
    BY <1>2, <1>3, <2>1, <2>5 DEF IInv, TypeOK, Records
  <2>9. ChangesItem(c, i)
    BY <1>2, <1>3, <1>4, <1>6, <2>1, <2>3, <2>4, <2>5, <2>7, <2>8 DEF ChangesItem
  <2> QED BY <1>2, <2>9, ChangeStep
<1>8. CASE ~client[c].linked
  <2>1. files' = files /\ torn' = torn
    BY <1>8 DEF WriteFails
  <2>2. UNCHANGED <<storedAs, disk, history>>
    BY <1>2, <2>1 DEF disk, history
  <2> QED BY <1>2, <1>3, <1>5, <1>6, <1>8, <2>2, LocalReturn
<1> QED BY <1>7, <1>8

-----------------------------------------------------------------------------
LEMMA InitIInv == Init => IInv
<1> SUFFICES ASSUME Init PROVE IInv
  OBVIOUS
<1>1. /\ storedAs \in {"file", "dir"} /\ files = [p \in Paths |-> Absent] /\ dirs = {}
      /\ client = [c \in Clients |-> Idle] /\ settled = [id \in Ids |-> Absent] /\ torn = {}
  BY DEF Init
<1>2. client \in [Clients -> Records] /\ \A c \in Clients : client[c] = Idle
  BY <1>1, IdleFacts
<1>3. TypeOK
  BY <1>1, <1>2 DEF TypeOK, Records
<1>4. \A c \in Clients : ~Busy(c) /\ (\A x : ~At(c, x)) /\ (\A j : ~Changes(c, j))
  BY <1>2, IdleFacts DEF Busy, At, Changes
<1>5. \A j \in Ids : /\ files[<<j, "file">>] = Absent /\ files[<<j, "summary">>] = Absent
                     /\ files[<<j, "listing">>] = Absent /\ files[SavedAt(j)] = Absent
  BY <1>1, <1>3, PathFacts
<1>6. OnePathInUse
  BY <1>5 DEF OnePathInUse
<1>7. Alone
  BY <1>4 DEF Alone, Changing
<1>8. SettledContent
  BY <1>1, <1>5 DEF SettledContent
<1>9. EmptyFiles
  BY <1>5 DEF EmptyFiles, Absent, Empty
<1>10. ASSUME NEW c \in Clients PROVE Sound(c)
  <2>1. InCall(c) /\ OpenFiles(c) /\ Relies(c)
    BY <1>2, <1>4, IdleFacts DEF InCall, OpenFiles, Relies
  <2>2. Sees(c) /\ Answers(c)
    BY <1>2, <1>4, IdleFacts DEF Sees, Answers, Answered
  <2> QED BY <2>1, <2>2 DEF Sound
<1> QED BY <1>3, <1>6, <1>7, <1>8, <1>9, <1>10 DEF IInv

LEMMA StutterStep ==
  ASSUME IInv, UNCHANGED vars
  PROVE  IInv'
<1>1. /\ storedAs' = storedAs /\ files' = files /\ dirs' = dirs /\ client' = client
      /\ settled' = settled /\ torn' = torn
  BY DEF vars, disk, history
<1>2. TypeOK' /\ OnePathInUse' /\ SettledContent'
  BY <1>1 DEF IInv, TypeOK, OnePathInUse, SettledContent, SavedAt
<1>3. Alone' /\ EmptyFiles'
  BY <1>1 DEF IInv, Alone, Changing, Changes, Busy, EmptyFiles, WritesTo, At, SavedAt
<1>4. ASSUME NEW c \in Clients PROVE Sound(c)'
  <2>1. InCall(c)' /\ OpenFiles(c)'
    BY <1>1 DEF IInv, Sound, InCall, OpenFiles, At, Busy, SavedAt
  <2>2. Relies(c)'
    BY <1>1 DEF IInv, Sound, Relies, At, Busy, DeletedAt, Changing, Changes, Entries
  <2>3. Sees(c)' /\ Answers(c)'
    BY <1>1 DEF IInv, Sound, Sees, Answers, Answered, At, Busy, Entries
  <2> QED BY <2>1, <2>2, <2>3 DEF Sound
<1> QED BY <1>2, <1>3, <1>4 DEF IInv

LEMMA IInvIsInductive == IInv /\ [Next]_vars => IInv'
<1> SUFFICES ASSUME IInv, [Next]_vars PROVE IInv'
  OBVIOUS
<1>1. CASE UNCHANGED vars
  BY <1>1, StutterStep
<1>2. ASSUME NEW c \in Clients, BeginCall(c) PROVE IInv'
  BY <1>2, BeginStep
<1>3. ASSUME NEW c \in Clients, End(c) PROVE IInv'
  BY <1>3, EndStep
<1>4. ASSUME NEW c \in Clients, Crash(c) PROVE IInv'
  BY <1>4, CrashStep
<1>5. ASSUME NEW c \in Clients, Validate(c) \/ MkdirAll(c) \/ Create(c) \/ Write(c) \/ WriteFails(c)
       PROVE  IInv'
  BY <1>5, ValidateStep, MkdirAllStep, CreateStep, WriteStep, WriteFailsStep
<1>6. ASSUME NEW c \in Clients, Stat(c) \/ Remove(c) PROVE IInv'
  BY <1>6, StatStep, RemoveStep
<1>7. ASSUME NEW c \in Clients, Read(c) \/ Readdir(c) \/ LoadEntry(c) \/ Listed(c) PROVE IInv'
  BY <1>7, ReadStep, ReaddirStep, LoadEntryStep, ListedStep
<1> QED BY <1>1, <1>2, <1>3, <1>4, <1>5, <1>6, <1>7 DEF Next, Step

-----------------------------------------------------------------------------
\* saveProjectItem, deleteProjectItem, loadProjectItem and loadProjectItems, called by any
\* number of clients for any items, keep their state well typed and this module's invariant.
THEOREM StoreInvariance == Spec => [](TypeOK /\ IInv)
<1>1. IInv => TypeOK
  BY DEF IInv
<1> QED BY <1>1, InitIInv, IInvIsInductive, PTL DEF Spec

\* What saveJSONFile or os.Remove leaves, with no other call for the item meanwhile, is what
\* everybody finds, whatever happens to other items and whoever holds a removed file open.
THEOREM SettledContentIsFound == Spec => []SettledContent
BY StoreInvariance, PTL DEF IInv

\* loadProjectItems returns no error only with every item that was there all the time, and
\* with none that never was.
THEOREM ListsAreComplete == Spec => []ListIsComplete
<1>1. IInv => ListIsComplete
  BY DEF IInv, Sound, Answers, ListIsComplete
<1> QED BY <1>1, StoreInvariance, PTL

\* deleteProjectItem, loadProjectItems, and loadProjectItem of what has been saved, fail in
\* races, and over the remains of a save that died or failed after os.Create, only.
THEOREM OnlyRacesFail == Spec => []FailuresAreRaces
<1>1. IInv => FailuresAreRaces
  BY DEF IInv, Sound, Answers, FailuresAreRaces
<1> QED BY <1>1, StoreInvariance, PTL

-----------------------------------------------------------------------------
(* Rules that are evaluated in order. *)

\* The least of a set of numbers.
LEMMA LeastExists ==
  ASSUME NEW S, S \subseteq Nat, S # {}
  PROVE  \E m \in S : \A n \in S : m <= n
<1>1. PICK m \in S : \A n \in S : ~(<<n, m>> \in OpToRel(<, Nat))
  BY NatLessThanWellFounded, WFMin
<1>2. \A n \in S : m <= n
  <2> SUFFICES ASSUME NEW n \in S PROVE m <= n
    OBVIOUS
  <2>1. n \in Nat /\ m \in Nat
    OBVIOUS
  <2>2. ~(n < m)
    BY <1>1, <2>1 DEF OpToRel
  <2> QED BY <2>1, <2>2
<1> QED BY <1>2

\* Rules that are evaluated in order come to the first outcome that is not nil, if there is one.
LEMMA FirstStops ==
  ASSUME NEW outcomes, DOMAIN outcomes \subseteq Nat
  PROVE  /\ First(outcomes) = OK <=> \A i \in DOMAIN outcomes : outcomes[i] = OK
         /\ First(outcomes) # OK =>
              \E i \in DOMAIN outcomes :
                /\ First(outcomes) = outcomes[i] /\ outcomes[i] # OK
                /\ \A j \in DOMAIN outcomes : j < i => outcomes[j] = OK
<1> DEFINE stops == {i \in DOMAIN outcomes : outcomes[i] # OK}
<1>1. CASE stops = {}
  BY <1>1 DEF First
<1>2. CASE stops # {}
  <2>1. PICK i \in stops : \A j \in stops : i <= j
    BY <1>2, LeastExists
  <2>2. Min(stops) \in stops /\ \A j \in stops : Min(stops) <= j
    BY <2>1 DEF Min
  <2>3. First(outcomes) = outcomes[Min(stops)]
    BY <1>2 DEF First
  <2>4. \A j \in DOMAIN outcomes : j < Min(stops) => outcomes[j] = OK
    BY <2>2
  <2> QED BY <2>2, <2>3, <2>4
<1> QED BY <1>1, <1>2

LEMMA MustIsNoPanic == \A condition : Must(condition) \in {OK, Error} /\ (Must(condition) = OK <=> condition)
BY DEF Must, OK, Error

-----------------------------------------------------------------------------
(* Keys of recordsets. *)

\* The comparison with a number of columns passes if there are that many and none has the name,
\* and panics only where there are fewer and none has it.
LEMMA Differing ==
  ASSUME NEW columns, Len(columns) \in Nat, NEW name, NEW last \in Nat
  PROVE  LET outcome == ColumnsDifferUpTo(columns, name, last) IN
         /\ outcome = OK <=> last <= Len(columns) /\ \A j \in 1..last : columns[j].name # name
         /\ outcome = Panic => last > Len(columns) /\ \A j \in 1..Len(columns) : columns[j].name # name
<1> PICK outcomes : outcomes = [j \in 1..last |-> IF j > Len(columns) THEN Panic ELSE Must(columns[j].name # name)]
  OBVIOUS
<1>1. ColumnsDifferUpTo(columns, name, last) = First(outcomes)
  BY DEF ColumnsDifferUpTo
<1>2. DOMAIN outcomes = 1..last
  OBVIOUS
<1>3. \A j \in 1..last :
        /\ j > Len(columns) => outcomes[j] = Panic
        /\ j <= Len(columns) => outcomes[j] # Panic /\ (outcomes[j] = OK <=> columns[j].name # name)
  <2> SUFFICES ASSUME NEW j \in 1..last
               PROVE  /\ j > Len(columns) => outcomes[j] = Panic
                      /\ j <= Len(columns) => outcomes[j] # Panic /\ (outcomes[j] = OK <=> columns[j].name # name)
    OBVIOUS
  <2>1. CASE j > Len(columns)
    BY <2>1
  <2>2. CASE j <= Len(columns)
    <3>1. outcomes[j] = Must(columns[j].name # name)
      BY <2>2
    <3> QED BY <2>2, <3>1 DEF Must, OK, Error, Panic
  <2> QED BY <2>1, <2>2
<1>4. OK # Panic
  BY DEF OK, Panic
<1>5. First(outcomes) = OK <=> \A i \in 1..last : outcomes[i] = OK
  BY <1>2, FirstStops
<1>6. First(outcomes) = OK <=> last <= Len(columns) /\ \A j \in 1..last : columns[j].name # name
  <2>1. ASSUME \A i \in 1..last : outcomes[i] = OK PROVE last <= Len(columns)
    <3> SUFFICES ASSUME last > Len(columns) PROVE FALSE
      OBVIOUS
    <3>1. last \in 1..last
      OBVIOUS
    <3> QED BY <1>3, <1>4, <2>1, <3>1
  <2> QED BY <1>3, <1>5, <2>1
<1>7. ASSUME First(outcomes) = Panic
      PROVE  last > Len(columns) /\ \A j \in 1..Len(columns) : columns[j].name # name
  <2>1. PICK i \in 1..last : outcomes[i] = Panic /\ \A j \in 1..last : j < i => outcomes[j] = OK
    BY <1>2, <1>4, <1>7, FirstStops
  <2>2. i > Len(columns)
    BY <1>3, <2>1
  <2> QED BY <1>3, <2>1, <2>2
<1> QED BY <1>1, <1>6, <1>7

\* Of a key, the i-th name is that of a column, or of none of the columns it is compared with.
LEMMA KeyNamesPass ==
  ASSUME NEW columns, Len(columns) \in Nat, NEW names, NEW n \in Nat, DOMAIN names = 1..n
  PROVE  LET outcome == ValidateKeyColumnNames(columns, names) IN
         /\ outcome = OK <=> \A i \in 1..n : /\ HasColumn(columns, names[i]) /\ i <= Len(columns) + 1
                                             /\ \A j \in 1..(i - 1) : columns[j].name # names[i]
         /\ outcome = Panic => \E i \in 1..n : /\ HasColumn(columns, names[i]) /\ i > Len(columns) + 1
                                               /\ \A j \in 1..Len(columns) : columns[j].name # names[i]
<1> PICK outcomes : outcomes = [i \in 1..n |-> IF HasColumn(columns, names[i])
                                               THEN CompareWithColumns(columns, names, i) ELSE Error]
  OBVIOUS
<1>1. ValidateKeyColumnNames(columns, names) = First(outcomes)
  BY DEF ValidateKeyColumnNames
<1>2. DOMAIN outcomes = 1..n
  OBVIOUS
<1>3. OK # Panic /\ OK # Error /\ Error # Panic
  BY DEF OK, Panic, Error
<1>4. ASSUME NEW i \in 1..n
      PROVE  /\ outcomes[i] = OK <=> /\ HasColumn(columns, names[i]) /\ i <= Len(columns) + 1
                                     /\ \A j \in 1..(i - 1) : columns[j].name # names[i]
             /\ outcomes[i] = Panic => /\ HasColumn(columns, names[i]) /\ i > Len(columns) + 1
                                       /\ \A j \in 1..Len(columns) : columns[j].name # names[i]
  <2>1. CASE ~HasColumn(columns, names[i])
    BY <1>3, <2>1
  <2>2. CASE HasColumn(columns, names[i])
    <3>1. i - 1 \in Nat
      OBVIOUS
    <3>2. outcomes[i] = ColumnsDifferUpTo(columns, names[i], i - 1)
      BY <2>2 DEF CompareWithColumns
    <3> QED BY <2>2, <3>1, <3>2, Differing
  <2> QED BY <2>1, <2>2
<1>5. First(outcomes) = OK <=> \A i \in 1..n : outcomes[i] = OK
  BY <1>2, FirstStops
<1>6. First(outcomes) = Panic => \E i \in 1..n : outcomes[i] = Panic
  BY <1>2, <1>3, FirstStops
<1> QED BY <1>1, <1>4, <1>5, <1>6

\* In a list of places in ascending order, the i-th is i or more.
LEMMA PlacesKeepUp ==
  ASSUME NEW n \in Nat, NEW m \in Nat, NEW at \in [1..n -> 1..m],
         \A i, j \in 1..n : i < j => at[i] < at[j]
  PROVE  \A i \in 1..n : i <= at[i]
<1> DEFINE behind == {i \in 1..n : at[i] < i}
<1> SUFFICES ASSUME behind # {} PROVE FALSE
  OBVIOUS
<1>0. behind \subseteq Nat
  OBVIOUS
<1>1. PICK i \in behind : \A j \in behind : i <= j
  BY <1>0, LeastExists
<1>2. i \in 1..n /\ at[i] < i /\ at[i] \in 1..m
  BY <1>1
<1>3. i - 1 \in 1..n
  BY <1>2
<1>4. i - 1 \notin behind
  BY <1>1, <1>2
<1>5. at[i - 1] >= i - 1 /\ at[i - 1] < at[i] /\ at[i - 1] \in 1..m
  BY <1>2, <1>3, <1>4
<1> QED BY <1>2, <1>5

\* A key that names distinct columns in their order is accepted.
NamesInOrder(columns, m, key, n, at) ==
  /\ m \in Nat /\ n \in Nat /\ DOMAIN columns = 1..m /\ Len(columns) = m /\ DOMAIN key = 1..n
  /\ \A i, j \in 1..m : columns[i].name = columns[j].name => i = j
  /\ at \in [1..n -> 1..m] /\ \A i \in 1..n : key[i] = columns[at[i]].name
  /\ \A i, j \in 1..n : i < j => at[i] < at[j]

LEMMA KeyInOrderPasses ==
  ASSUME NEW columns, NEW m, NEW key, NEW n, NEW at, NamesInOrder(columns, m, key, n, at)
  PROVE  ValidateKeyColumnNames(columns, key) = OK
<1>0. /\ m \in Nat /\ n \in Nat /\ DOMAIN columns = 1..m /\ Len(columns) = m /\ DOMAIN key = 1..n
      /\ \A i, j \in 1..m : columns[i].name = columns[j].name => i = j
      /\ at \in [1..n -> 1..m] /\ \A i \in 1..n : key[i] = columns[at[i]].name
      /\ \A i, j \in 1..n : i < j => at[i] < at[j]
  BY DEF NamesInOrder
<1>1. ASSUME NEW i \in 1..n
      PROVE  /\ HasColumn(columns, key[i]) /\ i <= Len(columns) + 1
             /\ \A j \in 1..(i - 1) : columns[j].name # key[i]
  <2>1. i <= at[i] /\ at[i] \in 1..m /\ key[i] = columns[at[i]].name
    BY <1>0, PlacesKeepUp
  <2>2. HasColumn(columns, key[i])
    BY <1>0, <2>1 DEF HasColumn
  <2>3. \A j \in 1..(i - 1) : j \in 1..m /\ j # at[i]
    BY <1>0, <2>1
  <2> QED BY <1>0, <2>1, <2>2, <2>3
<1> QED BY <1>0, <1>1, KeyNamesPass

-----------------------------------------------------------------------------
(* A recordset whose key alone is unsound. *)

LEMMA OneElement == ASSUME NEW x, NEW list, list = <<x>> PROVE DOMAIN list = {1} /\ list[1] = x
OBVIOUS

LEMMA OnePasses == ASSUME NEW outcomes, DOMAIN outcomes = {1}, outcomes[1] = OK PROVE First(outcomes) = OK
<1>1. \A i \in DOMAIN outcomes : i \in Nat /\ outcomes[i] = OK
  OBVIOUS
<1> QED BY ONLY <1>1, FirstStops

LEMMA ThreePass == ASSUME NEW a, NEW b, NEW c, a = OK, b = OK, c = OK PROVE First(<<a, b, c>>) = OK
<1> PICK outcomes : outcomes = <<a, b, c>>
  OBVIOUS
<1>1. DOMAIN outcomes \subseteq Nat /\ \A i \in DOMAIN outcomes : outcomes[i] = OK
  OBVIOUS
<1>2. First(outcomes) = OK
  BY ONLY <1>1, FirstStops
<1> QED BY <1>2

LEMMA FourPass ==
  ASSUME NEW a, NEW b, NEW c, NEW d, a = OK, b = OK, c = OK, d = OK PROVE First(<<a, b, c, d>>) = OK
<1> PICK outcomes : outcomes = <<a, b, c, d>>
  OBVIOUS
<1>1. DOMAIN outcomes \subseteq Nat /\ \A i \in DOMAIN outcomes : outcomes[i] = OK
  OBVIOUS
<1>2. First(outcomes) = OK
  BY ONLY <1>1, FirstStops
<1> QED BY <1>2

LEMMA ThreePassed == ASSUME NEW a, NEW b, NEW c, First(<<a, b, c>>) = OK PROVE a = OK /\ b = OK /\ c = OK
<1> PICK outcomes : outcomes = <<a, b, c>>
  OBVIOUS
<1>1. /\ DOMAIN outcomes = 1..3 /\ First(outcomes) = OK
      /\ outcomes[1] = a /\ outcomes[2] = b /\ outcomes[3] = c
  OBVIOUS
<1>2. \A i \in 1..3 : outcomes[i] = OK
  BY ONLY <1>1, FirstStops
<1> QED BY ONLY <1>1, <1>2

LEMMA FourPassed ==
  ASSUME NEW a, NEW b, NEW c, NEW d, First(<<a, b, c, d>>) = OK PROVE a = OK /\ b = OK /\ c = OK /\ d = OK
<1> PICK outcomes : outcomes = <<a, b, c, d>>
  OBVIOUS
<1>1. /\ DOMAIN outcomes = 1..4 /\ First(outcomes) = OK
      /\ outcomes[1] = a /\ outcomes[2] = b /\ outcomes[3] = c /\ outcomes[4] = d
  OBVIOUS
<1>2. \A i \in 1..4 : outcomes[i] = OK
  BY ONLY <1>1, FirstStops
<1> QED BY ONLY <1>1, <1>2

LEMMA TagsPass == ASSUME NEW tags, tags = <<"g">> PROVE ValidateTags(tags) = OK
<1>1. DOMAIN tags = {1} /\ tags[1] = "g"
  BY ONLY OneElement, tags = <<"g">>
<1>2. \A i \in DOMAIN tags : tags[i] \notin {Nothing, TooLong}
  BY ONLY <1>1 DEF Nothing, TooLong
<1>3. NoneRepeats(tags)
  BY ONLY <1>1 DEF NoneRepeats
<1> QED BY ONLY <1>2, <1>3, MustIsNoPanic DEF ValidateTags

LEMMA PathPasses == ASSUME NEW path, path = <<"user:u", "f">> PROVE path # <<>> /\ ValidateFolderPath(path) = OK
<1>1. path # <<>> /\ DOMAIN path = {1, 2} /\ path[1] = "user:u" /\ path[2] = "f"
  OBVIOUS
<1>2. \A i \in DOMAIN path \ {1} : ~IsBlank(path[i]) /\ Trimmed(path[i]) /\ path[i] # "~"
  BY ONLY <1>1 DEF IsBlank, Trimmed, Nothing, Blank, Untrimmed
<1> QED BY ONLY <1>1, <1>2, MustIsNoPanic DEF ValidateFolderPath

LEMMA ItemPasses == ValidateItem(TitledItem, TRUE) = OK
<1> PICK it : it = TitledItem
  OBVIOUS
<1>1. /\ it.id = "x" /\ it.title = "t" /\ it.folder = <<"user:u", "f">> /\ it.tags = <<"g">>
      /\ it.userIds = <<"u">> /\ it.access = Nothing
  BY DEF TitledItem, Item
<1>2. ValidateBrief(it, TRUE) = OK
  <2>1. Must(it.id # Nothing) = OK
    <3>1. it.id # Nothing
      BY ONLY <1>1 DEF Nothing
    <3> QED BY ONLY <3>1, MustIsNoPanic
  <2>2. ValidateStringField(it.title, TRUE) = OK
    <3>1. ~(TRUE /\ IsBlank("t")) /\ "t" # TooLong
      BY DEF IsBlank, Nothing, Blank, TooLong
    <3> QED BY ONLY <1>1, <3>1, MustIsNoPanic DEF ValidateStringField
  <2>3. ValidateTags(it.tags) = OK
    BY ONLY <1>1, TagsPass
  <2>4. (IF it.folder = <<>> THEN OK ELSE ValidateFolderPath(it.folder)) = OK
    <3>1. it.folder # <<>> /\ ValidateFolderPath(it.folder) = OK
      <4> PICK path : path = it.folder
        OBVIOUS
      <4>1. path = <<"user:u", "f">>
        BY <1>1
      <4>2. path # <<>> /\ ValidateFolderPath(path) = OK
        BY ONLY <4>1, PathPasses
      <4> QED BY <4>2
    <3> QED BY ONLY <3>1
  <2> PICK path : path = IF it.folder = <<>> THEN OK ELSE ValidateFolderPath(it.folder)
    OBVIOUS
  <2> PICK id : id = Must(it.id # Nothing)
    OBVIOUS
  <2> PICK title : title = ValidateStringField(it.title, TRUE)
    OBVIOUS
  <2> PICK tags : tags = ValidateTags(it.tags)
    OBVIOUS
  <2>5. ValidateBrief(it, TRUE) = First(<<id, title, tags, path>>)
    BY DEF ValidateBrief
  <2>6. id = OK /\ title = OK /\ tags = OK /\ path = OK
    BY <2>1, <2>2, <2>3, <2>4
  <2> QED BY ONLY <2>5, <2>6, FourPass
<1>3. Each(it.userIds, ValidateUserID) = OK
  <2> PICK outcomes : outcomes = [i \in DOMAIN it.userIds |-> ValidateUserID(it.userIds[i])]
    OBVIOUS
  <2>1. Each(it.userIds, ValidateUserID) = First(outcomes)
    BY DEF Each
  <2>2. DOMAIN it.userIds = {1} /\ it.userIds[1] = "u"
    BY ONLY <1>1, OneElement
  <2>3. DOMAIN outcomes = {1} /\ outcomes[1] = ValidateUserID("u")
    BY <2>2
  <2>4. ValidateUserID("u") = OK
    BY ONLY MustIsNoPanic DEF ValidateUserID, IsBlank, Nothing, Blank
  <2> QED BY ONLY <2>1, <2>3, <2>4, OnePasses
<1>4. Must(it.access \in AccessLevels \cup {Nothing}) = OK
  <2>1. it.access \in AccessLevels \cup {Nothing}
    BY <1>1
  <2> QED BY ONLY <2>1, MustIsNoPanic
<1>5. Must(NoneRepeats(it.userIds)) = OK
  <2>1. DOMAIN it.userIds = {1}
    BY ONLY <1>1, OneElement
  <2>2. NoneRepeats(it.userIds)
    BY ONLY <2>1 DEF NoneRepeats
  <2> QED BY ONLY <2>2, MustIsNoPanic
<1>6. ValidateItem(it, TRUE) = OK
  BY ONLY <1>2, <1>3, <1>4, <1>5, FourPass DEF ValidateItem
<1> QED BY <1>6

LEMMA ColumnPasses ==
  ASSUME NEW name \in Names
  PROVE  ValidateColumnDef([ColumnDef EXCEPT !.name = name]) = OK
<1> PICK column : column = [ColumnDef EXCEPT !.name = name]
  OBVIOUS
<1>1. column.name = name /\ column.type = "string" /\ column.hideIf = <<"p">> /\ column.meta = FieldRef
  BY DEF ColumnDef
<1>2. Must(~IsBlank(column.name) /\ ~IsBlank(column.type)) = OK
  <2>1. ~IsBlank(name) /\ ~IsBlank("string")
    BY DEF Names, IsBlank, Nothing, Blank
  <2> QED BY ONLY <1>1, <2>1, MustIsNoPanic
<1>3. IfAny(column.meta, ValidateFieldRef) = OK
  <2>1. FieldRef.entity = "e" /\ FieldRef.field = "f"
    BY DEF FieldRef
  <2>2. ~IsBlank("e") /\ ~IsBlank("f")
    BY DEF IsBlank, Nothing, Blank
  <2>3. ValidateFieldRef(FieldRef) = OK
    BY ONLY <2>1, <2>2, MustIsNoPanic DEF ValidateFieldRef
  <2> QED BY ONLY <1>1, <2>3 DEF IfAny
<1>4. ValidateHideIf(column.hideIf) = OK
  <2>1. DOMAIN column.hideIf = {1} /\ column.hideIf[1] = "p"
    BY ONLY <1>1, OneElement
  <2>2. \A i \in DOMAIN column.hideIf : column.hideIf[i] # Nothing
    BY ONLY <2>1 DEF Nothing
  <2> QED BY ONLY <2>2, MustIsNoPanic DEF ValidateHideIf
<1>5. ValidateColumnDef(column) = OK
  BY ONLY <1>2, <1>3, <1>4, ThreePass DEF ValidateColumnDef
<1> QED BY <1>5

\* What a recordset made of names and a key consists of.
HasKey(r, key) ==
  /\ r.item = TitledItem /\ r.type = "json" /\ r.jsonSchema = "{}" /\ r.alternateKeys = <<>>
  /\ r.primaryKey.names = key
HasColumns(columns, names, m) ==
  /\ names \in [1..m -> Names] /\ DOMAIN columns = 1..m /\ Len(columns) = m
  /\ \A i \in 1..m : columns[i] = [ColumnDef EXCEPT !.name = names[i]] /\ columns[i].name = names[i]

LEMMA RecordsetParts ==
  ASSUME NEW names \in NameLists, NEW key \in NameLists, NEW r, r = RecordsetOf(names, key)
  PROVE  /\ HasKey(r, key)
         /\ \E n \in Nat : DOMAIN key = 1..n
         /\ \E m \in Nat : HasColumns(r.columnDefs, names, m)
<1>1. /\ \E n \in Nat : key \in [1..n -> Names]
      /\ \E n \in Nat : names \in [1..n -> Names]
  BY NamesAssumption DEF NameLists
<1>2. PICK m \in Nat : names \in [1..m -> Names]
  BY <1>1
<1> PICK columns : columns = [i \in DOMAIN names |-> [ColumnDef EXCEPT !.name = names[i]]]
  OBVIOUS
<1>3. r.columnDefs = columns /\ r.primaryKey.names = key
  BY DEF RecordsetOf, Recordset, RecordsetKey, UniqueKey
<1>4. r.item = TitledItem /\ r.type = "json" /\ r.jsonSchema = "{}" /\ r.alternateKeys = <<>>
  BY DEF RecordsetOf, Recordset
<1>5. DOMAIN columns = 1..m /\ Len(columns) = m
  BY <1>2
<1>6. \A i \in 1..m : columns[i].name = names[i]
  BY <1>2 DEF ColumnDef
<1>7. \A i \in 1..m : columns[i] = [ColumnDef EXCEPT !.name = names[i]]
  BY <1>2
<1>8. HasColumns(columns, names, m)
  BY <1>2, <1>5, <1>6, <1>7 DEF HasColumns
<1>9. HasKey(r, key)
  BY <1>3, <1>4 DEF HasKey
<1> QED BY <1>1, <1>3, <1>8, <1>9

LEMMA NameListsHaveEnds == ASSUME NEW key \in NameLists, NEW n \in Nat, DOMAIN key = 1..n PROVE Len(key) = n
<1>1. PICK k \in Nat : key \in [1..k -> Names]
  BY NamesAssumption DEF NameLists
<1>2. key \in Seq(Names) /\ Len(key) = k /\ DOMAIN key = 1..k
  BY <1>1
<1> QED BY <1>2

LEMMA OnlyItsKey ==
  ASSUME NEW names \in NameLists, NEW key \in NameLists, NEW r, r = RecordsetOf(names, key)
  PROVE  ValidateRecordset(r) \in {OK, ValidateKeyColumnNames(r.columnDefs, key)}
<1>1. r.item = TitledItem /\ r.type = "json" /\ r.jsonSchema = "{}" /\ r.alternateKeys = <<>> /\ r.primaryKey.names = key
  <2>1. HasKey(r, key)
    BY RecordsetParts
  <2> QED BY ONLY <2>1 DEF HasKey
<1>2. PICK m \in Nat : HasColumns(r.columnDefs, names, m)
  BY RecordsetParts
<1> PICK own : own = ValidateKeyColumnNames(r.columnDefs, key)
  OBVIOUS
<1> PICK alternate : alternate = [i \in DOMAIN r.alternateKeys |-> ValidateKeyColumnNames(r.columnDefs, r.alternateKeys[i].names)]
  OBVIOUS
<1> PICK outcomes : outcomes =
      <<ValidateItem(r.item, TRUE), Must(r.type \in {"recordset", "json"}),
        Must(r.type = "json" => r.jsonSchema \notin {Nothing, Misspelt}), ValidateColumnDefs(r.columnDefs),
        IF r.primaryKey = NIL THEN OK ELSE own, First(alternate)>>
  OBVIOUS
<1>3. ValidateRecordset(r) = First(outcomes)
  BY <1>1 DEF ValidateRecordset, IfAny, Each
<1>4. outcomes[1] = OK
  BY <1>1, ItemPasses
<1>5. outcomes[2] = OK /\ outcomes[3] = OK
  BY <1>1, MustIsNoPanic DEF Nothing, Misspelt
<1>6. outcomes[4] = OK
  <2> PICK each : each = [i \in DOMAIN r.columnDefs |-> ValidateColumnDef(r.columnDefs[i])]
    OBVIOUS
  <2>1. ValidateColumnDefs(r.columnDefs) = First(each)
    BY DEF ValidateColumnDefs, Each
  <2>2. /\ DOMAIN each = 1..m
        /\ \A i \in 1..m : names[i] \in Names /\ each[i] = ValidateColumnDef([ColumnDef EXCEPT !.name = names[i]])
    BY <1>2 DEF HasColumns
  <2>3. \A i \in 1..m : each[i] = OK
    BY ONLY <2>2, ColumnPasses
  <2>4. DOMAIN each \subseteq Nat /\ \A i \in DOMAIN each : each[i] = OK
    BY ONLY <2>2, <2>3
  <2>5. First(each) = OK
    BY ONLY <2>4, FirstStops
  <2> QED BY <2>1, <2>5
<1>7. outcomes[6] = OK
  <2>1. DOMAIN alternate = DOMAIN r.alternateKeys
    OBVIOUS
  <2>2. DOMAIN r.alternateKeys = {}
    <3>1. r.alternateKeys = <<>>
      BY <1>1
    <3> QED BY ONLY <3>1
  <2>3. First(alternate) = OK
    BY ONLY <2>1, <2>2, FirstStops
  <2> QED BY <2>3
<1>8. outcomes[5] \in {OK, own}
  OBVIOUS
<1>9. DOMAIN outcomes = 1..6
  OBVIOUS
<1>10. First(outcomes) # OK => \E i \in 1..6 : First(outcomes) = outcomes[i] /\ outcomes[i] # OK
  BY ONLY <1>9, FirstStops
<1>11. \A i \in 1..6 : i # 5 => outcomes[i] = OK
  BY ONLY <1>4, <1>5, <1>6, <1>7
<1> QED BY <1>3, <1>8, <1>10, <1>11

-----------------------------------------------------------------------------
(* What decoding changes. *)

LEMMA QueryParts ==
  DOMAIN Query = {"kind", "item", "type", "text", "targets", "parameters", "recordsets"}
BY DEF Query

\* A parameter that has passed passes again once it is decoded, unless it is an integer.
LEMMA ParameterDecoded ==
  ASSUME NEW parameter, IsParameter(parameter), ValidateParameter(parameter) = OK,
         NEW decoded, decoded = AfterDecoding(parameter)
  PROVE  ValidateParameter(decoded) = OK <=> ~IsInteger(parameter)
<1>1. CASE parameter.default # "int"
  BY <1>1 DEF AfterDecoding, IsInteger
<1>2. CASE parameter.default = "int"
  <2>1. DOMAIN parameter = {"kind", "id", "type", "default", "meta"}
    BY DEF IsParameter, ParameterOf
  <2>2. decoded = [parameter EXCEPT !.default = "float64"]
    BY <1>2 DEF AfterDecoding
  <2>3. decoded.id = parameter.id /\ decoded.type = parameter.type /\ decoded.default = "float64"
    BY ONLY <2>1, <2>2
  <2>4. parameter.id # Nothing /\ parameter.type # Nothing /\ (parameter.default # NIL => DefaultFits(parameter.type, parameter.default))
    BY ONLY MustIsNoPanic, ValidateParameter(parameter) = OK DEF ValidateParameter
  <2>5. ValidateParameter(decoded) = OK <=> DefaultFits(parameter.type, "float64")
    BY ONLY <2>3, <2>4, NILAssumption, MustIsNoPanic DEF ValidateParameter
  <2>6. DefaultFits(parameter.type, "int")
    BY ONLY <1>2, <2>4, NILAssumption
  <2> PICK type : type = parameter.type
    OBVIOUS
  <2>7. ASSUME DefaultFits(type, "int") PROVE DefaultFits(type, "float64") <=> type \notin {"integer", "bit"}
    <3>1. CASE type \in {"string", "number", "boolean"}
      BY <2>7, <3>1 DEF DefaultFits
    <3>2. CASE type \in {"integer", "bit"}
      BY <3>2 DEF DefaultFits
    <3>3. CASE type \notin {"string", "number", "boolean", "integer", "bit"}
      BY <3>3 DEF DefaultFits
    <3> QED BY <3>1, <3>2, <3>3
  <2>8. IsInteger(parameter) <=> type \in {"integer", "bit"}
    BY <1>2 DEF IsInteger
  <2> QED BY <2>5, <2>6, <2>7, <2>8
<1> QED BY <1>1, <1>2

\* What a query comes to is decided by its parameters, as far as the rest of it passes.
LEMMA ParametersPass ==
  ASSUME NEW list, DOMAIN list \subseteq Nat
  PROVE  ValidateParameters(list) = OK <=> \A i \in DOMAIN list : ValidateParameter(list[i]) = OK
<1> PICK outcomes : outcomes = [i \in DOMAIN list |-> ValidateParameter(list[i])]
  OBVIOUS
<1>1. ValidateParameters(list) = First(outcomes)
  BY DEF ValidateParameters, Each
<1>2. DOMAIN outcomes = DOMAIN list /\ \A i \in DOMAIN list : outcomes[i] = ValidateParameter(list[i])
  OBVIOUS
<1> QED BY ONLY <1>1, <1>2, DOMAIN list \subseteq Nat, FirstStops

LEMMA TwoOutcomes == ASSUME NEW a, NEW b PROVE First(<<a, b>>) = OK <=> a = OK /\ b = OK
<1> PICK outcomes : outcomes = <<a, b>>
  OBVIOUS
<1>1. DOMAIN outcomes = 1..2 /\ outcomes[1] = a /\ outcomes[2] = b
  OBVIOUS
<1>2. First(outcomes) = OK <=> \A i \in 1..2 : outcomes[i] = OK
  BY ONLY <1>1, FirstStops
<1> QED BY <1>1, <1>2

LEMMA FiveOutcomes ==
  ASSUME NEW a, NEW b, NEW c, NEW d, NEW e
  PROVE  First(<<a, b, c, d, e>>) = OK <=> a = OK /\ b = OK /\ c = OK /\ d = OK /\ e = OK
<1> PICK outcomes : outcomes = <<a, b, c, d, e>>
  OBVIOUS
<1>1. /\ DOMAIN outcomes = 1..5 /\ outcomes[1] = a /\ outcomes[2] = b /\ outcomes[3] = c
      /\ outcomes[4] = d /\ outcomes[5] = e
  OBVIOUS
<1>2. First(outcomes) = OK <=> \A i \in 1..5 : outcomes[i] = OK
  BY ONLY <1>1, FirstStops
<1>3. (\A i \in 1..5 : outcomes[i] = OK) <=> a = OK /\ b = OK /\ c = OK /\ d = OK /\ e = OK
  BY ONLY <1>1
<1> QED BY <1>2, <1>3

\* Parameters that have passed pass again once they are decoded, unless one is an integer.
NoIntegers(list) == \A parameter \in Elements(list) : ~IsInteger(parameter)

LEMMA DecodedParametersPass ==
  ASSUME NEW list, AreParameters(list), ValidateParameters(list) = OK
  PROVE  ValidateParameters(ParametersDecoded(list)) = OK <=> NoIntegers(list)
<1> PICK made : made = ParametersDecoded(list)
  OBVIOUS
<1>1. DOMAIN list \subseteq Nat /\ \A i \in DOMAIN list : IsParameter(list[i])
  BY DEF AreParameters, IsList
<1>2. DOMAIN made = DOMAIN list /\ \A i \in DOMAIN list : made[i] = AfterDecoding(list[i])
  BY DEF ParametersDecoded
<1>3. \A i \in DOMAIN list : ValidateParameter(list[i]) = OK
  BY <1>1, ParametersPass
<1>4. \A i \in DOMAIN list : ValidateParameter(made[i]) = OK <=> ~IsInteger(list[i])
  BY ONLY <1>1, <1>2, <1>3, ParameterDecoded
<1>5. ValidateParameters(made) = OK <=> \A i \in DOMAIN list : ValidateParameter(made[i]) = OK
  BY <1>1, <1>2, ParametersPass
<1> QED BY <1>4, <1>5 DEF NoIntegers, Elements

\* A query that has passed passes again once it is decoded, unless it has an integer.
LEMMA QueryDecoded ==
  ASSUME NEW query, IsQuery(query), ValidateQuery(query) = OK,
         NEW decoded, decoded = [query EXCEPT !.parameters = ParametersDecoded(@)]
  PROVE  ValidateQuery(decoded) = OK <=> NoIntegers(query.parameters)
<1> PICK list : list = query.parameters
  OBVIOUS
<1> PICK made : made = ParametersDecoded(list)
  OBVIOUS
<1>1. /\ DOMAIN query = {"kind", "item", "type", "text", "targets", "parameters", "recordsets"}
      /\ AreParameters(list)
  BY QueryParts DEF IsQuery
<1>2. /\ decoded.parameters = made /\ decoded.item = query.item /\ decoded.type = query.type
      /\ decoded.text = query.text /\ decoded.targets = query.targets
  BY <1>1
<1> PICK item1 : item1 = ValidateItem(query.item, TRUE)
  OBVIOUS
<1> PICK known : known = Must(query.type \in {"folder", "HTTP", "SQL", "GraphQL"})
  OBVIOUS
<1> PICK text : text = Must(query.type = "folder" => query.text = Nothing)
  OBVIOUS
<1> PICK targets : targets = Must(query.type = "HTTP" => \A i \in DOMAIN query.targets : query.targets[i].catalog = Nothing)
  OBVIOUS
<1> PICK before : before = ValidateParameters(list)
  OBVIOUS
<1> PICK after : after = ValidateParameters(made)
  OBVIOUS
<1>3. /\ ValidateQuery(query) = First(<<item1, known, text, targets, before>>)
      /\ ValidateQuery(decoded) = First(<<item1, known, text, targets, after>>)
  BY <1>2 DEF ValidateQuery
<1>4. item1 = OK /\ known = OK /\ text = OK /\ targets = OK /\ before = OK
  <2>1. First(<<item1, known, text, targets, before>>) = OK
    BY <1>3
  <2> QED BY ONLY <2>1, FiveOutcomes
<1>5. ValidateQuery(decoded) = OK <=> after = OK
  BY ONLY <1>3, <1>4, FiveOutcomes
<1>6. after = OK <=> NoIntegers(list)
  BY <1>1, <1>4, DecodedParametersPass
<1> QED BY <1>5, <1>6

\* An item that passes passes without its tags.
LEMMA UntaggedPasses ==
  ASSUME NEW it, DOMAIN it = DOMAIN Item, ValidateItem(it, FALSE) = OK, NEW bare, bare = [it EXCEPT !.tags = <<>>]
  PROVE  ValidateItem(bare, FALSE) = OK
<1>1. /\ bare.id = it.id /\ bare.title = it.title /\ bare.folder = it.folder /\ bare.tags = <<>>
      /\ bare.userIds = it.userIds /\ bare.access = it.access
  BY DEF Item
<1>2. ValidateTags(<<>>) = OK
  <2>1. \A i \in DOMAIN <<>> : <<>>[i] \notin {Nothing, TooLong}
    OBVIOUS
  <2>2. NoneRepeats(<<>>)
    BY DEF NoneRepeats
  <2> QED BY ONLY <2>1, <2>2, MustIsNoPanic DEF ValidateTags
<1>3. /\ ValidateBrief(it, FALSE) = OK /\ Must(it.access \in AccessLevels \cup {Nothing}) = OK
      /\ Each(it.userIds, ValidateUserID) = OK /\ Must(NoneRepeats(it.userIds)) = OK
  BY FourPassed DEF ValidateItem
<1> PICK path : path = IF it.folder = <<>> THEN OK ELSE ValidateFolderPath(it.folder)
  OBVIOUS
<1> PICK id : id = Must(it.id # Nothing)
  OBVIOUS
<1> PICK title : title = ValidateStringField(it.title, FALSE)
  OBVIOUS
<1> PICK tags : tags = ValidateTags(it.tags)
  OBVIOUS
<1> PICK none : none = ValidateTags(<<>>)
  OBVIOUS
<1>4. /\ ValidateBrief(it, FALSE) = First(<<id, title, tags, path>>)
      /\ ValidateBrief(bare, FALSE) = First(<<id, title, none, path>>)
  BY <1>1 DEF ValidateBrief
<1>5. id = OK /\ title = OK /\ none = OK /\ path = OK
  <2>1. First(<<id, title, tags, path>>) = OK
    BY ONLY <1>3, <1>4
  <2>2. id = OK /\ title = OK /\ path = OK
    BY ONLY <2>1, FourPassed
  <2> QED BY <1>2, <2>2
<1>6. ValidateBrief(bare, FALSE) = OK
  <2>1. First(<<id, title, none, path>>) = OK
    BY ONLY <1>5, FourPass
  <2> QED BY <1>4, <2>1
<1> PICK brief : brief = ValidateBrief(bare, FALSE)
  OBVIOUS
<1> PICK access : access = Must(it.access \in AccessLevels \cup {Nothing})
  OBVIOUS
<1> PICK users : users = Each(it.userIds, ValidateUserID)
  OBVIOUS
<1> PICK distinct : distinct = Must(NoneRepeats(it.userIds))
  OBVIOUS
<1>7. ValidateItem(bare, FALSE) = First(<<brief, access, users, distinct>>)
  BY <1>1 DEF ValidateItem
<1>8. brief = OK /\ access = OK /\ users = OK /\ distinct = OK
  BY <1>3, <1>6
<1> QED BY ONLY <1>7, <1>8, FourPass

\* Of an entity decoding changes the tags of its item.
LEMMA EntityDecoded ==
  ASSUME NEW entity, DOMAIN entity = DOMAIN Entity, DOMAIN entity.item = DOMAIN Item, ValidateEntity(entity) = OK,
         NEW decoded, decoded = [entity EXCEPT !.item.tags = <<>>]
  PROVE  ValidateEntity(decoded) = OK
<1> PICK bare : bare = [entity.item EXCEPT !.tags = <<>>]
  OBVIOUS
<1>1. decoded.item = bare /\ decoded.fields = entity.fields /\ decoded.tags = entity.tags
  BY DEF Entity
<1>2. ValidateItem(entity.item, FALSE) = OK /\ ValidateEntityFields(entity.fields) = OK /\ ValidateTags(entity.tags) = OK
  BY ThreePassed DEF ValidateEntity
<1>3. ValidateItem(bare, FALSE) = OK
  BY <1>2, UntaggedPasses
<1> QED BY ONLY <1>1, <1>2, <1>3, ThreePass DEF ValidateEntity

\* Of a board decoding changes the parameters of its widgets.
LEMMA BaseDecoded ==
  ASSUME NEW base, DOMAIN base = DOMAIN WidgetBase, AreParameters(base.parameters), ValidateWidgetBase(base, FALSE) = OK,
         NEW decoded, decoded = [base EXCEPT !.parameters = ParametersDecoded(@)]
  PROVE  ValidateWidgetBase(decoded, FALSE) = OK <=> NoIntegers(base.parameters)
<1> PICK list, title, before, after :
      /\ list = base.parameters /\ title = ValidateStringField(base.title, FALSE)
      /\ before = ValidateParameters(list) /\ after = ValidateParameters(ParametersDecoded(list))
  OBVIOUS
<1>1. decoded.title = base.title /\ decoded.parameters = ParametersDecoded(list)
  BY DEF WidgetBase
<1>2. /\ ValidateWidgetBase(base, FALSE) = First(<<title, before>>)
      /\ ValidateWidgetBase(decoded, FALSE) = First(<<title, after>>)
  BY <1>1 DEF ValidateWidgetBase
<1>3. title = OK /\ before = OK
  <2>1. First(<<title, before>>) = OK
    BY <1>2
  <2> QED BY ONLY <2>1, TwoOutcomes
<1>4. ValidateWidgetBase(decoded, FALSE) = OK <=> after = OK
  <2>1. First(<<title, after>>) = OK <=> after = OK
    BY ONLY <1>3, TwoOutcomes
  <2> QED BY <1>2, <2>1
<1>5. after = OK <=> NoIntegers(list)
  BY <1>3, DecodedParametersPass
<1> QED BY <1>4, <1>5

LEMMA WidgetPasses ==
  ASSUME NEW widget, IsWidget(widget), ValidateWidget(widget) = OK,
         NEW decoded, decoded = WidgetDecoded(widget)
  PROVE  ValidateWidget(decoded) = OK <=> NoIntegers(widget.def.base.parameters)
<1> PICK def, base, new :
      def = widget.def /\ base = def.base /\ new = [base EXCEPT !.parameters = ParametersDecoded(@)]
  OBVIOUS
<1>1. widget.name \in {"SQL", "HTTP", "tabs"}
  BY MustIsNoPanic, Differing DEF ValidateWidget, OK, Error
<1>2. /\ DOMAIN widget = {"kind", "name", "def"}
      /\ DOMAIN def = DefFields(widget.name) /\ DOMAIN base = DOMAIN WidgetBase /\ AreParameters(base.parameters)
  BY <1>1 DEF IsWidget, WidgetOf
<1> PICK made : made = [def EXCEPT !.base = new]
  OBVIOUS
<1>3. decoded.name = widget.name /\ decoded.def = made
  <2>1. decoded = [widget EXCEPT !.def = made]
    BY DEF WidgetDecoded
  <2> QED BY ONLY <2>1, <1>2
<1> PICK before, after : before = ValidateWidgetBase(base, FALSE) /\ after = ValidateWidgetBase(new, FALSE)
  OBVIOUS
<1>4. before = OK => (after = OK <=> NoIntegers(base.parameters))
  BY <1>2, BaseDecoded
<1>5. CASE widget.name = "SQL"
  <2>1. DOMAIN def = {"kind", "base", "queryText"}
    BY <1>2, <1>5 DEF DefFields, SQLWidget
  <2>2. made.base = new /\ made.queryText = def.queryText
    BY ONLY <2>1, made = [def EXCEPT !.base = new]
  <2> PICK rest : rest = Must(def.queryText # Nothing)
    OBVIOUS
  <2>3. ValidateWidget(widget) = First(<<before, rest>>) /\ ValidateWidget(decoded) = First(<<after, rest>>)
    BY <1>3, <1>5, <2>2 DEF ValidateWidget, ValidateSQLWidget
  <2> QED BY ONLY <1>4, <2>3, ValidateWidget(widget) = OK, TwoOutcomes, base = def.base, def = widget.def
<1>6. CASE widget.name = "HTTP"
  <2>1. DOMAIN def = {"kind", "base", "request"}
    BY <1>2, <1>6 DEF DefFields, HTTPWidget
  <2>2. made.base = new /\ made.request = def.request
    BY ONLY <2>1, made = [def EXCEPT !.base = new]
  <2> PICK rest : rest = ValidateRequest(def.request)
    OBVIOUS
  <2>3. ValidateWidget(widget) = First(<<before, rest>>) /\ ValidateWidget(decoded) = First(<<after, rest>>)
    BY <1>3, <1>6, <2>2 DEF ValidateWidget, ValidateHTTPWidget
  <2> QED BY ONLY <1>4, <2>3, ValidateWidget(widget) = OK, TwoOutcomes, base = def.base, def = widget.def
<1>7. CASE widget.name = "tabs"
  <2>1. DOMAIN def = {"kind", "base", "tabs"}
    BY <1>2, <1>7 DEF DefFields, TabsWidget
  <2>2. made.base = new
    BY ONLY <2>1, made = [def EXCEPT !.base = new]
  <2>3. ValidateWidget(widget) = before /\ ValidateWidget(decoded) = after
    BY <1>3, <1>7, <2>2 DEF ValidateWidget, ValidateTabsWidget
  <2> QED BY <1>4, <2>3
<1> QED BY <1>1, <1>5, <1>6, <1>7

LEMMA CardPasses ==
  ASSUME NEW card, IsCard(card), ValidateCard(card) = OK
  PROVE  card.widget # NIL /\ (ValidateCard(CardDecoded(card)) = OK <=> NoIntegers(card.widget.def.base.parameters))
<1> PICK widget, new, decoded :
      /\ widget = card.widget /\ new = WidgetDecoded(widget)
      /\ decoded = CardDecoded(card)
  OBVIOUS
<1> PICK fields, before :
      fields = Must(card.id # Nothing /\ card.cols >= 0) /\ before = Follow(widget, ValidateWidget)
  OBVIOUS
<1>1. ValidateCard(card) = First(<<fields, before>>)
  BY DEF ValidateCard
<1>2. fields = OK /\ before = OK
  BY ONLY <1>1, ValidateCard(card) = OK, TwoOutcomes
<1>3. widget # NIL /\ ValidateWidget(widget) = OK
  BY <1>2 DEF Follow, OK, Panic
<1>4. DOMAIN card = {"kind", "id", "cols", "widget"} /\ IsWidget(widget) /\ new # NIL
  BY <1>3 DEF IsCard, CardOf
<1>5. decoded.id = card.id /\ decoded.cols = card.cols /\ decoded.widget = new
  <2>1. decoded = [card EXCEPT !.widget = new]
    BY <1>3 DEF CardDecoded
  <2> QED BY ONLY <2>1, <1>4
<1>6. ValidateCard(decoded) = First(<<fields, ValidateWidget(new)>>)
  BY <1>4, <1>5 DEF ValidateCard, Follow
<1>7. ValidateCard(decoded) = OK <=> ValidateWidget(new) = OK
  BY ONLY <1>2, <1>6, TwoOutcomes
<1>8. ValidateWidget(new) = OK <=> NoIntegers(widget.def.base.parameters)
  BY <1>3, <1>4, WidgetPasses
<1> QED BY <1>3, <1>7, <1>8

\* A list whose parts pass passes again when every part that decoding changes does.
LEMMA RowPasses ==
  ASSUME NEW row, IsRow(row), ValidateRow(row) = OK
  PROVE  /\ \A card \in Elements(row.cards) : card.widget # NIL
         /\ ValidateRow(RowDecoded(row)) = OK
              <=> \A card \in Elements(row.cards) : NoIntegers(card.widget.def.base.parameters)
<1> PICK cards, new :
      cards = row.cards /\ new = [i \in DOMAIN row.cards |-> CardDecoded(row.cards[i])]
  OBVIOUS
<1>1. /\ RowDecoded(row).cards = new /\ DOMAIN new = DOMAIN cards
      /\ \A i \in DOMAIN cards : new[i] = CardDecoded(cards[i])
  BY DEF RowDecoded, IsRow, Row
<1>2. ASSUME NEW list, DOMAIN list \subseteq Nat
      PROVE  ValidateCards(list) = OK <=> \A i \in DOMAIN list : ValidateCard(list[i]) = OK
  <2> PICK outcomes : outcomes = [i \in DOMAIN list |-> ValidateCard(list[i])]
    OBVIOUS
  <2>1. ValidateCards(list) = First(outcomes)
    BY DEF ValidateCards, Each
  <2>2. DOMAIN outcomes = DOMAIN list /\ \A i \in DOMAIN list : outcomes[i] = ValidateCard(list[i])
    OBVIOUS
  <2> QED BY ONLY <1>2, <2>1, <2>2, FirstStops
<1>3. DOMAIN cards \subseteq Nat /\ \A i \in DOMAIN cards : IsCard(cards[i])
  BY DEF IsRow, IsList
<1>4. \A i \in DOMAIN cards : ValidateCard(cards[i]) = OK
  BY <1>2, <1>3 DEF ValidateRow
<1>5. \A i \in DOMAIN cards :
        /\ cards[i].widget # NIL
        /\ ValidateCard(new[i]) = OK <=> NoIntegers(cards[i].widget.def.base.parameters)
  BY <1>1, <1>3, <1>4, CardPasses
<1>6. ValidateRow(RowDecoded(row)) = OK <=> \A i \in DOMAIN cards : ValidateCard(new[i]) = OK
  BY <1>1, <1>2, <1>3 DEF ValidateRow
<1> QED BY <1>5, <1>6 DEF Elements

LEMMA BoardPasses ==
  ASSUME NEW board, IsBoard(board), ValidateBoard(board) = OK
  PROVE  ValidateBoard(BoardDecoded(board)) = OK <=> ~HoldsInteger("Board", board)
<1> PICK rows, new :
      rows = board.rows /\ new = [i \in DOMAIN board.rows |-> RowDecoded(board.rows[i])]
  OBVIOUS
<1>1. /\ BoardDecoded(board).rows = new /\ DOMAIN new = DOMAIN rows /\ BoardDecoded(board).item = board.item
      /\ \A i \in DOMAIN rows : new[i] = RowDecoded(rows[i])
  BY DEF BoardDecoded, IsBoard, Board
<1>2. ASSUME NEW list, DOMAIN list \subseteq Nat
      PROVE  ValidateRows(list) = OK <=> \A i \in DOMAIN list : ValidateRow(list[i]) = OK
  <2> PICK outcomes : outcomes = [i \in DOMAIN list |-> ValidateRow(list[i])]
    OBVIOUS
  <2>1. ValidateRows(list) = First(outcomes)
    BY DEF ValidateRows, Each
  <2>2. DOMAIN outcomes = DOMAIN list /\ \A i \in DOMAIN list : outcomes[i] = ValidateRow(list[i])
    OBVIOUS
  <2> QED BY ONLY <1>2, <2>1, <2>2, FirstStops
<1>3. DOMAIN rows \subseteq Nat /\ \A i \in DOMAIN rows : IsRow(rows[i])
  BY DEF IsBoard, IsList
<1> PICK item1, before, after :
      /\ item1 = ValidateItem(board.item, TRUE)
      /\ before = ValidateRows(rows) /\ after = ValidateRows(new)
  OBVIOUS
<1>4. /\ ValidateBoard(board) = First(<<item1, before>>)
      /\ ValidateBoard(BoardDecoded(board)) = First(<<item1, after>>)
  BY <1>1 DEF ValidateBoard
<1>5. item1 = OK /\ before = OK
  BY ONLY <1>4, ValidateBoard(board) = OK, TwoOutcomes
<1>6. \A i \in DOMAIN rows : ValidateRow(rows[i]) = OK
  BY <1>2, <1>3, <1>5
<1>7. ASSUME NEW i \in DOMAIN rows
      PROVE  /\ \A card \in Elements(rows[i].cards) : card.widget # NIL
             /\ ValidateRow(new[i]) = OK
                  <=> \A card \in Elements(rows[i].cards) : NoIntegers(card.widget.def.base.parameters)
  BY <1>1, <1>3, <1>6, RowPasses
<1>8. CardsOf(board) = UNION {Elements(rows[i].cards) : i \in DOMAIN rows}
  BY DEF CardsOf, Elements
<1>9. WidgetsOf(board) = {card.widget : card \in CardsOf(board)}
  BY <1>7, <1>8 DEF WidgetsOf
<1>10. HoldsInteger("Board", board)
         <=> \E widget \in WidgetsOf(board) : ~NoIntegers(widget.def.base.parameters)
  BY DEF HoldsInteger, ParametersOf, NoIntegers
<1>11. HoldsInteger("Board", board)
         <=> \E card \in CardsOf(board) : ~NoIntegers(card.widget.def.base.parameters)
  BY ONLY <1>9, <1>10
<1>12. HoldsInteger("Board", board)
         <=> \E i \in DOMAIN rows :
               \E card \in Elements(rows[i].cards) : ~NoIntegers(card.widget.def.base.parameters)
  BY ONLY <1>8, <1>11
<1>13. after = OK <=> ~HoldsInteger("Board", board)
  <2>1. after = OK <=> \A i \in DOMAIN rows : ValidateRow(new[i]) = OK
    <3>1. DOMAIN new \subseteq Nat
      BY <1>1, <1>3
    <3> QED BY <1>1, <1>2, <3>1
  <2> QED BY ONLY <1>7, <1>12, <2>1
<1> QED BY ONLY <1>4, <1>5, <1>13, TwoOutcomes

LEMMA FolderCounted ==
  ASSUME NEW folder, DOMAIN folder = DOMAIN Folder, ValidateFolder(folder) = OK, NEW kept, kept = WithoutZeros(folder)
  PROVE  DOMAIN kept = DOMAIN Folder /\ ValidateFolder(kept) = OK
<1> PICK numbers : numbers = folder.numberOf
  OBVIOUS
<1> DEFINE counted == {i \in DOMAIN numbers : numbers[i] # 0}
<1>1. DOMAIN folder = {"kind", "name", "numberOf"}
  BY DEF Folder
<1> PICK rest : rest = [i \in counted |-> numbers[i]]
  OBVIOUS
<1>2. kept = [folder EXCEPT !.numberOf = rest]
  BY DEF WithoutZeros
<1>3. DOMAIN kept = DOMAIN Folder /\ kept.name = folder.name /\ kept.numberOf = rest
  BY <1>1, <1>2
<1>4. ~IsBlank(folder.name) /\ Trimmed(folder.name) /\ \A i \in DOMAIN numbers : numbers[i] >= 0
  BY MustIsNoPanic DEF ValidateFolder
<1>5. \A i \in DOMAIN rest : i \in DOMAIN numbers /\ rest[i] = numbers[i]
  OBVIOUS
<1>6. \A i \in DOMAIN rest : rest[i] >= 0
  BY ONLY <1>4, <1>5
<1>7. ValidateFolder(kept) = OK
  BY ONLY <1>3, <1>4, <1>6, MustIsNoPanic DEF ValidateFolder
<1> QED BY <1>3, <1>7

\* What is saved has passed, and passes again once it is loaded, but for an integer.
Passed(name, value) == name \in StoredRoots /\ IsOfType(name, value) /\ RulesOf(name, value) = OK

LEMMA DecodedItem ==
  ASSUME NEW name, NEW value, Passed(name, value), NEW decoded, decoded = Decoded(name, value)
  PROVE  RulesOf(name, decoded) = OK <=> ~HoldsInteger(name, value)
<1>1. CASE name \in {"Query", "CountingQuery"}
  <2>1. decoded = [value EXCEPT !.parameters = ParametersDecoded(@)]
    BY <1>1 DEF Decoded
  <2>2. IsQuery(value)
    BY <1>1 DEF Passed, IsOfType
  <2>3. HoldsInteger(name, value) <=> ~NoIntegers(value.parameters)
    BY <1>1 DEF HoldsInteger, ParametersOf, NoIntegers
  <2>4. RulesOf(name, value) = ValidateQuery(value) /\ RulesOf(name, decoded) = ValidateQuery(decoded)
    BY <1>1 DEF RulesOf
  <2>5. RulesOf(name, value) = OK
    BY DEF Passed
  <2> QED BY ONLY <2>1, <2>2, <2>3, <2>4, <2>5, QueryDecoded
<1>2. CASE name = "QueryInFolder"
  <2> PICK query : query = value.query
    OBVIOUS
  <2> PICK new : new = [query EXCEPT !.parameters = ParametersDecoded(@)]
    OBVIOUS
  <2>1. DOMAIN value = {"kind", "folderPath", "query"} /\ IsQuery(query)
    BY <1>2 DEF Passed, IsOfType, QueryInFolder
  <2>2. decoded = [value EXCEPT !.query = new]
    BY <1>2 DEF Decoded
  <2>3. decoded.query = new /\ decoded.folderPath = value.folderPath
    BY ONLY <2>1, <2>2
  <2>4. HoldsInteger(name, value) <=> ~NoIntegers(query.parameters)
    BY <1>2 DEF HoldsInteger, ParametersOf, NoIntegers
  <2> PICK path : path = Must(value.folderPath # Nothing)
    OBVIOUS
  <2> PICK old : old = ValidateQuery(query)
    OBVIOUS
  <2> PICK again : again = ValidateQuery(new)
    OBVIOUS
  <2>5. RulesOf(name, value) = First(<<path, old>>) /\ RulesOf(name, decoded) = First(<<path, again>>)
    BY <1>2, <2>3 DEF RulesOf, ValidateQueryInFolder
  <2>6. path = OK /\ old = OK
    BY <2>5, TwoOutcomes DEF Passed
  <2>7. RulesOf(name, decoded) = OK <=> again = OK
    BY <2>5, <2>6, TwoOutcomes
  <2>8. again = OK <=> NoIntegers(query.parameters)
    <3>1. new = [query EXCEPT !.parameters = ParametersDecoded(@)] /\ ValidateQuery(query) = OK
      BY <2>6
    <3>2. ValidateQuery(new) = OK <=> NoIntegers(query.parameters)
      BY ONLY <2>1, <3>1, QueryDecoded
    <3> QED BY <3>2
  <2> QED BY ONLY <2>4, <2>7, <2>8
<1>3. CASE name = "Entity"
  <2>1. ~HoldsInteger(name, value)
    BY <1>3 DEF HoldsInteger, ParametersOf
  <2>2. decoded = [value EXCEPT !.item.tags = <<>>]
    BY <1>3 DEF Decoded
  <2>3. DOMAIN value = DOMAIN Entity /\ DOMAIN value.item = DOMAIN Item /\ ValidateEntity(value) = OK
    BY <1>3 DEF Passed, IsOfType, RulesOf
  <2>4. ValidateEntity(decoded) = OK
    BY ONLY <2>2, <2>3, EntityDecoded
  <2> QED BY <1>3, <2>1, <2>4 DEF RulesOf
<1>4. CASE name = "Board"
  <2>1. IsBoard(value) /\ ValidateBoard(value) = OK /\ decoded = BoardDecoded(value)
    BY <1>4 DEF Passed, IsOfType, RulesOf, Decoded
  <2>2. ValidateBoard(decoded) = OK <=> ~HoldsInteger("Board", value)
    BY ONLY <2>1, BoardPasses
  <2> QED BY <1>4, <2>2 DEF RulesOf
<1>5. CASE name \notin {"Query", "CountingQuery", "QueryInFolder", "Entity", "Board"}
  <2>1. decoded = value
    BY <1>5 DEF Decoded
  <2>2. ~HoldsInteger(name, value)
    BY <1>5 DEF HoldsInteger, ParametersOf
  <2> QED BY <2>1, <2>2 DEF Passed
<1> QED BY <1>1, <1>2, <1>3, <1>4, <1>5

-----------------------------------------------------------------------------
(* The life of an item. *)

KeyMade(r) == \E names, key \in NameLists : r = RecordsetOf(names, key)

\* Where an item is, and what has been found out about it and its file.
LifeInv ==
  /\ step \in {"made", "checked", "saved", "loaded", "saved again"}
  /\ step = "made" => file = NIL /\ verdict = OK /\ IsOfType(root, item)
  /\ step = "saved" => Passed(root, file) /\ verdict = OK
  /\ step = "loaded" => Passed(root, file) /\ item = Decoded(root, file) /\ verdict = OK
  /\ step = "checked" => file = NIL \/ (verdict # OK /\ HoldsInteger(root, file))
  /\ step = "saved again" => verdict = OK
KeyInv ==
  flaw.how = "key" =>
    /\ root = "Recordset" /\ KeyMade(item)
    /\ step = "made" \/ (step = "checked" /\ verdict = ValidateRecordset(item))

LEMMA MadeKeysHaveShape ==
  ASSUME NEW names \in NameLists, NEW key \in NameLists, NEW r, r = RecordsetOf(names, key)
  PROVE  RecordsetShape(r, FALSE)
<1>1. PICK n \in Nat : DOMAIN key = 1..n
  BY RecordsetParts
<1>2. PICK m \in Nat : HasColumns(r.columnDefs, names, m)
  BY RecordsetParts
<1>3. IsSlice(key)
  BY <1>1, NameListsHaveEnds DEF IsSlice
<1>4. HasKey(r, key)
  BY RecordsetParts
<1>5. IsSlice(r.columnDefs)
  BY <1>2 DEF HasColumns, IsSlice
<1>6. KeyShape(r.columnDefs, r.primaryKey, FALSE)
  BY <1>3, <1>4 DEF HasKey, KeyShape
<1>7. DOMAIN r.alternateKeys = {}
  <2>1. r.alternateKeys = <<>>
    BY <1>4 DEF HasKey
  <2>2. \A list : list = <<>> => DOMAIN list = {}
    OBVIOUS
  <2> QED BY ONLY <2>1, <2>2
<1>8. ItemShape(r.item)
  <2>1. r.item.userIds = <<"u">>
    BY <1>4 DEF HasKey, TitledItem, Item
  <2> QED BY <2>1 DEF ItemShape, IsList
<1> QED BY <1>5, <1>6, <1>7, <1>8 DEF RecordsetShape, IsList

LEMMA LifeInit == ItemInit => LifeInv /\ KeyInv
<1> SUFFICES ASSUME ItemInit PROVE LifeInv /\ KeyInv
  OBVIOUS
<1>1. file = NIL /\ step = "made" /\ verdict = OK
  BY DEF ItemInit
<1>2. CASE \E made \in Inputs : root = made.root /\ item = made.item /\ flaw = made.flaw
  <2>1. IsOfType(root, item) /\ flaw.how # "key"
    BY <1>2, InputsAssumption
  <2> QED BY <1>1, <2>1 DEF LifeInv, KeyInv
<1>3. CASE \E names, key \in NameLists :
             root = "Recordset" /\ item = RecordsetOf(names, key) /\ flaw = [NoFlaw EXCEPT !.how = "key"]
  <2>1. root = "Recordset" /\ KeyMade(item)
    BY <1>3 DEF KeyMade
  <2>2. RecordsetShape(item, FALSE)
    BY <2>1, MadeKeysHaveShape DEF KeyMade
  <2>3. IsOfType(root, item)
    BY <2>1, <2>2 DEF IsOfType, Shaped
  <2> QED BY <1>1, <2>1, <2>3 DEF LifeInv, KeyInv
<1> QED BY <1>2, <1>3 DEF ItemInit

LEMMA CheckStep == LifeInv /\ KeyInv /\ Check => LifeInv' /\ KeyInv'
<1> SUFFICES ASSUME LifeInv, KeyInv, Check PROVE LifeInv' /\ KeyInv'
  OBVIOUS
<1>1. step = "made" /\ step' = "checked" /\ file' = file /\ verdict' = RulesOf(root, item)
      /\ UNCHANGED <<root, item, flaw>>
  BY DEF Check
<1>2. file' = NIL
  BY <1>1 DEF LifeInv
<1>3. LifeInv'
  BY <1>1, <1>2 DEF LifeInv
<1>4. ASSUME flaw.how = "key" PROVE root = "Recordset" /\ KeyMade(item) /\ verdict' = ValidateRecordset(item)
  <2>1. root = "Recordset" /\ KeyMade(item)
    BY <1>4 DEF KeyInv
  <2> QED BY <1>1, <2>1 DEF RulesOf
<1>5. KeyInv'
  BY <1>1, <1>4 DEF KeyInv, KeyMade
<1> QED BY <1>3, <1>5

\* What passes is saved in a form that passes.
LEMMA SavedPasses ==
  ASSUME NEW name \in StoredRoots, NEW value, IsOfType(name, value), RulesOf(name, value) = OK,
         NEW saved \in AfterValidation(name, value, OK)
  PROVE  Passed(name, saved) /\ (name # "Folder" => saved = value)
<1>1. CASE name = "Folder"
  <2>1. saved = WithoutZeros(value)
    BY <1>1 DEF AfterValidation
  <2>2. DOMAIN value = DOMAIN Folder /\ ValidateFolder(value) = OK
    BY <1>1 DEF IsOfType, RulesOf
  <2>3. DOMAIN saved = DOMAIN Folder /\ ValidateFolder(saved) = OK
    BY ONLY <2>1, <2>2, FolderCounted
  <2> QED BY <1>1, <2>3 DEF Passed, IsOfType, RulesOf, Shaped
<1>2. CASE name # "Folder"
  <2>1. saved = value
    BY <1>2 DEF AfterValidation
  <2> QED BY <2>1 DEF Passed
<1> QED BY <1>1, <1>2

LEMMA NotAKey == ASSUME KeyInv, root \in StoredRoots, UNCHANGED flaw PROVE KeyInv'
<1>1. flaw.how # "key"
  BY DEF KeyInv, StoredRoots
<1> QED BY <1>1 DEF KeyInv

LEMMA SaveStep == LifeInv /\ KeyInv /\ Save => LifeInv' /\ KeyInv'
<1> SUFFICES ASSUME LifeInv, KeyInv, Save PROVE LifeInv' /\ KeyInv'
  OBVIOUS
<1> PICK outcome : outcome = RulesOf(root, item)
  OBVIOUS
<1>1. /\ step = "made" /\ root \in StoredRoots /\ root' = root /\ flaw' = flaw /\ verdict' = outcome
      /\ step' = IF outcome = OK THEN "saved" ELSE "checked"
      /\ item' \in AfterValidation(root, item, outcome)
      /\ file' = IF outcome = OK THEN item' ELSE file
  BY DEF Save, SaveJSONFile
<1>2. file = NIL /\ IsOfType(root, item)
  BY <1>1 DEF LifeInv
<1>3. CASE outcome = OK
  <2>1. step' = "saved" /\ file' = item'
    BY <1>1, <1>3
  <2>2. Passed(root, item')
    BY <1>1, <1>2, <1>3, SavedPasses
  <2>3. Passed(root, file)'
    BY <1>1, <2>1, <2>2
  <2> QED BY <1>1, <2>1, <2>3, NotAKey DEF LifeInv
<1>4. CASE outcome # OK
  <2>1. step' = "checked" /\ file' = NIL
    BY <1>1, <1>2, <1>4
  <2> QED BY <1>1, <2>1, NotAKey DEF LifeInv
<1> QED BY <1>3, <1>4

LEMMA LoadStep == LifeInv /\ KeyInv /\ Load => LifeInv' /\ KeyInv'
<1> SUFFICES ASSUME LifeInv, KeyInv, Load PROVE LifeInv' /\ KeyInv'
  OBVIOUS
<1>1. step = "saved" /\ step' = "loaded" /\ item' = Decoded(root, file) /\ UNCHANGED <<root, flaw, file, verdict>>
  BY DEF Load
<1>2. Passed(root, file) /\ root \in StoredRoots
  BY <1>1 DEF LifeInv, Passed
<1>3. Passed(root, file)' /\ (item = Decoded(root, file))'
  BY <1>1, <1>2
<1>4. LifeInv'
  BY <1>1, <1>3 DEF LifeInv
<1> QED BY <1>1, <1>2, <1>4, NotAKey

LEMMA SaveAgainStep == LifeInv /\ KeyInv /\ SaveAgain => LifeInv' /\ KeyInv'
<1> SUFFICES ASSUME LifeInv, KeyInv, SaveAgain PROVE LifeInv' /\ KeyInv'
  OBVIOUS
<1> PICK outcome : outcome = RulesOf(root, item)
  OBVIOUS
<1>1. /\ step = "loaded" /\ root' = root /\ flaw' = flaw /\ verdict' = outcome
      /\ step' = IF outcome = OK THEN "saved again" ELSE "checked"
      /\ item' \in AfterValidation(root, item, outcome)
      /\ file' = IF outcome = OK THEN item' ELSE file
  BY DEF SaveAgain, SaveJSONFile
<1>2. Passed(root, file) /\ item = Decoded(root, file) /\ root \in StoredRoots
  BY <1>1 DEF LifeInv, Passed
<1>3. outcome = OK <=> ~HoldsInteger(root, file)
  BY <1>2, DecodedItem
<1>4. CASE outcome = OK
  <2>1. step' = "saved again" /\ verdict' = OK
    BY <1>1, <1>4
  <2> QED BY <1>1, <1>2, <2>1, NotAKey DEF LifeInv
<1>5. CASE outcome # OK
  <2>1. step' = "checked" /\ file' = file /\ verdict' # OK
    BY <1>1, <1>5
  <2>2. HoldsInteger(root, file)'
    BY <1>1, <1>3, <1>5, <2>1 DEF HoldsInteger, ParametersOf
  <2> QED BY <1>1, <1>2, <2>1, <2>2, NotAKey DEF LifeInv
<1> QED BY <1>4, <1>5

\* What an item on its way through the store has been found to be.
THEOREM LifeInvariance == ItemSpec => [](LifeInv /\ KeyInv)
<1>1. LifeInv /\ KeyInv /\ UNCHANGED itemVars => LifeInv' /\ KeyInv'
  BY DEF LifeInv, KeyInv, KeyMade, itemVars
<1>2. LifeInv /\ KeyInv /\ [ItemNext]_itemVars => LifeInv' /\ KeyInv'
  BY <1>1, CheckStep, SaveStep, LoadStep, SaveAgainStep DEF ItemNext
<1> QED BY <1>2, LifeInit, PTL DEF ItemSpec

\* An item that was accepted and saved is accepted again once loaded, unless it is a query, or a
\* board with a widget, one of whose integers has a default, and that is always refused;
\* whatever items are made.
THEOREM SavedItemsPassAgain == ItemSpec => SavedItemsStaySound
<1>1. ASSUME LifeInv, LifeInv', [ItemNext]_itemVars, verdict' # OK, file' # NIL
      PROVE  HoldsInteger(root, file')
  <2>1. step' = "checked" /\ HoldsInteger(root', file')
    BY <1>1 DEF LifeInv, HoldsInteger, ParametersOf
  <2>2. root' = root
    BY <1>1 DEF ItemNext, Check, Save, SaveAgain, SaveJSONFile, Load, itemVars
  <2> QED BY <2>1, <2>2
<1>2. ASSUME LifeInv, SaveAgain, verdict' = OK
      PROVE  ~HoldsInteger(root, file)
  <2> PICK outcome : outcome = RulesOf(root, item)
    OBVIOUS
  <2>1. step = "loaded" /\ verdict' = outcome
    BY <1>2 DEF SaveAgain, SaveJSONFile
  <2>2. Passed(root, file) /\ item = Decoded(root, file)
    BY <1>2, <2>1 DEF LifeInv
  <2> QED BY <1>2, <2>1, <2>2, DecodedItem
<1>3. LifeInv /\ LifeInv' /\ [ItemNext]_itemVars => [OnlyIntegersRefused]_itemVars
  BY <1>1, <1>2 DEF OnlyIntegersRefused
<1> QED BY <1>3, LifeInvariance, PTL DEF ItemSpec, SavedItemsStaySound

\* A key of distinct columns in the order of the recordset is accepted, however many there are.
THEOREM KeysInOrderPass == ItemSpec => []KeysInOrderAccepted
<1>1. ASSUME LifeInv, KeyInv, Validated, flaw.how = "key",
             LET names == [i \in DOMAIN item.columnDefs |-> item.columnDefs[i].name]
             IN  NoneRepeats(names) /\ InColumnOrder(names, item.primaryKey.names)
      PROVE  verdict = OK
  <2>1. verdict = ValidateRecordset(item)
    BY <1>1 DEF KeyInv, Validated
  <2>2. PICK names \in NameLists, key \in NameLists : item = RecordsetOf(names, key)
    BY <1>1 DEF KeyInv, KeyMade
  <2>3. PICK m \in Nat : HasColumns(item.columnDefs, names, m)
    BY <2>2, RecordsetParts
  <2>4. PICK n \in Nat : DOMAIN key = 1..n
    BY <2>2, RecordsetParts
  <2> PICK columns : columns = item.columnDefs
    OBVIOUS
  <2>5. item.primaryKey.names = key
    <3>1. HasKey(item, key)
      BY <2>2, RecordsetParts
    <3> QED BY ONLY <3>1 DEF HasKey
  <2>6. DOMAIN columns = 1..m /\ Len(columns) = m
    BY <2>3 DEF HasColumns
  <2> PICK named : named = [i \in DOMAIN columns |-> columns[i].name]
    OBVIOUS
  <2>7. NoneRepeats(named) /\ InColumnOrder(named, key) /\ DOMAIN named = 1..m
        /\ \A i \in 1..m : named[i] = columns[i].name
    BY <1>1, <2>5, <2>6
  <2>8. \A i, j \in 1..m : columns[i].name = columns[j].name => i = j
    BY <2>7 DEF NoneRepeats
  <2>9. PICK at \in [1..n -> 1..m] : /\ \A i \in 1..n : key[i] = named[at[i]]
                                     /\ \A i, j \in 1..n : i < j => at[i] < at[j]
    BY <2>4, <2>7 DEF InColumnOrder
  <2>10. \A i \in 1..n : key[i] = columns[at[i]].name
    BY <2>7, <2>9
  <2>11. NamesInOrder(columns, m, key, n, at)
    BY <2>4, <2>6, <2>8, <2>9, <2>10 DEF NamesInOrder
  <2>12. ValidateKeyColumnNames(columns, key) = OK
    BY ONLY <2>11, KeyInOrderPasses
  <2> QED BY <2>1, <2>2, <2>12, OnlyItsKey
<1>2. LifeInv /\ KeyInv => KeysInOrderAccepted
  BY <1>1 DEF KeysInOrderAccepted
<1> QED BY <1>2, LifeInvariance, PTL

\* The rules of a recordset's key panic only for a key that has at least two names more than
\* the recordset has columns, however many columns and names there are.
THEOREM LongKeysAlonePanic == ItemSpec => []OnlyLongKeysPanic
<1>1. ASSUME LifeInv, KeyInv, flaw.how = "key", verdict = Panic
      PROVE  Len(item.primaryKey.names) > Len(item.columnDefs) + 1
  <2>0. OK # Panic
    BY DEF OK, Panic
  <2>1. verdict = ValidateRecordset(item) /\ KeyMade(item)
    BY <1>1, <2>0 DEF KeyInv, LifeInv
  <2>2. PICK names \in NameLists, key \in NameLists : item = RecordsetOf(names, key)
    BY <2>1 DEF KeyMade
  <2>3. PICK m \in Nat : HasColumns(item.columnDefs, names, m)
    BY <2>2, RecordsetParts
  <2>4. PICK n \in Nat : DOMAIN key = 1..n
    BY <2>2, RecordsetParts
  <2>5. item.primaryKey.names = key
    <3>1. HasKey(item, key)
      BY <2>2, RecordsetParts
    <3> QED BY ONLY <3>1 DEF HasKey
  <2>6. Len(item.columnDefs) = m
    BY <2>3 DEF HasColumns
  <2>7. ValidateKeyColumnNames(item.columnDefs, key) = Panic
    BY <1>1, <2>0, <2>1, <2>2, OnlyItsKey
  <2>8. \E i \in 1..n : i > m + 1
    BY <2>4, <2>6, <2>7, KeyNamesPass
  <2>9. Len(key) = n
    BY <2>4, NameListsHaveEnds
  <2> QED BY <2>5, <2>6, <2>8, <2>9
<1>2. LifeInv /\ KeyInv => OnlyLongKeysPanic
  BY <1>1 DEF OnlyLongKeysPanic
<1> QED BY <1>2, LifeInvariance, PTL

-----------------------------------------------------------------------------
(* Where validation panics.  Of an item of its type, a rule panics only if *)
(* the item is not safe, and if it accepts the item that is safe.          *)

Tells(outcome, safe) == /\ outcome = Panic => ~safe
                        /\ outcome = OK => safe

LEMMA Differ == OK # Panic /\ OK # Error /\ Error # Panic
BY DEF OK, Panic, Error

LEMMA Outcomes ==
  ASSUME NEW outcomes, IsList(outcomes)
  PROVE  /\ First(outcomes) = OK => \A i \in DOMAIN outcomes : outcomes[i] = OK
         /\ First(outcomes) = Panic => \E i \in DOMAIN outcomes : outcomes[i] = Panic
BY Differ, FirstStops DEF IsList

LEMMA TwoStops ==
  ASSUME NEW a, NEW b, NEW outcome, outcome = First(<<a, b>>)
  PROVE  /\ outcome = OK => a = OK /\ b = OK
         /\ outcome = Panic => a = Panic \/ b = Panic
<1> PICK outcomes : outcomes = <<a, b>>
  OBVIOUS
<1>1. DOMAIN outcomes = 1..2 /\ outcomes[1] = a /\ outcomes[2] = b
  OBVIOUS
<1>2. outcome = First(outcomes)
  OBVIOUS
<1>3. IsList(outcomes)
  BY ONLY <1>1 DEF IsList
<1>4. outcome = OK => \A i \in 1..2 : outcomes[i] = OK
  BY ONLY <1>1, <1>2, <1>3, Outcomes
<1>5. outcome = Panic => \E i \in 1..2 : outcomes[i] = Panic
  BY ONLY <1>1, <1>2, <1>3, Outcomes
<1> QED BY ONLY <1>1, <1>4, <1>5

LEMMA ThreeStops ==
  ASSUME NEW a, NEW b, NEW c, NEW outcome, outcome = First(<<a, b, c>>)
  PROVE  /\ outcome = OK => a = OK /\ b = OK /\ c = OK
         /\ outcome = Panic => a = Panic \/ b = Panic \/ c = Panic
<1> PICK outcomes : outcomes = <<a, b, c>>
  OBVIOUS
<1>1. DOMAIN outcomes = 1..3 /\ outcomes[1] = a /\ outcomes[2] = b /\ outcomes[3] = c
  OBVIOUS
<1>2. outcome = First(outcomes)
  OBVIOUS
<1>3. IsList(outcomes)
  BY ONLY <1>1 DEF IsList
<1>4. outcome = OK => \A i \in 1..3 : outcomes[i] = OK
  BY ONLY <1>1, <1>2, <1>3, Outcomes
<1>5. outcome = Panic => \E i \in 1..3 : outcomes[i] = Panic
  BY ONLY <1>1, <1>2, <1>3, Outcomes
<1> QED BY ONLY <1>1, <1>4, <1>5

LEMMA FourStops ==
  ASSUME NEW a, NEW b, NEW c, NEW d, NEW outcome, outcome = First(<<a, b, c, d>>)
  PROVE  /\ outcome = OK => a = OK /\ b = OK /\ c = OK /\ d = OK
         /\ outcome = Panic => a = Panic \/ b = Panic \/ c = Panic \/ d = Panic
<1> PICK outcomes : outcomes = <<a, b, c, d>>
  OBVIOUS
<1>1. /\ DOMAIN outcomes = 1..4
      /\ outcomes[1] = a /\ outcomes[2] = b /\ outcomes[3] = c /\ outcomes[4] = d
  OBVIOUS
<1>2. outcome = First(outcomes)
  OBVIOUS
<1>3. IsList(outcomes)
  BY ONLY <1>1 DEF IsList
<1>4. outcome = OK => \A i \in 1..4 : outcomes[i] = OK
  BY ONLY <1>1, <1>2, <1>3, Outcomes
<1>5. outcome = Panic => \E i \in 1..4 : outcomes[i] = Panic
  BY ONLY <1>1, <1>2, <1>3, Outcomes
<1> QED BY ONLY <1>1, <1>4, <1>5

LEMMA FiveStops ==
  ASSUME NEW a, NEW b, NEW c, NEW d, NEW e, NEW outcome, outcome = First(<<a, b, c, d, e>>)
  PROVE  /\ outcome = OK => a = OK /\ b = OK /\ c = OK /\ d = OK /\ e = OK
         /\ outcome = Panic => a = Panic \/ b = Panic \/ c = Panic \/ d = Panic \/ e = Panic
<1> PICK outcomes : outcomes = <<a, b, c, d, e>>
  OBVIOUS
<1>1. /\ DOMAIN outcomes = 1..5
      /\ outcomes[1] = a /\ outcomes[2] = b /\ outcomes[3] = c /\ outcomes[4] = d
      /\ outcomes[5] = e
  OBVIOUS
<1>2. outcome = First(outcomes)
  OBVIOUS
<1>3. IsList(outcomes)
  BY ONLY <1>1 DEF IsList
<1>4. outcome = OK => \A i \in 1..5 : outcomes[i] = OK
  BY ONLY <1>1, <1>2, <1>3, Outcomes
<1>5. outcome = Panic => \E i \in 1..5 : outcomes[i] = Panic
  BY ONLY <1>1, <1>2, <1>3, Outcomes
<1> QED BY ONLY <1>1, <1>4, <1>5

LEMMA SixStops ==
  ASSUME NEW a, NEW b, NEW c, NEW d, NEW e, NEW f,
         NEW outcome, outcome = First(<<a, b, c, d, e, f>>)
  PROVE  /\ outcome = OK => a = OK /\ b = OK /\ c = OK /\ d = OK /\ e = OK /\ f = OK
         /\ outcome = Panic => a = Panic \/ b = Panic \/ c = Panic \/ d = Panic \/ e = Panic \/ f = Panic
<1> PICK outcomes : outcomes = <<a, b, c, d, e, f>>
  OBVIOUS
<1>1. /\ DOMAIN outcomes = 1..6
      /\ outcomes[1] = a /\ outcomes[2] = b /\ outcomes[3] = c /\ outcomes[4] = d
      /\ outcomes[5] = e /\ outcomes[6] = f
  OBVIOUS
<1>2. outcome = First(outcomes)
  OBVIOUS
<1>3. IsList(outcomes)
  BY ONLY <1>1 DEF IsList
<1>4. outcome = OK => \A i \in 1..6 : outcomes[i] = OK
  BY ONLY <1>1, <1>2, <1>3, Outcomes
<1>5. outcome = Panic => \E i \in 1..6 : outcomes[i] = Panic
  BY ONLY <1>1, <1>2, <1>3, Outcomes
<1> QED BY ONLY <1>1, <1>4, <1>5

LEMMA EightStops ==
  ASSUME NEW a, NEW b, NEW c, NEW d, NEW e, NEW f, NEW g, NEW h,
         NEW outcome, outcome = First(<<a, b, c, d, e, f, g, h>>)
  PROVE  /\ outcome = OK => a = OK /\ b = OK /\ c = OK /\ d = OK /\ e = OK /\ f = OK /\ g = OK /\ h = OK
         /\ outcome = Panic => a = Panic \/ b = Panic \/ c = Panic \/ d = Panic
              \/ e = Panic \/ f = Panic \/ g = Panic \/ h = Panic
<1> PICK outcomes : outcomes = <<a, b, c, d, e, f, g, h>>
  OBVIOUS
<1>1. /\ DOMAIN outcomes = 1..8
      /\ outcomes[1] = a /\ outcomes[2] = b /\ outcomes[3] = c /\ outcomes[4] = d
      /\ outcomes[5] = e /\ outcomes[6] = f /\ outcomes[7] = g /\ outcomes[8] = h
  OBVIOUS
<1>2. outcome = First(outcomes)
  OBVIOUS
<1>3. IsList(outcomes)
  BY ONLY <1>1 DEF IsList
<1>4. outcome = OK => \A i \in 1..8 : outcomes[i] = OK
  BY ONLY <1>1, <1>2, <1>3, Outcomes
<1>5. outcome = Panic => \E i \in 1..8 : outcomes[i] = Panic
  BY ONLY <1>1, <1>2, <1>3, Outcomes
<1> QED BY ONLY <1>1, <1>4, <1>5

LEMMA MustNeverPanics == \A condition : Must(condition) # Panic
BY DEF Must, OK, Error, Panic

LEMMA BriefIsSafe == ASSUME NEW brief, NEW isTitleRequired PROVE ValidateBrief(brief, isTitleRequired) # Panic
<1> PICK folder : folder = IF brief.folder = <<>> THEN OK ELSE ValidateFolderPath(brief.folder)
  OBVIOUS
<1>1. folder # Panic
  BY Differ, MustNeverPanics DEF ValidateFolderPath
<1>2. ValidateStringField(brief.title, isTitleRequired) # Panic /\ ValidateTags(brief.tags) # Panic
  BY MustNeverPanics DEF ValidateStringField, ValidateTags
<1>3. ValidateBrief(brief, isTitleRequired) =
        First(<<Must(brief.id # Nothing), ValidateStringField(brief.title, isTitleRequired),
                ValidateTags(brief.tags), folder>>)
  BY DEF ValidateBrief
<1> QED BY ONLY <1>1, <1>2, <1>3, MustNeverPanics, FourStops

LEMMA ItemIsSafe ==
  ASSUME NEW value, ItemShape(value), NEW isTitleRequired
  PROVE  ValidateItem(value, isTitleRequired) # Panic
<1> PICK users : users = [i \in DOMAIN value.userIds |-> ValidateUserID(value.userIds[i])]
  OBVIOUS
<1>1. IsList(users) /\ \A i \in DOMAIN users : users[i] # Panic
  BY MustNeverPanics DEF ItemShape, IsList, ValidateUserID
<1>2. First(users) # Panic
  BY ONLY <1>1, Outcomes
<1>3. ValidateItem(value, isTitleRequired) =
        First(<<ValidateBrief(value, isTitleRequired), Must(value.access \in AccessLevels \cup {Nothing}),
                First(users), Must(NoneRepeats(value.userIds))>>)
  BY DEF ValidateItem, Each
<1> QED BY ONLY <1>2, <1>3, BriefIsSafe, MustNeverPanics, FourStops

\* Parts in which no pointer is followed.
LEMMA ServerRefIsSafe == ASSUME NEW server PROVE ValidateServerRef(server) # Panic
BY MustNeverPanics, FourStops DEF ValidateServerRef

LEMMA EnvDbServerIsSafe == ASSUME NEW server PROVE ValidateEnvDbServer(server) # Panic
<1> PICK a, b, c :
      /\ a = ValidateServerRef(server.server)
      /\ b = Must(\A i \in DOMAIN server.catalogIds : ~IsBlank(server.catalogIds[i]))
      /\ c = Must(NoneRepeats(server.catalogIds))
  OBVIOUS
<1>1. a # Panic /\ b # Panic /\ c # Panic
  BY ServerRefIsSafe, MustNeverPanics
<1>2. ValidateEnvDbServer(server) = First(<<a, b, c>>)
  BY DEF ValidateEnvDbServer
<1> QED BY ONLY <1>1, <1>2, ThreeStops

LEMMA PatternIsSafe == ASSUME NEW pattern PROVE ValidatePattern(pattern) # Panic
BY MustNeverPanics, ThreeStops DEF ValidatePattern

LEMMA ForeignKeyIsSafe == ASSUME NEW key PROVE ValidateForeignKey(key) # Panic
BY MustNeverPanics DEF ValidateForeignKey

LEMMA ColumnInfoIsSafe == ASSUME NEW column PROVE ValidateColumnInfo(column) # Panic
<1>1. IfAny(column.characterSet, ValidateCharacterSet) # Panic /\ IfAny(column.collation, ValidateCollation) # Panic
  BY Differ, MustNeverPanics DEF IfAny, ValidateCharacterSet, ValidateCollation
<1> QED BY <1>1, MustNeverPanics, FourStops DEF ValidateColumnInfo, ValidateColumnProps

LEMMA EnvStateIsSafe == ASSUME NEW state PROVE ValidateEnvState(state) # Panic
BY MustNeverPanics DEF ValidateEnvState

LEMMA ModelCatalogIsSafe == ASSUME NEW catalog PROVE ValidateModelCatalog(catalog) # Panic
BY MustNeverPanics DEF ValidateModelCatalog

LEMMA ParametersAreSafe == ASSUME NEW list, IsList(list) PROVE ValidateParameters(list) # Panic
<1> PICK outcomes : outcomes = [i \in DOMAIN list |-> ValidateParameter(list[i])]
  OBVIOUS
<1>1. IsList(outcomes) /\ \A i \in DOMAIN outcomes : outcomes[i] # Panic
  BY MustNeverPanics DEF IsList, ValidateParameter
<1>2. ValidateParameters(list) = First(outcomes)
  BY DEF ValidateParameters, Each
<1> QED BY ONLY <1>1, <1>2, Outcomes

(* Environments and entities. *)

LEMMA EnvDbServersTell ==
  ASSUME NEW list, PointersTo(list, AnyShape, FALSE)
  PROVE  Tells(ValidateEnvDbServers(list), PointersTo(list, AnyShape, TRUE))
<1> PICK outcomes : outcomes = [i \in DOMAIN list |-> IF list[i] = NIL THEN Panic ELSE ValidateEnvDbServer(list[i])]
  OBVIOUS
<1>1. IsList(outcomes) /\ DOMAIN outcomes = DOMAIN list
  BY DEF PointersTo, IsList
<1>2. \A i \in DOMAIN list : Tells(outcomes[i], list[i] # NIL)
  BY Differ, EnvDbServerIsSafe DEF Tells
<1>3. Tells(First(outcomes), \A i \in DOMAIN list : list[i] # NIL)
  BY ONLY <1>1, <1>2, Outcomes DEF Tells
<1>4. ValidateEnvDbServers(list) = First(outcomes)
  BY DEF ValidateEnvDbServers, EachFollowed, Follow
<1> QED BY ONLY <1>1, <1>3, <1>4 DEF Tells, PointersTo, PointerTo, AnyShape, IsList

LEMMA EnvironmentTells ==
  ASSUME NEW env, EnvironmentShape(env, FALSE)
  PROVE  Tells(ValidateEnvironment(env), EnvironmentShape(env, TRUE))
<1> PICK a, b :
      /\ a = ValidateItem(env.item, FALSE)
      /\ b = ValidateEnvDbServers(env.dbServers)
  OBVIOUS
<1>1. a # Panic
  BY ItemIsSafe DEF EnvironmentShape
<1>2. Tells(b, PointersTo(env.dbServers, AnyShape, TRUE))
  BY EnvDbServersTell DEF EnvironmentShape
<1>3. ValidateEnvironment(env) = First(<<a, b>>)
  BY DEF ValidateEnvironment
<1>4. EnvironmentShape(env, TRUE) <=> PointersTo(env.dbServers, AnyShape, TRUE)
  BY DEF EnvironmentShape
<1>5. /\ ValidateEnvironment(env) = OK => b = OK
      /\ ValidateEnvironment(env) = Panic => b = Panic
  BY ONLY <1>1, <1>3, TwoStops
<1> QED BY ONLY <1>2, <1>4, <1>5 DEF Tells

LEMMA EnvironmentsTell ==
  ASSUME NEW list, PointersTo(list, EnvironmentShape, FALSE)
  PROVE  Tells(ValidateEnvironments(list), PointersTo(list, EnvironmentShape, TRUE))
<1> PICK outcomes : outcomes = [i \in DOMAIN list |-> IF list[i] = NIL THEN Panic ELSE ValidateEnvironment(list[i])]
  OBVIOUS
<1>1. IsList(outcomes) /\ DOMAIN outcomes = DOMAIN list
  BY DEF PointersTo, IsList
<1>2. ASSUME NEW i \in DOMAIN list
      PROVE  Tells(outcomes[i], list[i] # NIL /\ EnvironmentShape(list[i], TRUE))
  <2>1. list[i] # NIL => EnvironmentShape(list[i], FALSE)
    BY DEF PointersTo, PointerTo
  <2>2. list[i] # NIL => Tells(ValidateEnvironment(list[i]), EnvironmentShape(list[i], TRUE))
    BY ONLY <2>1, EnvironmentTells
  <2>3. outcomes[i] = IF list[i] = NIL THEN Panic ELSE ValidateEnvironment(list[i])
    OBVIOUS
  <2> QED BY ONLY <2>2, <2>3, Differ DEF Tells
<1>3. Tells(First(outcomes), \A i \in DOMAIN list : list[i] # NIL /\ EnvironmentShape(list[i], TRUE))
  BY ONLY <1>1, <1>2, Outcomes DEF Tells
<1>4. ValidateEnvironments(list) = First(outcomes)
  BY DEF ValidateEnvironments, EachFollowed, Follow
<1> QED BY ONLY <1>1, <1>3, <1>4 DEF Tells, PointersTo, PointerTo, IsList

LEMMA PatternsTell ==
  ASSUME NEW list, PointersTo(list, AnyShape, FALSE)
  PROVE  Tells(ValidatePatterns(list), PointersTo(list, AnyShape, TRUE))
<1> PICK outcomes : outcomes = [i \in DOMAIN list |-> IF list[i] = NIL THEN Panic ELSE ValidatePattern(list[i])]
  OBVIOUS
<1>1. IsList(outcomes) /\ DOMAIN outcomes = DOMAIN list
  BY DEF PointersTo, IsList
<1>2. \A i \in DOMAIN list : Tells(outcomes[i], list[i] # NIL)
  BY Differ, PatternIsSafe DEF Tells
<1>3. Tells(First(outcomes), \A i \in DOMAIN list : list[i] # NIL)
  BY ONLY <1>1, <1>2, Outcomes DEF Tells
<1>4. ValidatePatterns(list) = First(outcomes)
  BY DEF ValidatePatterns, EachFollowed, Follow
<1> QED BY ONLY <1>1, <1>3, <1>4 DEF Tells, PointersTo, PointerTo, AnyShape, IsList

LEMMA FieldTells ==
  ASSUME NEW field, FieldShape(field, FALSE)
  PROVE  Tells(ValidateEntityField(field), FieldShape(field, TRUE))
<1> PICK a, b :
      /\ a = Must(field.id # Nothing /\ field.type \in KnownTypes)
      /\ b = ValidatePatterns(field.namePatterns)
  OBVIOUS
<1>1. a # Panic
  BY MustNeverPanics
<1>2. Tells(b, PointersTo(field.namePatterns, AnyShape, TRUE))
  BY PatternsTell DEF FieldShape
<1>3. ValidateEntityField(field) = First(<<a, b>>)
  BY DEF ValidateEntityField
<1>4. FieldShape(field, TRUE) <=> PointersTo(field.namePatterns, AnyShape, TRUE)
  BY DEF FieldShape
<1>5. /\ ValidateEntityField(field) = OK => b = OK
      /\ ValidateEntityField(field) = Panic => b = Panic
  BY ONLY <1>1, <1>3, TwoStops
<1> QED BY ONLY <1>2, <1>4, <1>5 DEF Tells

LEMMA FieldsTell ==
  ASSUME NEW list, PointersTo(list, FieldShape, FALSE)
  PROVE  Tells(ValidateEntityFields(list), PointersTo(list, FieldShape, TRUE))
<1> PICK outcomes : outcomes = [i \in DOMAIN list |-> IF list[i] = NIL THEN Panic ELSE ValidateEntityField(list[i])]
  OBVIOUS
<1>1. IsList(outcomes) /\ DOMAIN outcomes = DOMAIN list
  BY DEF PointersTo, IsList
<1>2. ASSUME NEW i \in DOMAIN list
      PROVE  Tells(outcomes[i], list[i] # NIL /\ FieldShape(list[i], TRUE))
  <2>1. list[i] # NIL => FieldShape(list[i], FALSE)
    BY DEF PointersTo, PointerTo
  <2>2. list[i] # NIL => Tells(ValidateEntityField(list[i]), FieldShape(list[i], TRUE))
    BY ONLY <2>1, FieldTells
  <2>3. outcomes[i] = IF list[i] = NIL THEN Panic ELSE ValidateEntityField(list[i])
    OBVIOUS
  <2> QED BY ONLY <2>2, <2>3, Differ DEF Tells
<1>3. Tells(First(outcomes), \A i \in DOMAIN list : list[i] # NIL /\ FieldShape(list[i], TRUE))
  BY ONLY <1>1, <1>2, Outcomes DEF Tells
<1>4. ValidateEntityFields(list) = First(outcomes)
  BY DEF ValidateEntityFields, EachFollowed, Follow
<1> QED BY ONLY <1>1, <1>3, <1>4 DEF Tells, PointersTo, PointerTo, IsList

LEMMA EntityTells ==
  ASSUME NEW entity, EntityShape(entity, FALSE)
  PROVE  Tells(ValidateEntity(entity), EntityShape(entity, TRUE))
<1> PICK a, b, c :
      /\ a = ValidateItem(entity.item, FALSE)
      /\ b = ValidateEntityFields(entity.fields)
      /\ c = ValidateTags(entity.tags)
  OBVIOUS
<1>1. a # Panic
  BY ItemIsSafe DEF EntityShape
<1>2. Tells(b, PointersTo(entity.fields, FieldShape, TRUE))
  BY FieldsTell DEF EntityShape
<1>3. c # Panic
  BY MustNeverPanics DEF ValidateTags
<1>4. ValidateEntity(entity) = First(<<a, b, c>>)
  BY DEF ValidateEntity
<1>5. EntityShape(entity, TRUE) <=> PointersTo(entity.fields, FieldShape, TRUE)
  BY DEF EntityShape
<1>6. /\ ValidateEntity(entity) = OK => b = OK
      /\ ValidateEntity(entity) = Panic => b = Panic
  BY ONLY <1>1, <1>3, <1>4, ThreeStops
<1> QED BY ONLY <1>2, <1>5, <1>6 DEF Tells

LEMMA EntitiesTell ==
  ASSUME NEW list, PointersTo(list, EntityShape, FALSE)
  PROVE  Tells(ValidateEntities(list), PointersTo(list, EntityShape, TRUE))
<1> PICK outcomes : outcomes = [i \in DOMAIN list |-> IF list[i] = NIL THEN Panic ELSE ValidateEntity(list[i])]
  OBVIOUS
<1>1. IsList(outcomes) /\ DOMAIN outcomes = DOMAIN list
  BY DEF PointersTo, IsList
<1>2. ASSUME NEW i \in DOMAIN list
      PROVE  Tells(outcomes[i], list[i] # NIL /\ EntityShape(list[i], TRUE))
  <2>1. list[i] # NIL => EntityShape(list[i], FALSE)
    BY DEF PointersTo, PointerTo
  <2>2. list[i] # NIL => Tells(ValidateEntity(list[i]), EntityShape(list[i], TRUE))
    BY ONLY <2>1, EntityTells
  <2>3. outcomes[i] = IF list[i] = NIL THEN Panic ELSE ValidateEntity(list[i])
    OBVIOUS
  <2> QED BY ONLY <2>2, <2>3, Differ DEF Tells
<1>3. Tells(First(outcomes), \A i \in DOMAIN list : list[i] # NIL /\ EntityShape(list[i], TRUE))
  BY ONLY <1>1, <1>2, Outcomes DEF Tells
<1>4. ValidateEntities(list) = First(outcomes)
  BY DEF ValidateEntities, EachFollowed, Follow
<1> QED BY ONLY <1>1, <1>3, <1>4 DEF Tells, PointersTo, PointerTo, IsList

(* Tables and what they belong to. *)

LEMMA ColumnsTell ==
  ASSUME NEW list, PointersTo(list, AnyShape, FALSE)
  PROVE  Tells(ValidateTableColumns(list), PointersTo(list, AnyShape, TRUE))
<1> PICK outcomes : outcomes = [i \in DOMAIN list |-> IF list[i] = NIL THEN Panic ELSE ValidateColumnInfo(list[i])]
  OBVIOUS
<1>1. IsList(outcomes) /\ DOMAIN outcomes = DOMAIN list
  BY DEF PointersTo, IsList
<1>2. \A i \in DOMAIN list : Tells(outcomes[i], list[i] # NIL)
  BY Differ, ColumnInfoIsSafe DEF Tells
<1>3. Tells(First(outcomes), \A i \in DOMAIN list : list[i] # NIL)
  BY ONLY <1>1, <1>2, Outcomes DEF Tells
<1>4. ValidateTableColumns(list) = First(outcomes)
  BY DEF ValidateTableColumns, EachFollowed, Follow
<1> QED BY ONLY <1>1, <1>3, <1>4 DEF Tells, PointersTo, PointerTo, AnyShape, IsList

LEMMA ForeignKeysTell ==
  ASSUME NEW list, PointersTo(list, AnyShape, FALSE)
  PROVE  Tells(ValidateForeignKeys(list), PointersTo(list, AnyShape, TRUE))
<1> PICK outcomes : outcomes = [i \in DOMAIN list |-> IF list[i] = NIL THEN Panic ELSE ValidateForeignKey(list[i])]
  OBVIOUS
<1>1. IsList(outcomes) /\ DOMAIN outcomes = DOMAIN list
  BY DEF PointersTo, IsList
<1>2. \A i \in DOMAIN list : Tells(outcomes[i], list[i] # NIL)
  BY Differ, ForeignKeyIsSafe DEF Tells
<1>3. Tells(First(outcomes), \A i \in DOMAIN list : list[i] # NIL)
  BY ONLY <1>1, <1>2, Outcomes DEF Tells
<1>4. ValidateForeignKeys(list) = First(outcomes)
  BY DEF ValidateForeignKeys, EachFollowed, Follow
<1> QED BY ONLY <1>1, <1>3, <1>4 DEF Tells, PointersTo, PointerTo, AnyShape, IsList

LEMMA UniqueKeyIsSafe == ASSUME NEW key PROVE ValidateUniqueKeyPointer(key) # Panic
BY Differ, MustNeverPanics DEF ValidateUniqueKeyPointer, IfAny, ValidateUniqueKey

LEMMA TablePropsAreSafe == ASSUME NEW table, IsList(table.uniqueKeys) PROVE ValidateTableProps(table) # Panic
<1> PICK outcomes : outcomes = [i \in DOMAIN table.uniqueKeys |-> ValidateUniqueKeyPointer(table.uniqueKeys[i])]
  OBVIOUS
<1>1. IsList(outcomes) /\ \A i \in DOMAIN outcomes : outcomes[i] # Panic
  BY UniqueKeyIsSafe DEF IsList
<1>2. First(outcomes) # Panic
  BY ONLY <1>1, Outcomes
<1> PICK type, keys : type = Must(table.dbType \in {"BASE TABLE", "VIEW"}) /\ keys = First(outcomes)
  OBVIOUS
<1>3. ValidateTableProps(table) = First(<<type, keys>>)
  BY DEF ValidateTableProps, Each
<1>4. type # Panic /\ keys # Panic
  BY <1>2, MustNeverPanics
<1> QED BY ONLY <1>3, <1>4, TwoStops

LEMMA TableTells ==
  ASSUME NEW table, TableShape(table, FALSE)
  PROVE  Tells(ValidateTable(table), TableShape(table, TRUE))
<1> PICK a, b, c, d :
      /\ a = ValidateTableProps(table)
      /\ b = ValidateUniqueKeyPointer(table.primaryKey)
      /\ c = ValidateTableColumns(table.columns)
      /\ d = ValidateForeignKeys(table.foreignKeys)
  OBVIOUS
<1>1. a # Panic
  BY TablePropsAreSafe DEF TableShape
<1>2. b # Panic
  BY UniqueKeyIsSafe
<1>3. Tells(c, PointersTo(table.columns, AnyShape, TRUE))
  BY ColumnsTell DEF TableShape
<1>4. Tells(d, PointersTo(table.foreignKeys, AnyShape, TRUE))
  BY ForeignKeysTell DEF TableShape
<1>5. ValidateTable(table) = First(<<a, b, c, d>>)
  BY DEF ValidateTable
<1>6. TableShape(table, TRUE) <=>
        /\ PointersTo(table.columns, AnyShape, TRUE)
        /\ PointersTo(table.foreignKeys, AnyShape, TRUE)
  BY DEF TableShape
<1>7. /\ ValidateTable(table) = OK => c = OK /\ d = OK
      /\ ValidateTable(table) = Panic => c = Panic \/ d = Panic
  BY ONLY <1>1, <1>2, <1>5, FourStops
<1> QED BY ONLY <1>3, <1>4, <1>6, <1>7 DEF Tells

LEMMA TablesTell ==
  ASSUME NEW list, PointersTo(list, TableShape, FALSE)
  PROVE  Tells(EachFollowed(list, ValidateTable), PointersTo(list, TableShape, TRUE))
<1> PICK outcomes : outcomes = [i \in DOMAIN list |-> IF list[i] = NIL THEN Panic ELSE ValidateTable(list[i])]
  OBVIOUS
<1>1. IsList(outcomes) /\ DOMAIN outcomes = DOMAIN list
  BY DEF PointersTo, IsList
<1>2. ASSUME NEW i \in DOMAIN list
      PROVE  Tells(outcomes[i], list[i] # NIL /\ TableShape(list[i], TRUE))
  <2>1. list[i] # NIL => TableShape(list[i], FALSE)
    BY DEF PointersTo, PointerTo
  <2>2. list[i] # NIL => Tells(ValidateTable(list[i]), TableShape(list[i], TRUE))
    BY ONLY <2>1, TableTells
  <2>3. outcomes[i] = IF list[i] = NIL THEN Panic ELSE ValidateTable(list[i])
    OBVIOUS
  <2> QED BY ONLY <2>2, <2>3, Differ DEF Tells
<1>3. Tells(First(outcomes), \A i \in DOMAIN list : list[i] # NIL /\ TableShape(list[i], TRUE))
  BY ONLY <1>1, <1>2, Outcomes DEF Tells
<1>4. EachFollowed(list, ValidateTable) = First(outcomes)
  BY DEF EachFollowed, Follow
<1> QED BY ONLY <1>1, <1>3, <1>4 DEF Tells, PointersTo, PointerTo, IsList

LEMMA DbSchemaTells ==
  ASSUME NEW schema, DbSchemaShape(schema, FALSE)
  PROVE  Tells(ValidateDbSchema(schema), DbSchemaShape(schema, TRUE))
<1> PICK a, b, c :
      /\ a = ValidateItem(schema.item, FALSE)
      /\ b = EachFollowed(schema.tables, ValidateTable)
      /\ c = EachFollowed(schema.views, ValidateTable)
  OBVIOUS
<1>1. a # Panic
  BY ItemIsSafe DEF DbSchemaShape
<1>2. Tells(b, PointersTo(schema.tables, TableShape, TRUE))
  BY TablesTell DEF DbSchemaShape
<1>3. Tells(c, PointersTo(schema.views, TableShape, TRUE))
  BY TablesTell DEF DbSchemaShape
<1>4. ValidateDbSchema(schema) = First(<<a, b, c>>)
  BY DEF ValidateDbSchema
<1>5. DbSchemaShape(schema, TRUE) <=>
        /\ PointersTo(schema.tables, TableShape, TRUE)
        /\ PointersTo(schema.views, TableShape, TRUE)
  BY DEF DbSchemaShape
<1>6. /\ ValidateDbSchema(schema) = OK => b = OK /\ c = OK
      /\ ValidateDbSchema(schema) = Panic => b = Panic \/ c = Panic
  BY ONLY <1>1, <1>4, ThreeStops
<1> QED BY ONLY <1>2, <1>3, <1>5, <1>6 DEF Tells

LEMMA DbSchemasTell ==
  ASSUME NEW list, PointersTo(list, DbSchemaShape, FALSE)
  PROVE  Tells(ValidateDbSchemas(list), PointersTo(list, DbSchemaShape, TRUE))
<1> PICK outcomes : outcomes = [i \in DOMAIN list |-> IF list[i] = NIL THEN Panic ELSE ValidateDbSchema(list[i])]
  OBVIOUS
<1>1. IsList(outcomes) /\ DOMAIN outcomes = DOMAIN list
  BY DEF PointersTo, IsList
<1>2. ASSUME NEW i \in DOMAIN list
      PROVE  Tells(outcomes[i], list[i] # NIL /\ DbSchemaShape(list[i], TRUE))
  <2>1. list[i] # NIL => DbSchemaShape(list[i], FALSE)
    BY DEF PointersTo, PointerTo
  <2>2. list[i] # NIL => Tells(ValidateDbSchema(list[i]), DbSchemaShape(list[i], TRUE))
    BY ONLY <2>1, DbSchemaTells
  <2>3. outcomes[i] = IF list[i] = NIL THEN Panic ELSE ValidateDbSchema(list[i])
    OBVIOUS
  <2> QED BY ONLY <2>2, <2>3, Differ DEF Tells
<1>3. Tells(First(outcomes), \A i \in DOMAIN list : list[i] # NIL /\ DbSchemaShape(list[i], TRUE))
  BY ONLY <1>1, <1>2, Outcomes DEF Tells
<1>4. ValidateDbSchemas(list) = First(outcomes)
  BY DEF ValidateDbSchemas, EachFollowed, Follow
<1> QED BY ONLY <1>1, <1>3, <1>4 DEF Tells, PointersTo, PointerTo, IsList

LEMMA CatalogBaseIsSafe == ASSUME NEW catalog, ItemShape(catalog.item) PROVE ValidateCatalogBase(catalog) # Panic
<1> PICK a, b, c :
      /\ a = ValidateItem(catalog.item, FALSE)
      /\ b = Must(catalog.driver # Nothing)
      /\ c = Must(catalog.driver = "sqlite3" => catalog.path # Nothing)
  OBVIOUS
<1>1. a # Panic /\ b # Panic /\ c # Panic
  BY ItemIsSafe, MustNeverPanics
<1>2. ValidateCatalogBase(catalog) = First(<<a, b, c>>)
  BY DEF ValidateCatalogBase
<1> QED BY ONLY <1>1, <1>2, ThreeStops

LEMMA CatalogTells ==
  ASSUME NEW catalog, CatalogShape(catalog, FALSE)
  PROVE  Tells(ValidateCatalog(catalog), CatalogShape(catalog, TRUE))
<1> PICK a, b :
      /\ a = ValidateCatalogBase(catalog)
      /\ b = ValidateDbSchemas(catalog.dbSchemas)
  OBVIOUS
<1>1. a # Panic
  BY CatalogBaseIsSafe DEF CatalogShape
<1>2. Tells(b, PointersTo(catalog.dbSchemas, DbSchemaShape, TRUE))
  BY DbSchemasTell DEF CatalogShape
<1>3. ValidateCatalog(catalog) = First(<<a, b>>)
  BY DEF ValidateCatalog
<1>4. CatalogShape(catalog, TRUE) <=> PointersTo(catalog.dbSchemas, DbSchemaShape, TRUE)
  BY DEF CatalogShape
<1>5. /\ ValidateCatalog(catalog) = OK => b = OK
      /\ ValidateCatalog(catalog) = Panic => b = Panic
  BY ONLY <1>1, <1>3, TwoStops
<1> QED BY ONLY <1>2, <1>4, <1>5 DEF Tells

LEMMA CatalogsTell ==
  ASSUME NEW list, PointersTo(list, CatalogShape, FALSE)
  PROVE  Tells(ValidateCatalogs(list), PointersTo(list, CatalogShape, TRUE))
<1> PICK outcomes : outcomes = [i \in DOMAIN list |-> IF list[i] = NIL THEN Panic ELSE ValidateCatalog(list[i])]
  OBVIOUS
<1>1. IsList(outcomes) /\ DOMAIN outcomes = DOMAIN list
  BY DEF PointersTo, IsList
<1>2. ASSUME NEW i \in DOMAIN list
      PROVE  Tells(outcomes[i], list[i] # NIL /\ CatalogShape(list[i], TRUE))
  <2>1. list[i] # NIL => CatalogShape(list[i], FALSE)
    BY DEF PointersTo, PointerTo
  <2>2. list[i] # NIL => Tells(ValidateCatalog(list[i]), CatalogShape(list[i], TRUE))
    BY ONLY <2>1, CatalogTells
  <2>3. outcomes[i] = IF list[i] = NIL THEN Panic ELSE ValidateCatalog(list[i])
    OBVIOUS
  <2> QED BY ONLY <2>2, <2>3, Differ DEF Tells
<1>3. Tells(First(outcomes), \A i \in DOMAIN list : list[i] # NIL /\ CatalogShape(list[i], TRUE))
  BY ONLY <1>1, <1>2, Outcomes DEF Tells
<1>4. ValidateCatalogs(list) = First(outcomes)
  BY DEF ValidateCatalogs, EachFollowed, Follow
<1> QED BY ONLY <1>1, <1>3, <1>4 DEF Tells, PointersTo, PointerTo, IsList

LEMMA ProjDbServerTells ==
  ASSUME NEW server, ProjDbServerShape(server, FALSE)
  PROVE  Tells(ValidateProjDbServer(server), ProjDbServerShape(server, TRUE))
<1> PICK a, b, c, d :
      /\ a = Must(ServerID(server.server) = server.key)
      /\ b = ValidateItem(server.item, FALSE)
      /\ c = ValidateServerRef(server.server)
      /\ d = ValidateCatalogs(server.catalogs)
  OBVIOUS
<1>1. a # Panic
  BY MustNeverPanics
<1>2. b # Panic
  BY ItemIsSafe DEF ProjDbServerShape
<1>3. c # Panic
  BY ServerRefIsSafe
<1>4. Tells(d, PointersTo(server.catalogs, CatalogShape, TRUE))
  BY CatalogsTell DEF ProjDbServerShape
<1>5. ValidateProjDbServer(server) = First(<<a, b, c, d>>)
  BY DEF ValidateProjDbServer
<1>6. ProjDbServerShape(server, TRUE) <=> PointersTo(server.catalogs, CatalogShape, TRUE)
  BY DEF ProjDbServerShape
<1>7. /\ ValidateProjDbServer(server) = OK => d = OK
      /\ ValidateProjDbServer(server) = Panic => d = Panic
  BY ONLY <1>1, <1>2, <1>3, <1>5, FourStops
<1> QED BY ONLY <1>4, <1>6, <1>7 DEF Tells

\* A nil server is an error.
LEMMA DriverTells ==
  ASSUME NEW driver, DriverShape(driver, FALSE)
  PROVE  Tells(ValidateProjDbDriver(driver), DriverShape(driver, TRUE))
<1> PICK servers : servers = driver.servers
  OBVIOUS
<1> PICK outcomes :
      outcomes = [i \in DOMAIN servers |-> IF servers[i] = NIL THEN Error ELSE ValidateProjDbServer(servers[i])]
  OBVIOUS
<1>1. IsList(outcomes) /\ DOMAIN outcomes = DOMAIN servers
  BY DEF DriverShape, IsList
<1>2. ASSUME NEW i \in DOMAIN servers
      PROVE  Tells(outcomes[i], servers[i] = NIL \/ ProjDbServerShape(servers[i], TRUE))
  <2>1. servers[i] # NIL => ProjDbServerShape(servers[i], FALSE)
    BY DEF DriverShape
  <2>2. servers[i] # NIL => Tells(ValidateProjDbServer(servers[i]), ProjDbServerShape(servers[i], TRUE))
    BY ONLY <2>1, ProjDbServerTells
  <2>3. outcomes[i] = IF servers[i] = NIL THEN Error ELSE ValidateProjDbServer(servers[i])
    OBVIOUS
  <2> QED BY ONLY <2>2, <2>3, Differ DEF Tells
<1>3. Tells(First(outcomes), \A i \in DOMAIN servers : servers[i] = NIL \/ ProjDbServerShape(servers[i], TRUE))
  BY ONLY <1>1, <1>2, Outcomes DEF Tells
<1>4. ValidateProjDbDriver(driver) = First(<<ValidateTags(driver.item.tags), First(outcomes)>>)
  BY DEF ValidateProjDbDriver, ValidateProjDbServers, Each
<1>5. ValidateTags(driver.item.tags) # Panic
  BY MustNeverPanics DEF ValidateTags
<1>6. DriverShape(driver, TRUE) <=> \A i \in DOMAIN servers : servers[i] = NIL \/ ProjDbServerShape(servers[i], TRUE)
  BY DEF DriverShape
<1>7. /\ ValidateProjDbDriver(driver) = OK => First(outcomes) = OK
      /\ ValidateProjDbDriver(driver) = Panic => First(outcomes) = Panic
  BY ONLY <1>4, <1>5, TwoStops
<1> QED BY ONLY <1>3, <1>6, <1>7 DEF Tells

LEMMA DriversTell ==
  ASSUME NEW list, PointersTo(list, DriverShape, FALSE)
  PROVE  Tells(ValidateProjDbDrivers(list), PointersTo(list, DriverShape, TRUE))
<1> PICK outcomes : outcomes = [i \in DOMAIN list |-> IF list[i] = NIL THEN Panic ELSE ValidateProjDbDriver(list[i])]
  OBVIOUS
<1>1. IsList(outcomes) /\ DOMAIN outcomes = DOMAIN list
  BY DEF PointersTo, IsList
<1>2. ASSUME NEW i \in DOMAIN list
      PROVE  Tells(outcomes[i], list[i] # NIL /\ DriverShape(list[i], TRUE))
  <2>1. list[i] # NIL => DriverShape(list[i], FALSE)
    BY DEF PointersTo, PointerTo
  <2>2. list[i] # NIL => Tells(ValidateProjDbDriver(list[i]), DriverShape(list[i], TRUE))
    BY ONLY <2>1, DriverTells
  <2>3. outcomes[i] = IF list[i] = NIL THEN Panic ELSE ValidateProjDbDriver(list[i])
    OBVIOUS
  <2> QED BY ONLY <2>2, <2>3, Differ DEF Tells
<1>3. Tells(First(outcomes), \A i \in DOMAIN list : list[i] # NIL /\ DriverShape(list[i], TRUE))
  BY ONLY <1>1, <1>2, Outcomes DEF Tells
<1>4. ValidateProjDbDrivers(list) = First(outcomes)
  BY DEF ValidateProjDbDrivers, EachFollowed, Follow
<1> QED BY ONLY <1>1, <1>3, <1>4 DEF Tells, PointersTo, PointerTo, IsList

(* Models and their checks. *)

\* A check of options has a step for each of them.
LEMMA OptionsTell ==
  ASSUME NEW check, OptionsShape(check, FALSE)
  PROVE  Tells(ValidateOptionsCheck(check), OptionsShape(check, TRUE))
<1> PICK options : options = check.options
  OBVIOUS
<1> PICK n \in Nat : n = Len(options) /\ DOMAIN options = 1..n
  BY DEF OptionsShape, IsSlice
<1> PICK first : first = Must(check.type # Nothing /\ options # <<>>)
  OBVIOUS
<1> PICK each : each = [i \in 1..n |-> IF options[i] = NIL THEN Panic ELSE Must(options[i] = check.type)]
  OBVIOUS
<1>1. /\ \A i \in 1..n : Tells(each[i], options[i] # NIL)
      /\ first # Panic
  BY Differ, MustNeverPanics DEF Tells
<1> PICK outcomes : outcomes = <<first>> \o each
  OBVIOUS
<1>2. /\ DOMAIN outcomes = 1..(n + 1) /\ outcomes[1] = first
      /\ \A i \in 1..n : outcomes[i + 1] = each[i]
  OBVIOUS
<1>3. IsList(outcomes)
  BY ONLY <1>2 DEF IsList
<1>4. ASSUME NEW i \in DOMAIN outcomes, i # 1
      PROVE  i - 1 \in 1..n /\ outcomes[i] = each[i - 1]
  <2>1. i - 1 \in 1..n /\ (i - 1) + 1 = i
    BY <1>2, <1>4
  <2> QED BY <1>2, <2>1
<1>5. ASSUME First(outcomes) = Panic PROVE \E i \in 1..n : options[i] = NIL
  <2>1. PICK i \in DOMAIN outcomes : outcomes[i] = Panic
    BY <1>3, <1>5, Outcomes
  <2>2. i # 1
    BY <1>1, <1>2, <2>1
  <2>3. i - 1 \in 1..n /\ each[i - 1] = Panic
    BY <1>4, <2>1, <2>2
  <2>4. ~(options[i - 1] # NIL)
    BY ONLY <1>1, <2>3 DEF Tells
  <2> QED BY <2>3, <2>4
<1>6. ASSUME First(outcomes) = OK PROVE \A i \in 1..n : options[i] # NIL
  <2>1. \A i \in DOMAIN outcomes : outcomes[i] = OK
    BY <1>3, <1>6, Outcomes
  <2>2. \A i \in 1..n : i + 1 \in DOMAIN outcomes
    BY <1>2
  <2>3. \A i \in 1..n : each[i] = OK
    BY ONLY <1>2, <2>1, <2>2
  <2> QED BY <1>1, <2>3 DEF Tells
<1>7. ValidateOptionsCheck(check) = First(outcomes)
  BY DEF ValidateOptionsCheck
<1> QED BY <1>5, <1>6, <1>7 DEF Tells, OptionsShape

LEMMA CheckDataTells ==
  ASSUME NEW check, CheckShape(check, FALSE), check.data # NIL
  PROVE  Tells(ValidateCheckData(check.type, check.data), CheckShape(check, TRUE))
<1> PICK type : type = check.type
  OBVIOUS
<1> PICK data : data = check.data /\ data # NIL
  OBVIOUS
<1> PICK outcome : outcome = ValidateCheckData(type, data)
  OBVIOUS
<1>1. data.kind = OptionsCheck.kind => Tells(ValidateOptionsCheck(data), OptionsShape(data, TRUE))
  BY OptionsTell DEF CheckShape
<1>2. ValidateRegexpCheck(data) # Panic /\ ValidateSQLCheck(data) # Panic
  BY MustNeverPanics DEF ValidateRegexpCheck, ValidateSQLCheck
<1>3. /\ SQLCheck.kind = "SQLCheck" /\ RegexpCheck.kind = "RegexpValueCheck"
      /\ OptionsCheck.kind = "OptionsValueCheck"
  BY DEF SQLCheck, RegexpCheck, OptionsCheck
<1>4. /\ outcome = Panic =>
           data.kind = "null" \/ (data.kind = OptionsCheck.kind /\ ValidateOptionsCheck(data) = Panic)
      /\ outcome = OK => data.kind # "null"
      /\ outcome = OK /\ data.kind = OptionsCheck.kind => ValidateOptionsCheck(data) = OK
  BY <1>2, <1>3, Differ DEF ValidateCheckData
<1>5. CheckShape(check, TRUE) <=>
        data.kind # "null" /\ (data.kind = OptionsCheck.kind => OptionsShape(data, TRUE))
  BY DEF CheckShape
<1> QED BY <1>1, <1>4, <1>5 DEF Tells

LEMMA CheckTells ==
  ASSUME NEW check, CheckShape(check, FALSE)
  PROVE  Tells(ValidateCheck(check), CheckShape(check, TRUE))
<1> PICK outcome : outcome = IF check.data = NIL THEN OK ELSE ValidateCheckData(check.type, check.data)
  OBVIOUS
<1>1. check.data # NIL => Tells(outcome, CheckShape(check, TRUE))
  BY CheckDataTells
<1>2. check.data = NIL => CheckShape(check, TRUE) /\ outcome # Panic
  BY Differ DEF CheckShape
<1>3. Tells(outcome, CheckShape(check, TRUE))
  BY ONLY <1>1, <1>2 DEF Tells
<1>4. ValidateCheck(check) =
        First(<<Must(check.id # Nothing /\ check.title # Nothing /\ check.data # NIL /\ check.type # Nothing),
                outcome>>)
  BY DEF ValidateCheck
<1> QED BY ONLY <1>3, <1>4, MustNeverPanics, TwoStops DEF Tells

LEMMA ChecksTell ==
  ASSUME NEW list, PointersTo(list, CheckShape, FALSE)
  PROVE  Tells(ValidateChecks(list), PointersTo(list, CheckShape, TRUE))
<1> PICK outcomes : outcomes = [i \in DOMAIN list |-> IF list[i] = NIL THEN Panic ELSE ValidateCheck(list[i])]
  OBVIOUS
<1>1. IsList(outcomes) /\ DOMAIN outcomes = DOMAIN list
  BY DEF PointersTo, IsList
<1>2. ASSUME NEW i \in DOMAIN list
      PROVE  Tells(outcomes[i], list[i] # NIL /\ CheckShape(list[i], TRUE))
  <2>1. list[i] # NIL => CheckShape(list[i], FALSE)
    BY DEF PointersTo, PointerTo
  <2>2. list[i] # NIL => Tells(ValidateCheck(list[i]), CheckShape(list[i], TRUE))
    BY ONLY <2>1, CheckTells
  <2>3. outcomes[i] = IF list[i] = NIL THEN Panic ELSE ValidateCheck(list[i])
    OBVIOUS
  <2> QED BY ONLY <2>2, <2>3, Differ DEF Tells
<1>3. Tells(First(outcomes), \A i \in DOMAIN list : list[i] # NIL /\ CheckShape(list[i], TRUE))
  BY ONLY <1>1, <1>2, Outcomes DEF Tells
<1>4. ValidateChecks(list) = First(outcomes)
  BY DEF ValidateChecks, EachFollowed, Follow
<1> QED BY ONLY <1>1, <1>3, <1>4 DEF Tells, PointersTo, PointerTo, IsList

LEMMA StatesTell ==
  ASSUME NEW list, PointersTo(list, AnyShape, FALSE)
  PROVE  Tells(ValidateStateByEnv(list), PointersTo(list, AnyShape, TRUE))
<1> PICK outcomes : outcomes = [i \in DOMAIN list |-> IF list[i] = NIL THEN Panic ELSE ValidateEnvState(list[i])]
  OBVIOUS
<1>1. IsList(outcomes) /\ DOMAIN outcomes = DOMAIN list
  BY DEF PointersTo, IsList
<1>2. \A i \in DOMAIN list : Tells(outcomes[i], list[i] # NIL)
  BY Differ, EnvStateIsSafe DEF Tells
<1>3. Tells(First(outcomes), \A i \in DOMAIN list : list[i] # NIL)
  BY ONLY <1>1, <1>2, Outcomes DEF Tells
<1>4. ValidateStateByEnv(list) = First(outcomes)
  BY DEF ValidateStateByEnv, EachFollowed, Follow
<1> QED BY ONLY <1>1, <1>3, <1>4 DEF Tells, PointersTo, PointerTo, AnyShape, IsList

LEMMA ColumnModelTells ==
  ASSUME NEW model, ColumnModelShape(model, FALSE)
  PROVE  Tells(ValidateColumnModel(model), ColumnModelShape(model, TRUE))
<1> PICK a, b, c :
      /\ a = ValidateColumnInfo(model.column)
      /\ b = ValidateStateByEnv(model.byEnv)
      /\ c = ValidateChecks(model.checks)
  OBVIOUS
<1>1. a # Panic
  BY ColumnInfoIsSafe
<1>2. Tells(b, PointersTo(model.byEnv, AnyShape, TRUE))
  BY StatesTell DEF ColumnModelShape
<1>3. Tells(c, PointersTo(model.checks, CheckShape, TRUE))
  BY ChecksTell DEF ColumnModelShape
<1>4. ValidateColumnModel(model) = First(<<a, b, c>>)
  BY DEF ValidateColumnModel
<1>5. ColumnModelShape(model, TRUE) <=>
        /\ PointersTo(model.byEnv, AnyShape, TRUE)
        /\ PointersTo(model.checks, CheckShape, TRUE)
  BY DEF ColumnModelShape
<1>6. /\ ValidateColumnModel(model) = OK => b = OK /\ c = OK
      /\ ValidateColumnModel(model) = Panic => b = Panic \/ c = Panic
  BY ONLY <1>1, <1>4, ThreeStops
<1> QED BY ONLY <1>2, <1>3, <1>5, <1>6 DEF Tells

LEMMA ColumnModelsTell ==
  ASSUME NEW list, PointersTo(list, ColumnModelShape, FALSE)
  PROVE  Tells(ValidateColumnModels(list), PointersTo(list, ColumnModelShape, TRUE))
<1> PICK outcomes : outcomes = [i \in DOMAIN list |-> IF list[i] = NIL THEN Panic ELSE ValidateColumnModel(list[i])]
  OBVIOUS
<1>1. IsList(outcomes) /\ DOMAIN outcomes = DOMAIN list
  BY DEF PointersTo, IsList
<1>2. ASSUME NEW i \in DOMAIN list
      PROVE  Tells(outcomes[i], list[i] # NIL /\ ColumnModelShape(list[i], TRUE))
  <2>1. list[i] # NIL => ColumnModelShape(list[i], FALSE)
    BY DEF PointersTo, PointerTo
  <2>2. list[i] # NIL => Tells(ValidateColumnModel(list[i]), ColumnModelShape(list[i], TRUE))
    BY ONLY <2>1, ColumnModelTells
  <2>3. outcomes[i] = IF list[i] = NIL THEN Panic ELSE ValidateColumnModel(list[i])
    OBVIOUS
  <2> QED BY ONLY <2>2, <2>3, Differ DEF Tells
<1>3. Tells(First(outcomes), \A i \in DOMAIN list : list[i] # NIL /\ ColumnModelShape(list[i], TRUE))
  BY ONLY <1>1, <1>2, Outcomes DEF Tells
<1>4. ValidateColumnModels(list) = First(outcomes)
  BY DEF ValidateColumnModels, EachFollowed, Follow
<1> QED BY ONLY <1>1, <1>3, <1>4 DEF Tells, PointersTo, PointerTo, IsList

LEMMA TableModelTells ==
  ASSUME NEW model, TableModelShape(model, FALSE)
  PROVE  Tells(ValidateTableModel(model), TableModelShape(model, TRUE))
<1> PICK a, b, c :
      /\ a = ValidateColumnModels(model.columnModels)
      /\ b = ValidateStateByEnv(model.byEnv)
      /\ c = ValidateChecks(model.checks)
  OBVIOUS
<1>1. Tells(a, PointersTo(model.columnModels, ColumnModelShape, TRUE))
  BY ColumnModelsTell DEF TableModelShape
<1>2. Tells(b, PointersTo(model.byEnv, AnyShape, TRUE))
  BY StatesTell DEF TableModelShape
<1>3. Tells(c, PointersTo(model.checks, CheckShape, TRUE))
  BY ChecksTell DEF TableModelShape
<1>4. ValidateTableModel(model) = First(<<a, b, c>>)
  BY DEF ValidateTableModel
<1>5. TableModelShape(model, TRUE) <=>
        /\ PointersTo(model.columnModels, ColumnModelShape, TRUE)
        /\ PointersTo(model.byEnv, AnyShape, TRUE)
        /\ PointersTo(model.checks, CheckShape, TRUE)
  BY DEF TableModelShape
<1>6. /\ ValidateTableModel(model) = OK => a = OK /\ b = OK /\ c = OK
      /\ ValidateTableModel(model) = Panic => a = Panic \/ b = Panic \/ c = Panic
  BY ONLY <1>4, ThreeStops
<1> QED BY ONLY <1>1, <1>2, <1>3, <1>5, <1>6 DEF Tells

LEMMA TableModelsTell ==
  ASSUME NEW list, PointersTo(list, TableModelShape, FALSE)
  PROVE  Tells(EachFollowed(list, ValidateTableModel), PointersTo(list, TableModelShape, TRUE))
<1> PICK outcomes : outcomes = [i \in DOMAIN list |-> IF list[i] = NIL THEN Panic ELSE ValidateTableModel(list[i])]
  OBVIOUS
<1>1. IsList(outcomes) /\ DOMAIN outcomes = DOMAIN list
  BY DEF PointersTo, IsList
<1>2. ASSUME NEW i \in DOMAIN list
      PROVE  Tells(outcomes[i], list[i] # NIL /\ TableModelShape(list[i], TRUE))
  <2>1. list[i] # NIL => TableModelShape(list[i], FALSE)
    BY DEF PointersTo, PointerTo
  <2>2. list[i] # NIL => Tells(ValidateTableModel(list[i]), TableModelShape(list[i], TRUE))
    BY ONLY <2>1, TableModelTells
  <2>3. outcomes[i] = IF list[i] = NIL THEN Panic ELSE ValidateTableModel(list[i])
    OBVIOUS
  <2> QED BY ONLY <2>2, <2>3, Differ DEF Tells
<1>3. Tells(First(outcomes), \A i \in DOMAIN list : list[i] # NIL /\ TableModelShape(list[i], TRUE))
  BY ONLY <1>1, <1>2, Outcomes DEF Tells
<1>4. EachFollowed(list, ValidateTableModel) = First(outcomes)
  BY DEF EachFollowed, Follow
<1> QED BY ONLY <1>1, <1>3, <1>4 DEF Tells, PointersTo, PointerTo, IsList

LEMMA SchemaModelTells ==
  ASSUME NEW schema, SchemaModelShape(schema, FALSE)
  PROVE  Tells(ValidateSchemaModel(schema), SchemaModelShape(schema, TRUE))
<1> PICK a, b, c :
      /\ a = ValidateItem(schema.item, FALSE)
      /\ b = EachFollowed(schema.tableModels, ValidateTableModel)
      /\ c = EachFollowed(schema.viewModels, ValidateTableModel)
  OBVIOUS
<1>1. a # Panic
  BY ItemIsSafe DEF SchemaModelShape
<1>2. Tells(b, PointersTo(schema.tableModels, TableModelShape, TRUE))
  BY TableModelsTell DEF SchemaModelShape
<1>3. Tells(c, PointersTo(schema.viewModels, TableModelShape, TRUE))
  BY TableModelsTell DEF SchemaModelShape
<1>4. ValidateSchemaModel(schema) = First(<<a, b, c>>)
  BY DEF ValidateSchemaModel
<1>5. SchemaModelShape(schema, TRUE) <=>
        /\ PointersTo(schema.tableModels, TableModelShape, TRUE)
        /\ PointersTo(schema.viewModels, TableModelShape, TRUE)
  BY DEF SchemaModelShape
<1>6. /\ ValidateSchemaModel(schema) = OK => b = OK /\ c = OK
      /\ ValidateSchemaModel(schema) = Panic => b = Panic \/ c = Panic
  BY ONLY <1>1, <1>4, ThreeStops
<1> QED BY ONLY <1>2, <1>3, <1>5, <1>6 DEF Tells

LEMMA SchemaModelsTell ==
  ASSUME NEW list, PointersTo(list, SchemaModelShape, FALSE)
  PROVE  Tells(EachFollowed(list, ValidateSchemaModel), PointersTo(list, SchemaModelShape, TRUE))
<1> PICK outcomes : outcomes = [i \in DOMAIN list |-> IF list[i] = NIL THEN Panic ELSE ValidateSchemaModel(list[i])]
  OBVIOUS
<1>1. IsList(outcomes) /\ DOMAIN outcomes = DOMAIN list
  BY DEF PointersTo, IsList
<1>2. ASSUME NEW i \in DOMAIN list
      PROVE  Tells(outcomes[i], list[i] # NIL /\ SchemaModelShape(list[i], TRUE))
  <2>1. list[i] # NIL => SchemaModelShape(list[i], FALSE)
    BY DEF PointersTo, PointerTo
  <2>2. list[i] # NIL => Tells(ValidateSchemaModel(list[i]), SchemaModelShape(list[i], TRUE))
    BY ONLY <2>1, SchemaModelTells
  <2>3. outcomes[i] = IF list[i] = NIL THEN Panic ELSE ValidateSchemaModel(list[i])
    OBVIOUS
  <2> QED BY ONLY <2>2, <2>3, Differ DEF Tells
<1>3. Tells(First(outcomes), \A i \in DOMAIN list : list[i] # NIL /\ SchemaModelShape(list[i], TRUE))
  BY ONLY <1>1, <1>2, Outcomes DEF Tells
<1>4. EachFollowed(list, ValidateSchemaModel) = First(outcomes)
  BY DEF EachFollowed, Follow
<1> QED BY ONLY <1>1, <1>3, <1>4 DEF Tells, PointersTo, PointerTo, IsList

LEMMA DbModelTells ==
  ASSUME NEW model, DbModelShape(model, FALSE)
  PROVE  Tells(ValidateDbModel(model), DbModelShape(model, TRUE))
<1> PICK a, b :
      /\ a = ValidateItem(model.item, FALSE)
      /\ b = EachFollowed(model.schemas, ValidateSchemaModel)
  OBVIOUS
<1>1. a # Panic
  BY ItemIsSafe DEF DbModelShape
<1>2. Tells(b, PointersTo(model.schemas, SchemaModelShape, TRUE))
  BY SchemaModelsTell DEF DbModelShape
<1>3. ValidateDbModel(model) = First(<<a, b>>)
  BY DEF ValidateDbModel
<1>4. DbModelShape(model, TRUE) <=> PointersTo(model.schemas, SchemaModelShape, TRUE)
  BY DEF DbModelShape
<1>5. /\ ValidateDbModel(model) = OK => b = OK
      /\ ValidateDbModel(model) = Panic => b = Panic
  BY ONLY <1>1, <1>3, TwoStops
<1> QED BY ONLY <1>2, <1>4, <1>5 DEF Tells

LEMMA DbModelsTell ==
  ASSUME NEW list, PointersTo(list, DbModelShape, FALSE)
  PROVE  Tells(ValidateDbModels(list), PointersTo(list, DbModelShape, TRUE))
<1> PICK outcomes : outcomes = [i \in DOMAIN list |-> IF list[i] = NIL THEN Panic ELSE ValidateDbModel(list[i])]
  OBVIOUS
<1>1. IsList(outcomes) /\ DOMAIN outcomes = DOMAIN list
  BY DEF PointersTo, IsList
<1>2. ASSUME NEW i \in DOMAIN list
      PROVE  Tells(outcomes[i], list[i] # NIL /\ DbModelShape(list[i], TRUE))
  <2>1. list[i] # NIL => DbModelShape(list[i], FALSE)
    BY DEF PointersTo, PointerTo
  <2>2. list[i] # NIL => Tells(ValidateDbModel(list[i]), DbModelShape(list[i], TRUE))
    BY ONLY <2>1, DbModelTells
  <2>3. outcomes[i] = IF list[i] = NIL THEN Panic ELSE ValidateDbModel(list[i])
    OBVIOUS
  <2> QED BY ONLY <2>2, <2>3, Differ DEF Tells
<1>3. Tells(First(outcomes), \A i \in DOMAIN list : list[i] # NIL /\ DbModelShape(list[i], TRUE))
  BY ONLY <1>1, <1>2, Outcomes DEF Tells
<1>4. ValidateDbModels(list) = First(outcomes)
  BY DEF ValidateDbModels, EachFollowed, Follow
<1> QED BY ONLY <1>1, <1>3, <1>4 DEF Tells, PointersTo, PointerTo, IsList

LEMMA ModelCatalogsTell ==
  ASSUME NEW list, PointersTo(list, AnyShape, FALSE)
  PROVE  Tells(ValidateModelCatalogs(list), PointersTo(list, AnyShape, TRUE))
<1> PICK outcomes : outcomes = [i \in DOMAIN list |-> IF list[i] = NIL THEN Panic ELSE ValidateModelCatalog(list[i])]
  OBVIOUS
<1>1. IsList(outcomes) /\ DOMAIN outcomes = DOMAIN list
  BY DEF PointersTo, IsList
<1>2. \A i \in DOMAIN list : Tells(outcomes[i], list[i] # NIL)
  BY Differ, ModelCatalogIsSafe DEF Tells
<1>3. Tells(First(outcomes), \A i \in DOMAIN list : list[i] # NIL)
  BY ONLY <1>1, <1>2, Outcomes DEF Tells
<1>4. ValidateModelCatalogs(list) = First(outcomes)
  BY DEF ValidateModelCatalogs, EachFollowed, Follow
<1> QED BY ONLY <1>1, <1>3, <1>4 DEF Tells, PointersTo, PointerTo, AnyShape, IsList

\* The error of its catalogs is dropped: an environment may be accepted that is not safe.
LEMMA ModelEnvPanics ==
  ASSUME NEW env, ModelEnvShape(env, TRUE) PROVE ValidateModelEnv(env) # Panic
<1>1. PointersTo(env.modelCatalogs, AnyShape, FALSE)
  BY DEF ModelEnvShape, PointersTo, PointerTo, AnyShape
<1>2. ValidateModelCatalogs(env.modelCatalogs) # Panic
  BY <1>1, ModelCatalogsTell DEF Tells, ModelEnvShape
<1> QED BY <1>2, Differ, MustNeverPanics, TwoStops DEF ValidateModelEnv

LEMMA DbModelFilePanics ==
  ASSUME NEW saved, DbModelFileShape(saved, TRUE) PROVE ValidateDbModelFile(saved) # Panic
<1> PICK list : list = saved.modelEnvs
  OBVIOUS
<1> PICK outcomes : outcomes = [i \in DOMAIN list |-> IF list[i] = NIL THEN Panic ELSE ValidateModelEnv(list[i])]
  OBVIOUS
<1>1. IsList(outcomes) /\ \A i \in DOMAIN list : list[i] # NIL /\ ModelEnvShape(list[i], TRUE)
  BY DEF DbModelFileShape, PointersTo, PointerTo, IsList
<1>2. \A i \in DOMAIN outcomes : outcomes[i] # Panic
  BY <1>1, ModelEnvPanics
<1>3. First(outcomes) # Panic
  BY ONLY <1>1, <1>2, Outcomes
<1>4. ValidateDbModelFile(saved) = First(<<ValidateItem(saved.item, FALSE), First(outcomes)>>)
  BY DEF ValidateDbModelFile, ValidateModelEnvs, EachFollowed, Follow
<1>5. ValidateItem(saved.item, FALSE) # Panic
  BY ItemIsSafe DEF DbModelFileShape
<1> QED BY ONLY <1>3, <1>4, <1>5, TwoStops

(* Boards. *)

LEMMA HeadersAreSafe == ASSUME NEW list, IsList(list) PROVE ValidateHeaders(list) # Panic
<1> PICK outcomes : outcomes = [i \in DOMAIN list |-> ValidateHeader(list[i])]
  OBVIOUS
<1>1. IsList(outcomes) /\ \A i \in DOMAIN outcomes : outcomes[i] # Panic
  BY MustNeverPanics DEF IsList, ValidateHeader
<1>2. ValidateHeaders(list) = First(outcomes)
  BY DEF ValidateHeaders, Each
<1> QED BY ONLY <1>1, <1>2, Outcomes

LEMMA WidgetBaseIsSafe ==
  ASSUME NEW base, IsList(base.parameters), NEW isTitleRequired PROVE ValidateWidgetBase(base, isTitleRequired) # Panic
<1>1. ValidateStringField(base.title, isTitleRequired) # Panic
  BY MustNeverPanics DEF ValidateStringField
<1> QED BY <1>1, ParametersAreSafe, TwoStops DEF ValidateWidgetBase

LEMMA RequestIsSafe == ASSUME NEW request, IsList(request.headers) PROVE ValidateRequest(request) # Panic
<1> PICK a, b, c, d :
      /\ a = Must(request.url # Nothing /\ request.timeout >= 0)
      /\ b = Must(request.method \in Methods)
      /\ c = Must(request.method \in BodilessMethods => request.content = Nothing)
      /\ d = ValidateHeaders(request.headers)
  OBVIOUS
<1>1. ValidateRequest(request) = First(<<a, b, c, d>>)
  BY DEF ValidateRequest
<1>2. a # Panic /\ b # Panic /\ c # Panic /\ d # Panic
  BY HeadersAreSafe, MustNeverPanics
<1> QED BY ONLY <1>1, <1>2, FourStops

LEMMA WidgetIsSafe == ASSUME NEW widget, WidgetShape(widget, FALSE) PROVE ValidateWidget(widget) # Panic
<1> PICK def : def = widget.def
  OBVIOUS
<1>1. IsList(def.base.parameters) => ValidateWidgetBase(def.base, FALSE) # Panic
  BY WidgetBaseIsSafe
<1>2. CASE widget.name = "SQL"
  <2> PICK base, text : base = ValidateWidgetBase(def.base, FALSE) /\ text = Must(def.queryText # Nothing)
    OBVIOUS
  <2>1. ValidateSQLWidget(def) # Panic
    <3>1. ValidateSQLWidget(def) = First(<<base, text>>)
      BY DEF ValidateSQLWidget
    <3>2. base # Panic /\ text # Panic
      BY <1>1, <1>2, MustNeverPanics DEF WidgetShape
    <3> QED BY ONLY <3>1, <3>2, TwoStops
  <2> QED BY <1>2, <2>1 DEF ValidateWidget
<1>3. CASE widget.name = "HTTP"
  <2> PICK base, request :
        base = ValidateWidgetBase(def.base, FALSE) /\ request = ValidateRequest(def.request)
    OBVIOUS
  <2>1. ValidateHTTPWidget(def) # Panic
    <3>1. ValidateHTTPWidget(def) = First(<<base, request>>)
      BY DEF ValidateHTTPWidget
    <3>2. base # Panic /\ request # Panic
      BY <1>1, <1>3, RequestIsSafe DEF WidgetShape
    <3> QED BY ONLY <3>1, <3>2, TwoStops
  <2> QED BY <1>3, <2>1 DEF ValidateWidget
<1>4. CASE widget.name = "tabs"
  BY <1>1, <1>4 DEF ValidateWidget, ValidateTabsWidget, WidgetShape
<1>5. CASE widget.name \notin {"SQL", "HTTP", "tabs"}
  BY <1>5, Differ DEF ValidateWidget
<1> QED BY <1>2, <1>3, <1>4, <1>5

LEMMA CardTells ==
  ASSUME NEW card, CardShape(card, FALSE)
  PROVE  Tells(ValidateCard(card), CardShape(card, TRUE))
<1> PICK widget : widget = card.widget
  OBVIOUS
<1> PICK outcome : outcome = IF widget = NIL THEN Panic ELSE ValidateWidget(widget)
  OBVIOUS
<1>1. widget # NIL => WidgetShape(widget, FALSE) /\ ValidateWidget(widget) # Panic
  BY WidgetIsSafe DEF CardShape, PointerTo
<1>2. CardShape(card, TRUE) <=> widget # NIL
  BY <1>1 DEF CardShape, PointerTo, WidgetShape
<1>3. Tells(outcome, CardShape(card, TRUE))
  BY <1>1, <1>2, Differ DEF Tells
<1>4. ValidateCard(card) = First(<<Must(card.id # Nothing /\ card.cols >= 0), outcome>>)
  BY DEF ValidateCard, Follow
<1> QED BY ONLY <1>3, <1>4, MustNeverPanics, TwoStops DEF Tells

LEMMA CardsTell ==
  ASSUME NEW list, ListOf(list, CardShape, FALSE)
  PROVE  Tells(ValidateCards(list), ListOf(list, CardShape, TRUE))
<1> PICK outcomes : outcomes = [i \in DOMAIN list |-> ValidateCard(list[i])]
  OBVIOUS
<1>1. IsList(outcomes) /\ DOMAIN outcomes = DOMAIN list
  BY DEF ListOf, IsList
<1>2. ASSUME NEW i \in DOMAIN list
      PROVE  Tells(outcomes[i], CardShape(list[i], TRUE))
  <2>1. CardShape(list[i], FALSE)
    BY DEF ListOf
  <2> QED BY <2>1, CardTells
<1>3. Tells(First(outcomes), \A i \in DOMAIN list : CardShape(list[i], TRUE))
  BY ONLY <1>1, <1>2, Outcomes DEF Tells
<1>4. ValidateCards(list) = First(outcomes)
  BY DEF ValidateCards, Each
<1> QED BY ONLY <1>1, <1>3, <1>4 DEF Tells, ListOf, IsList

LEMMA RowTells ==
  ASSUME NEW row, RowShape(row, FALSE)
  PROVE  Tells(ValidateRow(row), RowShape(row, TRUE))
BY CardsTell DEF RowShape, ValidateRow

LEMMA RowsTell ==
  ASSUME NEW list, ListOf(list, RowShape, FALSE)
  PROVE  Tells(ValidateRows(list), ListOf(list, RowShape, TRUE))
<1> PICK outcomes : outcomes = [i \in DOMAIN list |-> ValidateRow(list[i])]
  OBVIOUS
<1>1. IsList(outcomes) /\ DOMAIN outcomes = DOMAIN list
  BY DEF ListOf, IsList
<1>2. ASSUME NEW i \in DOMAIN list
      PROVE  Tells(outcomes[i], RowShape(list[i], TRUE))
  <2>1. RowShape(list[i], FALSE)
    BY DEF ListOf
  <2> QED BY <2>1, RowTells
<1>3. Tells(First(outcomes), \A i \in DOMAIN list : RowShape(list[i], TRUE))
  BY ONLY <1>1, <1>2, Outcomes DEF Tells
<1>4. ValidateRows(list) = First(outcomes)
  BY DEF ValidateRows, Each
<1> QED BY ONLY <1>1, <1>3, <1>4 DEF Tells, ListOf, IsList

LEMMA BoardTells ==
  ASSUME NEW board, BoardShape(board, FALSE)
  PROVE  Tells(ValidateBoard(board), BoardShape(board, TRUE))
<1> PICK a, b :
      /\ a = ValidateItem(board.item, TRUE)
      /\ b = ValidateRows(board.rows)
  OBVIOUS
<1>1. a # Panic
  BY ItemIsSafe DEF BoardShape
<1>2. Tells(b, ListOf(board.rows, RowShape, TRUE))
  BY RowsTell DEF BoardShape
<1>3. ValidateBoard(board) = First(<<a, b>>)
  BY DEF ValidateBoard
<1>4. BoardShape(board, TRUE) <=> ListOf(board.rows, RowShape, TRUE)
  BY DEF BoardShape
<1>5. /\ ValidateBoard(board) = OK => b = OK
      /\ ValidateBoard(board) = Panic => b = Panic
  BY ONLY <1>1, <1>3, TwoStops
<1> QED BY ONLY <1>2, <1>4, <1>5 DEF Tells

LEMMA BoardsTell ==
  ASSUME NEW list, PointersTo(list, BoardShape, FALSE)
  PROVE  Tells(ValidateBoards(list), PointersTo(list, BoardShape, TRUE))
<1> PICK outcomes : outcomes = [i \in DOMAIN list |-> IF list[i] = NIL THEN Panic ELSE ValidateBoard(list[i])]
  OBVIOUS
<1>1. IsList(outcomes) /\ DOMAIN outcomes = DOMAIN list
  BY DEF PointersTo, IsList
<1>2. ASSUME NEW i \in DOMAIN list
      PROVE  Tells(outcomes[i], list[i] # NIL /\ BoardShape(list[i], TRUE))
  <2>1. list[i] # NIL => BoardShape(list[i], FALSE)
    BY DEF PointersTo, PointerTo
  <2>2. list[i] # NIL => Tells(ValidateBoard(list[i]), BoardShape(list[i], TRUE))
    BY ONLY <2>1, BoardTells
  <2>3. outcomes[i] = IF list[i] = NIL THEN Panic ELSE ValidateBoard(list[i])
    OBVIOUS
  <2> QED BY ONLY <2>2, <2>3, Differ DEF Tells
<1>3. Tells(First(outcomes), \A i \in DOMAIN list : list[i] # NIL /\ BoardShape(list[i], TRUE))
  BY ONLY <1>1, <1>2, Outcomes DEF Tells
<1>4. ValidateBoards(list) = First(outcomes)
  BY DEF ValidateBoards, EachFollowed, Follow
<1> QED BY ONLY <1>1, <1>3, <1>4 DEF Tells, PointersTo, PointerTo, IsList

(* Queries, users, recordsets and projects. *)

LEMMA QueryIsSafe == ASSUME NEW query, QueryShape(query, FALSE) PROVE ValidateQuery(query) # Panic
<1>1. ValidateItem(query.item, TRUE) # Panic /\ ValidateParameters(query.parameters) # Panic
  BY ItemIsSafe, ParametersAreSafe DEF QueryShape
<1> PICK a, b, c, d, e :
      /\ a = ValidateItem(query.item, TRUE)
      /\ b = Must(query.type \in {"folder", "HTTP", "SQL", "GraphQL"})
      /\ c = Must(query.type = "folder" => query.text = Nothing)
      /\ d = Must(query.type = "HTTP" => \A i \in DOMAIN query.targets : query.targets[i].catalog = Nothing)
      /\ e = ValidateParameters(query.parameters)
  OBVIOUS
<1>2. a # Panic /\ b # Panic /\ c # Panic /\ d # Panic /\ e # Panic
  BY <1>1, MustNeverPanics
<1>3. ValidateQuery(query) = First(<<a, b, c, d, e>>)
  BY DEF ValidateQuery
<1> QED BY ONLY <1>2, <1>3, FiveStops

LEMMA QueryInFolderIsSafe ==
  ASSUME NEW query, QueryInFolderShape(query, FALSE) PROVE ValidateQueryInFolder(query) # Panic
BY QueryIsSafe, MustNeverPanics, TwoStops DEF QueryInFolderShape, ValidateQueryInFolder

LEMMA ProjectBriefTells ==
  ASSUME NEW brief, WithItem(brief, FALSE) PROVE Tells(ValidateProjectBrief(brief), WithItem(brief, TRUE))
<1>1. ValidateItem(brief.item, TRUE) # Panic
  BY ItemIsSafe DEF WithItem
<1>2. ValidateRepository(brief.repository) # Panic
  BY Differ, MustNeverPanics DEF ValidateRepository
<1> PICK a, b, c :
      /\ a = ValidateItem(brief.item, TRUE)
      /\ b = Must(brief.access \in AccessLevels)
      /\ c = ValidateRepository(brief.repository)
  OBVIOUS
<1>3. a # Panic /\ b # Panic /\ c # Panic
  BY <1>1, <1>2, MustNeverPanics
<1>4. ValidateProjectBrief(brief) = First(<<a, b, c>>)
  BY DEF ValidateProjectBrief
<1>5. ValidateProjectBrief(brief) # Panic
  BY ONLY <1>3, <1>4, ThreeStops
<1> QED BY <1>5 DEF Tells, WithItem

LEMMA ProjectBriefsTell ==
  ASSUME NEW list, ListOf(list, WithItem, FALSE)
  PROVE  Tells(Each(list, ValidateProjectBrief), ListOf(list, WithItem, TRUE))
<1> PICK outcomes : outcomes = [i \in DOMAIN list |-> ValidateProjectBrief(list[i])]
  OBVIOUS
<1>1. IsList(outcomes) /\ DOMAIN outcomes = DOMAIN list
  BY DEF ListOf, IsList
<1>2. ASSUME NEW i \in DOMAIN list
      PROVE  Tells(outcomes[i], WithItem(list[i], TRUE))
  <2>1. WithItem(list[i], FALSE)
    BY DEF ListOf
  <2> QED BY <2>1, ProjectBriefTells
<1>3. Tells(First(outcomes), \A i \in DOMAIN list : WithItem(list[i], TRUE))
  BY ONLY <1>1, <1>2, Outcomes DEF Tells
<1>4. Each(list, ValidateProjectBrief) = First(outcomes)
  BY DEF Each
<1> QED BY ONLY <1>1, <1>3, <1>4 DEF Tells, ListOf, IsList

LEMMA StoreTells ==
  ASSUME NEW store, StoreShape(store, FALSE)
  PROVE  Tells(ValidateStore(store), StoreShape(store, TRUE))
<1> PICK a, b :
      /\ a = Must(store.type \in StoreTypes)
      /\ b = Each(store.projects, ValidateProjectBrief)
  OBVIOUS
<1>1. a # Panic
  BY MustNeverPanics
<1>2. Tells(b, ListOf(store.projects, WithItem, TRUE))
  BY ProjectBriefsTell DEF StoreShape
<1>3. ValidateStore(store) = First(<<a, b>>)
  BY DEF ValidateStore
<1>4. StoreShape(store, TRUE) <=> ListOf(store.projects, WithItem, TRUE)
  BY DEF StoreShape
<1>5. /\ ValidateStore(store) = OK => b = OK
      /\ ValidateStore(store) = Panic => b = Panic
  BY ONLY <1>1, <1>3, TwoStops
<1> QED BY ONLY <1>2, <1>4, <1>5 DEF Tells

LEMMA StoresTell ==
  ASSUME NEW list, ListOf(list, StoreShape, FALSE)
  PROVE  Tells(Each(list, ValidateStore), ListOf(list, StoreShape, TRUE))
<1> PICK outcomes : outcomes = [i \in DOMAIN list |-> ValidateStore(list[i])]
  OBVIOUS
<1>1. IsList(outcomes) /\ DOMAIN outcomes = DOMAIN list
  BY DEF ListOf, IsList
<1>2. ASSUME NEW i \in DOMAIN list
      PROVE  Tells(outcomes[i], StoreShape(list[i], TRUE))
  <2>1. StoreShape(list[i], FALSE)
    BY DEF ListOf
  <2> QED BY <2>1, StoreTells
<1>3. Tells(First(outcomes), \A i \in DOMAIN list : StoreShape(list[i], TRUE))
  BY ONLY <1>1, <1>2, Outcomes DEF Tells
<1>4. Each(list, ValidateStore) = First(outcomes)
  BY DEF Each
<1> QED BY ONLY <1>1, <1>3, <1>4 DEF Tells, ListOf, IsList

LEMMA ActionTells ==
  ASSUME NEW action, WithItem(action, FALSE) PROVE Tells(ValidateAction(action), WithItem(action, TRUE))
<1> PICK a, b : a = Must(action.type \in {"sql", "http"}) /\ b = ValidateItem(action.item, FALSE)
  OBVIOUS
<1>1. a # Panic /\ b # Panic
  BY ItemIsSafe, MustNeverPanics DEF WithItem
<1>2. ValidateAction(action) = First(<<a, b>>)
  BY DEF ValidateAction
<1>3. ValidateAction(action) # Panic
  BY ONLY <1>1, <1>2, TwoStops
<1> QED BY <1>3 DEF Tells, WithItem

LEMMA ActionsTell ==
  ASSUME NEW list, PointersTo(list, WithItem, FALSE)
  PROVE  Tells(ValidateActions(list), PointersTo(list, WithItem, TRUE))
<1> PICK outcomes : outcomes = [i \in DOMAIN list |-> IF list[i] = NIL THEN Panic ELSE ValidateAction(list[i])]
  OBVIOUS
<1>1. IsList(outcomes) /\ DOMAIN outcomes = DOMAIN list
  BY DEF PointersTo, IsList
<1>2. ASSUME NEW i \in DOMAIN list
      PROVE  Tells(outcomes[i], list[i] # NIL /\ WithItem(list[i], TRUE))
  <2>1. list[i] # NIL => WithItem(list[i], FALSE)
    BY DEF PointersTo, PointerTo
  <2>2. list[i] # NIL => Tells(ValidateAction(list[i]), WithItem(list[i], TRUE))
    BY ONLY <2>1, ActionTells
  <2>3. outcomes[i] = IF list[i] = NIL THEN Panic ELSE ValidateAction(list[i])
    OBVIOUS
  <2> QED BY ONLY <2>2, <2>3, Differ DEF Tells
<1>3. Tells(First(outcomes), \A i \in DOMAIN list : list[i] # NIL /\ WithItem(list[i], TRUE))
  BY ONLY <1>1, <1>2, Outcomes DEF Tells
<1>4. ValidateActions(list) = First(outcomes)
  BY DEF ValidateActions, EachFollowed, Follow
<1> QED BY ONLY <1>1, <1>3, <1>4 DEF Tells, PointersTo, PointerTo, IsList

LEMMA KeyTells ==
  ASSUME NEW columns, IsSlice(columns), NEW key, KeyShape(columns, key, FALSE)
  PROVE  Tells(ValidateKeyColumnNames(columns, key.names), KeyShape(columns, key, TRUE))
<1> PICK names : names = key.names
  OBVIOUS
<1> PICK n \in Nat : n = Len(names) /\ DOMAIN names = 1..n
  BY DEF KeyShape, IsSlice
<1> PICK m \in Nat : m = Len(columns)
  BY DEF IsSlice
<1> PICK outcome : outcome = ValidateKeyColumnNames(columns, names)
  OBVIOUS
<1>1. /\ outcome = OK => \A i \in 1..n : i <= m + 1
      /\ outcome = Panic => \E i \in 1..n : i > m + 1
  BY KeyNamesPass
<1>2. outcome = OK => n <= m + 1
  BY <1>1
<1>3. outcome = Panic => n > m + 1
  BY <1>1
<1>4. KeyShape(columns, key, TRUE) <=> n <= m + 1
  BY DEF KeyShape
<1>5. outcome = Panic => ~(n <= m + 1)
  BY <1>3
<1>6. Tells(outcome, n <= m + 1)
  BY ONLY <1>2, <1>5 DEF Tells
<1> QED BY ONLY <1>4, <1>6, outcome = ValidateKeyColumnNames(columns, names), names = key.names DEF Tells

LEMMA ColumnDefsAreSafe == ASSUME NEW list, IsSlice(list) PROVE ValidateColumnDefs(list) # Panic
<1> PICK outcomes : outcomes = [i \in DOMAIN list |-> ValidateColumnDef(list[i])]
  OBVIOUS
<1>1. ASSUME NEW column PROVE ValidateColumnDef(column) # Panic
  <2>1. IfAny(column.meta, ValidateFieldRef) # Panic /\ ValidateHideIf(column.hideIf) # Panic
    BY Differ, MustNeverPanics DEF IfAny, ValidateFieldRef, ValidateHideIf
  <2> QED BY <2>1, MustNeverPanics, ThreeStops DEF ValidateColumnDef
<1>2. IsList(outcomes) /\ \A i \in DOMAIN outcomes : outcomes[i] # Panic
  BY <1>1 DEF IsList, IsSlice
<1>3. ValidateColumnDefs(list) = First(outcomes)
  BY DEF ValidateColumnDefs, Each
<1> QED BY ONLY <1>2, <1>3, Outcomes

LEMMA RecordsetTells ==
  ASSUME NEW recordset, RecordsetShape(recordset, FALSE)
  PROVE  Tells(ValidateRecordset(recordset), RecordsetShape(recordset, TRUE))
<1> PICK columns : columns = recordset.columnDefs
  OBVIOUS
<1> PICK primary : primary = recordset.primaryKey
  OBVIOUS
<1> PICK alternate : alternate = recordset.alternateKeys
  OBVIOUS
<1>1. /\ ItemShape(recordset.item) /\ IsSlice(columns) /\ IsList(alternate)
      /\ primary # NIL => KeyShape(columns, primary, FALSE)
      /\ \A i \in DOMAIN alternate : KeyShape(columns, alternate[i], FALSE)
  BY DEF RecordsetShape
<1> PICK first : first = IF primary = NIL THEN OK ELSE ValidateKeyColumnNames(columns, primary.names)
  OBVIOUS
<1>2. Tells(first, primary = NIL \/ KeyShape(columns, primary, TRUE))
  <2>1. primary # NIL => Tells(ValidateKeyColumnNames(columns, primary.names), KeyShape(columns, primary, TRUE))
    BY <1>1, KeyTells
  <2> QED BY <2>1, Differ DEF Tells
<1> PICK others : others = [i \in DOMAIN alternate |-> ValidateKeyColumnNames(columns, alternate[i].names)]
  OBVIOUS
<1>3. \A i \in DOMAIN alternate : Tells(others[i], KeyShape(columns, alternate[i], TRUE))
  BY <1>1, KeyTells
<1>4. IsList(others) /\ DOMAIN others = DOMAIN alternate
  BY <1>1 DEF IsList
<1>5. Tells(First(others), \A i \in DOMAIN alternate : KeyShape(columns, alternate[i], TRUE))
  BY ONLY <1>3, <1>4, Outcomes DEF Tells
<1> PICK a, b, c, d :
      /\ a = ValidateItem(recordset.item, TRUE) /\ b = Must(recordset.type \in {"recordset", "json"})
      /\ c = Must(recordset.type = "json" => recordset.jsonSchema \notin {Nothing, Misspelt})
      /\ d = ValidateColumnDefs(columns)
  OBVIOUS
<1>6. ValidateRecordset(recordset) = First(<<a, b, c, d, first, First(others)>>)
  BY DEF ValidateRecordset, IfAny, Each
<1>7. a # Panic /\ b # Panic /\ c # Panic /\ d # Panic
  BY <1>1, ItemIsSafe, ColumnDefsAreSafe, MustNeverPanics
<1>8. /\ ValidateRecordset(recordset) = OK => first = OK /\ First(others) = OK
      /\ ValidateRecordset(recordset) = Panic => first = Panic \/ First(others) = Panic
  BY ONLY <1>6, <1>7, SixStops
<1>9. RecordsetShape(recordset, TRUE) <=>
        /\ primary = NIL \/ KeyShape(columns, primary, TRUE)
        /\ \A i \in DOMAIN alternate : KeyShape(columns, alternate[i], TRUE)
  BY <1>1 DEF RecordsetShape
<1> QED BY ONLY <1>2, <1>5, <1>8, <1>9 DEF Tells

LEMMA ProjectTells ==
  ASSUME NEW project, ProjectShape(project, FALSE)
  PROVE  Tells(ValidateProject(project), ProjectShape(project, TRUE))
<1> PICK a, b, c, d, e, f, g, h :
      /\ a = Must(project.access \in AccessLevels)
      /\ b = Must(project.item.title # TooLong)
      /\ c = ValidateEnvironments(project.environments)
      /\ d = ValidateEntities(project.entities)
      /\ e = ValidateDbModels(project.dbModels)
      /\ f = ValidateBoards(project.boards)
      /\ g = ValidateProjDbDrivers(project.dbDrivers)
      /\ h = ValidateActions(project.actions)
  OBVIOUS
<1>1. a # Panic
  BY MustNeverPanics
<1>2. b # Panic
  BY MustNeverPanics
<1>3. Tells(c, PointersTo(project.environments, EnvironmentShape, TRUE))
  BY EnvironmentsTell DEF ProjectShape
<1>4. Tells(d, PointersTo(project.entities, EntityShape, TRUE))
  BY EntitiesTell DEF ProjectShape
<1>5. Tells(e, PointersTo(project.dbModels, DbModelShape, TRUE))
  BY DbModelsTell DEF ProjectShape
<1>6. Tells(f, PointersTo(project.boards, BoardShape, TRUE))
  BY BoardsTell DEF ProjectShape
<1>7. Tells(g, PointersTo(project.dbDrivers, DriverShape, TRUE))
  BY DriversTell DEF ProjectShape
<1>8. Tells(h, PointersTo(project.actions, WithItem, TRUE))
  BY ActionsTell DEF ProjectShape
<1>9. ValidateProject(project) = First(<<a, b, c, d, e, f, g, h>>)
  BY DEF ValidateProject
<1>10. ProjectShape(project, TRUE) <=>
        /\ PointersTo(project.environments, EnvironmentShape, TRUE)
        /\ PointersTo(project.entities, EntityShape, TRUE)
        /\ PointersTo(project.dbModels, DbModelShape, TRUE)
        /\ PointersTo(project.boards, BoardShape, TRUE)
        /\ PointersTo(project.dbDrivers, DriverShape, TRUE)
        /\ PointersTo(project.actions, WithItem, TRUE)
  BY DEF ProjectShape
<1>11. /\ ValidateProject(project) = OK => c = OK /\ d = OK /\ e = OK /\ f = OK /\ g = OK /\ h = OK
       /\ ValidateProject(project) = Panic =>
            c = Panic \/ d = Panic \/ e = Panic \/ f = Panic \/ g = Panic \/ h = Panic
  <2>1. /\ ValidateProject(project) = OK =>
             a = OK /\ b = OK /\ c = OK /\ d = OK /\ e = OK /\ f = OK /\ g = OK /\ h = OK
        /\ ValidateProject(project) = Panic =>
             \/ a = Panic \/ b = Panic \/ c = Panic \/ d = Panic
             \/ e = Panic \/ f = Panic \/ g = Panic \/ h = Panic
    BY ONLY <1>9, EightStops
  <2> QED BY ONLY <1>1, <1>2, <2>1
<1>12. ASSUME ValidateProject(project) = OK PROVE ProjectShape(project, TRUE)
  <2>0. c = OK /\ d = OK /\ e = OK /\ f = OK /\ g = OK /\ h = OK
    BY <1>11, <1>12
  <2>1. PointersTo(project.environments, EnvironmentShape, TRUE)
    BY ONLY <1>3, <2>0 DEF Tells
  <2>2. PointersTo(project.entities, EntityShape, TRUE)
    BY ONLY <1>4, <2>0 DEF Tells
  <2>3. PointersTo(project.dbModels, DbModelShape, TRUE)
    BY ONLY <1>5, <2>0 DEF Tells
  <2>4. PointersTo(project.boards, BoardShape, TRUE)
    BY ONLY <1>6, <2>0 DEF Tells
  <2>5. PointersTo(project.dbDrivers, DriverShape, TRUE)
    BY ONLY <1>7, <2>0 DEF Tells
  <2>6. PointersTo(project.actions, WithItem, TRUE)
    BY ONLY <1>8, <2>0 DEF Tells
  <2> QED BY ONLY <2>1, <2>2, <2>3, <2>4, <2>5, <2>6, <1>10
<1>13. ASSUME ValidateProject(project) = Panic PROVE ~ProjectShape(project, TRUE)
  <2> SUFFICES ASSUME ProjectShape(project, TRUE) PROVE FALSE
    OBVIOUS
  <2>1. c # Panic
    BY ONLY <1>3, <1>10, ProjectShape(project, TRUE) DEF Tells
  <2>2. d # Panic
    BY ONLY <1>4, <1>10, ProjectShape(project, TRUE) DEF Tells
  <2>3. e # Panic
    BY ONLY <1>5, <1>10, ProjectShape(project, TRUE) DEF Tells
  <2>4. f # Panic
    BY ONLY <1>6, <1>10, ProjectShape(project, TRUE) DEF Tells
  <2>5. g # Panic
    BY ONLY <1>7, <1>10, ProjectShape(project, TRUE) DEF Tells
  <2>6. h # Panic
    BY ONLY <1>8, <1>10, ProjectShape(project, TRUE) DEF Tells
  <2>7. c = Panic \/ d = Panic \/ e = Panic \/ f = Panic \/ g = Panic \/ h = Panic
    BY <1>11, <1>13
  <2> QED BY ONLY <2>1, <2>2, <2>3, <2>4, <2>5, <2>6, <2>7
<1> QED BY ONLY <1>12, <1>13 DEF Tells

(* Any item, and its way through the store. *)

\* What a rule tells of an item whose type it is made for.
LEMMA RulesTell ==
  ASSUME NEW name \in Roots \ FolderTrees, NEW value, Shaped(name, value, FALSE)
  PROVE  /\ RulesOf(name, value) = Panic => ~Shaped(name, value, TRUE)
         /\ RulesOf(name, value) = OK /\ name # "DbModelFile" => Shaped(name, value, TRUE)
<1>1. CASE name = "Environment"
  BY <1>1, EnvironmentTells DEF RulesOf, Shaped, Tells
<1>2. CASE name = "Entity"
  BY <1>2, EntityTells DEF RulesOf, Shaped, Tells
<1>3. CASE name = "Board"
  BY <1>3, BoardTells DEF RulesOf, Shaped, Tells
<1>4. CASE name \in {"Query", "CountingQuery", "StructuredQuery"}
  <2>1. RulesOf(name, value) = ValidateQuery(value)
    BY <1>4 DEF RulesOf
  <2>2. \A safe : Shaped(name, value, safe) <=> QueryShape(value, FALSE)
    BY <1>4 DEF Shaped, QueryShape
  <2> QED BY <2>1, <2>2, QueryIsSafe
<1>5. CASE name = "QueryInFolder"
  <2>1. RulesOf(name, value) = ValidateQueryInFolder(value)
    BY <1>5 DEF RulesOf
  <2>2. \A safe : Shaped(name, value, safe) <=> QueryInFolderShape(value, FALSE)
    BY <1>5 DEF Shaped, QueryInFolderShape, QueryShape
  <2> QED BY <2>1, <2>2, QueryInFolderIsSafe
<1>6. CASE name = "Project"
  BY <1>6, ProjectTells DEF RulesOf, Shaped, Tells
<1>7. CASE name = "Driver"
  BY <1>7, DriverTells DEF RulesOf, Shaped, Tells
<1>8. CASE name = "DbModelFile"
  BY <1>8, DbModelFilePanics DEF RulesOf, Shaped
<1>9. CASE name = "EnvDb"
  <2> PICK a, b : a = ValidateItem(value.item, FALSE) /\ b = ValidateServerRef(value.server)
    OBVIOUS
  <2>1. a # Panic /\ b # Panic
    BY <1>9, ItemIsSafe, ServerRefIsSafe DEF Shaped, WithItem
  <2>2. ValidateEnvDb(value) = First(<<a, b>>)
    BY DEF ValidateEnvDb
  <2>3. ValidateEnvDb(value) # Panic
    BY ONLY <2>1, <2>2, TwoStops
  <2> QED BY <1>9, <2>3 DEF RulesOf, Shaped, WithItem
<1>10. CASE name = "User"
  <2>1. ListOf(value.stores, StoreShape, FALSE)
    BY <1>10 DEF Shaped, UserShape
  <2>2. Tells(ValidateUser(value), ListOf(value.stores, StoreShape, TRUE))
    BY <2>1, StoresTell DEF ValidateUser
  <2> QED BY <1>10, <2>2 DEF RulesOf, Shaped, UserShape, Tells
<1>11. CASE name = "Recordset"
  BY <1>11, RecordsetTells DEF RulesOf, Shaped, Tells
<1>12. CASE name \in {"ProjectFile", "Folder", "ServerFile", "SqliteServer"}
  <2>1. Shaped(name, value, TRUE)
    BY <1>12 DEF Shaped
  <2>2. ValidateFolder(value) # Panic
    BY MustNeverPanics DEF ValidateFolder
  <2>3. ValidateProjectFile(value) # Panic
    <3> PICK a, b : a = Must(value.created \notin {NIL, Nothing}) /\ b = Must(value.access \in AccessLevels)
      OBVIOUS
    <3>1. a # Panic /\ b # Panic
      BY MustNeverPanics
    <3>2. ValidateProjectFile(value) = First(<<a, b>>)
      BY DEF ValidateProjectFile
    <3> QED BY ONLY <3>1, <3>2, TwoStops
  <2>4. ValidateServerFile(value) # Panic
    <3> PICK a, b : /\ a = ValidateServerRef(value.server)
                    /\ b = Must(\A i \in DOMAIN value.catalogIds : ~IsBlank(value.catalogIds[i]))
      OBVIOUS
    <3>1. a # Panic /\ b # Panic
      BY MustNeverPanics, ServerRefIsSafe
    <3>2. ValidateServerFile(value) = First(<<a, b>>)
      BY DEF ValidateServerFile
    <3> QED BY ONLY <3>1, <3>2, TwoStops
  <2>5. RulesOf(name, value) # Panic
    BY <1>12, <2>2, <2>3, <2>4 DEF RulesOf
  <2> QED BY <2>1, <2>5
<1> QED BY <1>1, <1>2, <1>3, <1>4, <1>5, <1>6, <1>7, <1>8, <1>9, <1>10, <1>11, <1>12
        DEF Roots, StoredRoots, RefusedRoots, FolderTrees

\* JSON gives back every pointer there was.
LEMMA DecodedCardShape ==
  ASSUME NEW card, NEW safe, IsCard(card), CardShape(card, safe)
  PROVE  CardShape(CardDecoded(card), safe)
<1>1. CASE card.widget = NIL
  BY <1>1 DEF CardDecoded
<1>2. CASE card.widget # NIL
  <2> PICK widget, new, def, base :
        widget = card.widget /\ new = WidgetDecoded(widget) /\ def = widget.def /\ base = def.base
    OBVIOUS
  <2>1. IsWidget(widget) /\ new # NIL /\ WidgetShape(widget, safe)
    BY <1>2 DEF IsCard, CardShape, PointerTo
  <2>2. CardDecoded(card).widget = new
    BY <1>2 DEF CardDecoded, IsCard, CardOf
  <2> PICK made, changed :
        /\ made = [base EXCEPT !.parameters = ParametersDecoded(@)]
        /\ changed = [def EXCEPT !.base = made]
    OBVIOUS
  <2>3. new.name = widget.name /\ new.def = changed
    <3>1. new = [widget EXCEPT !.def = changed]
      BY DEF WidgetDecoded
    <3>2. DOMAIN widget = {"kind", "name", "def"}
      BY <2>1 DEF IsWidget, WidgetOf
    <3> QED BY ONLY <3>1, <3>2
  <2>4. ASSUME widget.name \in {"SQL", "HTTP", "tabs"} PROVE IsList(changed.base.parameters)
    <3>1. "base" \in DOMAIN def
      BY <2>1, <2>4 DEF IsWidget, DefFields, SQLWidget, HTTPWidget, TabsWidget
    <3>2. "parameters" \in DOMAIN base /\ AreParameters(base.parameters)
      BY <2>1, <2>4 DEF IsWidget, WidgetBase
    <3>3. changed.base.parameters = ParametersDecoded(base.parameters)
      BY <3>1, <3>2
    <3> QED BY <3>2, <3>3 DEF AreParameters, IsList, ParametersDecoded
  <2>5. ASSUME widget.name = "HTTP" PROVE IsList(changed.request.headers)
    <3>1. DOMAIN def = {"kind", "base", "request"}
      BY <2>1, <2>5 DEF IsWidget, DefFields, HTTPWidget
    <3>2. changed.request = def.request
      BY <3>1
    <3> QED BY <2>1, <2>5, <3>2 DEF WidgetShape
  <2>6. WidgetShape(new, safe)
    BY <2>3, <2>4, <2>5 DEF WidgetShape
  <2> QED BY <2>1, <2>2, <2>6 DEF CardShape, PointerTo
<1> QED BY <1>1, <1>2

LEMMA DecodedShape ==
  ASSUME NEW name, NEW value, IsOfType(name, value), NEW safe, Shaped(name, value, safe),
         NEW decoded, decoded = Decoded(name, value)
  PROVE  Shaped(name, decoded, safe)
<1>1. ASSUME NEW query, IsQuery(query), QueryShape(query, safe), NEW list, DOMAIN list = DOMAIN query.parameters
      PROVE  QueryShape([query EXCEPT !.parameters = list], safe)
  <2> PICK changed : changed = [query EXCEPT !.parameters = list]
    OBVIOUS
  <2>1. changed.item = query.item /\ changed.parameters = list
    BY <1>1 DEF IsQuery, Query
  <2>2. QueryShape(changed, safe)
    BY <1>1, <2>1 DEF QueryShape, IsList
  <2> QED BY <2>2
<1>2. CASE name \in {"Query", "CountingQuery"}
  <2>1. decoded = [value EXCEPT !.parameters = ParametersDecoded(@)]
    BY <1>2 DEF Decoded
  <2>2. DOMAIN ParametersDecoded(value.parameters) = DOMAIN value.parameters
    BY DEF ParametersDecoded
  <2>3. IsQuery(value) /\ QueryShape(value, safe)
    BY <1>2 DEF IsOfType, Shaped
  <2>4. QueryShape(decoded, safe)
    BY <1>1, <2>1, <2>2, <2>3
  <2> QED BY <1>2, <2>4 DEF Shaped
<1>3. CASE name = "QueryInFolder"
  <2>1. decoded = [value EXCEPT !.query.parameters = ParametersDecoded(@)]
    BY <1>3 DEF Decoded
  <2>2. DOMAIN value = DOMAIN QueryInFolder /\ IsQuery(value.query) /\ QueryShape(value.query, safe)
    BY <1>3 DEF IsOfType, Shaped, QueryInFolderShape
  <2> PICK query : query = value.query
    OBVIOUS
  <2> PICK list : list = ParametersDecoded(query.parameters)
    OBVIOUS
  <2>3. DOMAIN list = DOMAIN query.parameters
    BY DEF ParametersDecoded
  <2>4. decoded.query = [query EXCEPT !.parameters = list]
    BY <2>1, <2>2 DEF QueryInFolder
  <2>5. QueryShape(decoded.query, safe)
    BY <1>1, <2>2, <2>3, <2>4
  <2> QED BY <1>3, <2>5 DEF Shaped, QueryInFolderShape
<1>4. CASE name = "Entity"
  <2>1. decoded = [value EXCEPT !.item.tags = <<>>]
    BY <1>4 DEF Decoded
  <2>2. DOMAIN value = DOMAIN Entity /\ DOMAIN value.item = DOMAIN Item /\ EntityShape(value, safe)
    BY <1>4 DEF IsOfType, Shaped
  <2>3. decoded.fields = value.fields
    BY <2>1, <2>2 DEF Entity
  <2>4. decoded.item.userIds = value.item.userIds
    BY <2>1, <2>2 DEF Entity, Item
  <2>5. EntityShape(decoded, safe)
    BY <2>2, <2>3, <2>4 DEF EntityShape, ItemShape
  <2> QED BY <1>4, <2>5 DEF Shaped
<1>5. CASE name = "Board"
  <2>1. IsBoard(value) /\ BoardShape(value, safe) /\ decoded = BoardDecoded(value)
    BY <1>5 DEF IsOfType, Shaped, Decoded
  <2> PICK rows, new : rows = value.rows /\ new = [i \in DOMAIN value.rows |-> RowDecoded(value.rows[i])]
    OBVIOUS
  <2>2. decoded.item = value.item /\ decoded.rows = new
    BY <2>1 DEF BoardDecoded, IsBoard, Board
  <2>3. ASSUME NEW i \in DOMAIN rows
        PROVE  RowShape(new[i], safe)
    <3> PICK row, cards : row = rows[i] /\ cards = [j \in DOMAIN row.cards |-> CardDecoded(row.cards[j])]
      OBVIOUS
    <3>1. IsRow(row) /\ RowShape(row, safe) /\ new[i] = RowDecoded(row)
      BY <2>1 DEF IsBoard, BoardShape, ListOf
    <3>2. new[i].cards = cards
      BY <3>1 DEF RowDecoded, IsRow, Row
    <3>3. ASSUME NEW j \in DOMAIN row.cards
          PROVE  CardShape(CardDecoded(row.cards[j]), safe)
      <4>1. IsCard(row.cards[j]) /\ CardShape(row.cards[j], safe)
        BY <3>1 DEF IsRow, RowShape, ListOf
      <4> QED BY ONLY <4>1, DecodedCardShape
    <3>4. DOMAIN cards = DOMAIN row.cards /\ \A j \in DOMAIN cards : CardShape(cards[j], safe)
      <4>1. DOMAIN cards = DOMAIN row.cards /\ \A j \in DOMAIN row.cards : cards[j] = CardDecoded(row.cards[j])
        OBVIOUS
      <4> QED BY ONLY <3>3, <4>1
    <3>5. IsList(cards)
      BY <3>1, <3>4 DEF RowShape, ListOf, IsList
    <3> QED BY ONLY <3>2, <3>4, <3>5 DEF RowShape, ListOf
  <2>4. DOMAIN new = DOMAIN rows /\ IsList(new)
    BY <2>1 DEF BoardShape, ListOf, IsList
  <2>5. BoardShape(decoded, safe)
    BY <2>1, <2>2, <2>3, <2>4 DEF BoardShape, ListOf
  <2> QED BY <1>5, <2>5 DEF Shaped
<1>6. CASE name \notin {"Query", "CountingQuery", "QueryInFolder", "Entity", "Board"}
  BY <1>6 DEF Decoded
<1> QED BY <1>2, <1>3, <1>4, <1>5, <1>6

\* What validation has said of the item, as the item is now.
Said ==
  /\ verdict = Panic => ~Shaped(root, item, TRUE)
  /\ verdict = OK /\ root # "DbModelFile" => Shaped(root, item, TRUE)
SaidInv == root \in Roots /\ (Validated /\ root \notin FolderTrees => Said)

LEMMA StoredRootsAreRoots == StoredRoots \subseteq Roots /\ StoredRoots \cap FolderTrees = {} /\ "DbModelFile" \notin StoredRoots
BY DEF StoredRoots, Roots, FolderTrees

\* A validation leaves the pointers of an item as they are.
LEMMA ValidationSays ==
  ASSUME root \in Roots, Shaped(root, item, FALSE), NEW outcome, outcome = RulesOf(root, item),
         verdict' = outcome, root' = root, item' \in AfterValidation(root, item, outcome)
  PROVE  SaidInv'
<1> SUFFICES ASSUME root \notin FolderTrees PROVE Said'
  BY DEF SaidInv
<1>1. CASE root = "Folder"
  <2>1. ValidateFolder(item) # Panic
    BY MustNeverPanics DEF ValidateFolder
  <2>2. outcome # Panic
    BY <1>1, <2>1 DEF RulesOf
  <2>3. Shaped(root', item', TRUE)
    BY <1>1 DEF Shaped
  <2> QED BY <2>2, <2>3 DEF Said
<1>2. CASE root # "Folder"
  <2>1. item' = item
    BY <1>2 DEF AfterValidation
  <2>2. /\ outcome = Panic => ~Shaped(root, item, TRUE)
        /\ outcome = OK /\ root # "DbModelFile" => Shaped(root, item, TRUE)
    BY RulesTell
  <2>3. Shaped(root', item', TRUE) <=> Shaped(root, item, TRUE)
    BY <2>1
  <2> QED BY <2>2, <2>3 DEF Said
<1> QED BY <1>1, <1>2

LEMMA SaidStep == LifeInv /\ SaidInv /\ [ItemNext]_itemVars => SaidInv'
<1> SUFFICES ASSUME LifeInv, SaidInv, [ItemNext]_itemVars PROVE SaidInv'
  OBVIOUS
<1>0. root \in Roots
  BY DEF SaidInv
<1>1. CASE Check
  <2>1. /\ step = "made" /\ verdict' = RulesOf(root, item) /\ root' = root /\ item' = item
    BY <1>1 DEF Check
  <2>2. Shaped(root, item, FALSE)
    BY <2>1 DEF LifeInv, IsOfType
  <2>3. root # "Folder"
    BY <1>1 DEF Check, StoredRoots
  <2>4. item' \in AfterValidation(root, item, RulesOf(root, item))
    BY <2>1, <2>3 DEF AfterValidation
  <2> QED BY <1>0, <2>1, <2>2, <2>4, ValidationSays
<1>2. CASE Save
  <2>1. /\ step = "made" /\ verdict' = RulesOf(root, item) /\ root' = root
        /\ item' \in AfterValidation(root, item, RulesOf(root, item))
    BY <1>2 DEF Save, SaveJSONFile
  <2>2. Shaped(root, item, FALSE)
    BY <2>1 DEF LifeInv, IsOfType
  <2> QED BY <1>0, <2>1, <2>2, ValidationSays
<1>3. CASE Load
  <2>1. step = "saved" /\ item' = Decoded(root, file) /\ root' = root /\ verdict' = verdict
    BY <1>3 DEF Load
  <2>2. Passed(root, file) /\ verdict = OK
    BY <2>1 DEF LifeInv
  <2>3. IsOfType(root, file) /\ Shaped(root, file, FALSE) /\ RulesOf(root, file) = OK /\ root \in StoredRoots
    BY <2>2 DEF Passed, IsOfType
  <2>4. Shaped(root, file, TRUE)
    BY <1>0, <2>3, RulesTell, StoredRootsAreRoots
  <2>5. Shaped(root', item', TRUE)
    BY <2>1, <2>3, <2>4, DecodedShape
  <2> QED BY <1>0, <2>1, <2>2, <2>5, Differ DEF SaidInv, Said
<1>4. CASE SaveAgain
  <2>1. /\ step = "loaded" /\ verdict' = RulesOf(root, item) /\ root' = root
        /\ item' \in AfterValidation(root, item, RulesOf(root, item))
    BY <1>4 DEF SaveAgain, SaveJSONFile
  <2>2. Passed(root, file) /\ item = Decoded(root, file)
    BY <2>1 DEF LifeInv
  <2>3. IsOfType(root, file) /\ Shaped(root, file, FALSE)
    BY <2>2 DEF Passed, IsOfType
  <2>4. Shaped(root, item, FALSE)
    BY <2>2, <2>3, DecodedShape
  <2> QED BY <1>0, <2>1, <2>4, ValidationSays
<1>5. CASE UNCHANGED itemVars
  BY <1>5 DEF SaidInv, Said, Validated, itemVars
<1> QED BY <1>1, <1>2, <1>3, <1>4, <1>5 DEF ItemNext

\* However many nil pointers, unsound fields and long keys an item has: a panic means that there
\* is something to fall over, an acceptance that there is not, and what was accepted does not
\* panic once it has been saved and loaded either.
THEOREM PanicsHaveCauses == ItemSpec => []PanicsAreNilOrLongKeys
<1>1. ItemInit => SaidInv
  <2> SUFFICES ASSUME ItemInit PROVE SaidInv
    OBVIOUS
  <2>1. root \in Roots
    BY InputsAssumption DEF ItemInit, Roots
  <2> QED BY <2>1 DEF ItemInit, SaidInv, Validated
<1>2. SaidInv /\ OnlyLongKeysPanic => PanicsAreNilOrLongKeys
  BY DEF SaidInv, Said, PanicsAreNilOrLongKeys
<1>3. LifeInv /\ SaidInv /\ [ItemNext]_itemVars => SaidInv'
  BY SaidStep
<1> QED BY <1>1, <1>2, <1>3, LifeInvariance, LongKeysAlonePanic, PTL DEF ItemSpec
===============================================================================
