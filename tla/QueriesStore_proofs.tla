-------------------------- MODULE QueriesStore_proofs --------------------------
(***************************************************************************)
(* Proofs about the queries store for any number of callers, folders, IDs, *)
(* texts and types: what settles stays, no text comes before its query, an *)
(* edited README is kept, and the store implements QueryTable.             *)
(***************************************************************************)
EXTENDS QueriesStore, TLAPS

\* What a call is doing tells which call it is.
StepsOfCalls ==
  \A c \in Clients :
    LET call == client[c]
    IN  /\ call.step = "none" <=> call.op = "idle"
        /\ call.step = "mkdir" => call.op \in {"create", "save", "folder"}
        /\ call.step \in {"create", "write"} => call.op \in {"create", "save"}
        /\ call.step \in {"createText", "writeText"} => call.op = "create" /\ call.query.text # NoText
        /\ call.step \in {"stat", "remove"} => call.op = "delete"
        /\ call.step \in {"statReadme", "writeReadme"} => call.op = "folder"
        /\ call.linked => call.step = "write"

\* Of two calls that are about to change the same place, each knows of the other.
RacesAreMutual ==
  \A c, d \in Clients :
    (c # d /\ \E place \in Places : Changes(c, place) /\ Changes(d, place)) => client[c].raced

\* Nothing is known of a place that is being changed.
BusyPlacesUnsettled ==
  \A c \in Clients, place \in Places : Changes(c, place) => settled[place].op = Unknown

\* The JSON file a call has opened is still there, if nobody has removed it; a
\* call that nobody races finds it as it has left it.
OpenFilesExist == \A c \in Clients : client[c].linked => json[client[c].place] # Absent
UnracedCallsKeepTheirFile ==
  \A c \in Clients : ~client[c].raced =>
    /\ client[c].step = "write" => client[c].linked
    /\ client[c].step \in {"createText", "writeText"} => json[client[c].place] = Encoded(c)

\* Whoever writes a text has opened the query's file before.
WritersHaveOpened ==
  \A c \in Clients : client[c].step \in {"write", "createText", "writeText"} => client[c].place \in once

\* A README that was edited after CreateQueryFolder found none.
LateEditsAreRaces ==
  \A c \in Clients :
    (client[c].step = "writeReadme" /\ readme[FolderOf(client[c].place)] = "edited") => client[c].raced

CallInv == TypeOK /\ StepsOfCalls
IInv ==
  /\ CallInv
  /\ RacesAreMutual
  /\ BusyPlacesUnsettled
  /\ OpenFilesExist
  /\ UnracedCallsKeepTheirFile
  /\ WritersHaveOpened
  /\ LateEditsAreRaces
  /\ SettledQueriesKept
  /\ NoTextBeforeQuery

-----------------------------------------------------------------------------
\* The calls a client can be in.
CallSet ==
  [op : {"idle", "create", "save", "delete", "folder"}, place : Places, query : Queries,
   step : {"none", "mkdir", "create", "write", "createText", "writeText", "stat", "remove",
           "statReadme", "writeReadme"},
   linked : BOOLEAN, raced : BOOLEAN]

\* NoCall is a call in which nothing is done.
LEMMA NoCallIsIdle ==
  /\ NoCall \in CallSet
  /\ NoCall.op = "idle" /\ NoCall.step = "none"
  /\ ~NoCall.linked /\ ~NoCall.raced
<1>1. PICK id \in Ids : id = CHOOSE i \in Ids : TRUE
  BY NonemptyAssumption
<1>2. PICK type \in Types : type = CHOOSE t \in Types : TRUE
  BY NonemptyAssumption
<1>3. <<Root, id>> \in Places
  BY RootAssumption DEF Places
<1>4. [type |-> type, text |-> NoText] \in Queries
  BY DEF Queries
<1> QED BY <1>1, <1>2, <1>3, <1>4 DEF NoCall, CallSet

\* A place is in a folder.
LEMMA FoldersOfPlaces == \A place \in Places : FolderOf(place) \in Folders
BY DEF Places, FolderOf

\* A query encoded with or without its text is a query.
LEMMA EncodedIsQuery ==
  ASSUME NEW c \in Clients, client[c] \in CallSet
  PROVE  Encoded(c) \in Queries
BY DEF Encoded, CallSet, Queries

\* The first states satisfy the invariant.
LEMMA InitIInv == Init => IInv
<1> SUFFICES ASSUME Init PROVE IInv
  OBVIOUS
<1> USE NoCallIsIdle DEF Init
<1>1. TypeOK
  BY DEF TypeOK, Nobody, CallSet, Unknown
<1>2. StepsOfCalls /\ RacesAreMutual /\ BusyPlacesUnsettled /\ OpenFilesExist
  BY DEF StepsOfCalls, RacesAreMutual, BusyPlacesUnsettled, OpenFilesExist, Changes, Busy
<1>3. UnracedCallsKeepTheirFile /\ WritersHaveOpened /\ LateEditsAreRaces
  BY DEF UnracedCallsKeepTheirFile, WritersHaveOpened, LateEditsAreRaces
<1>4. SettledQueriesKept
  BY DEF SettledQueriesKept, Nobody
<1>5. NoTextBeforeQuery
  BY DEF NoTextBeforeQuery
<1> QED BY <1>1, <1>2, <1>3, <1>4, <1>5 DEF IInv, CallInv

-----------------------------------------------------------------------------
\* What a step does to the call it belongs to, the others left alone.

Others(c) == \A d \in Clients \ {c} : client'[d] = client[d]
Continues(c) ==
  /\ client' \in [Clients -> CallSet] /\ Others(c)
  /\ client'[c].op = client[c].op /\ client'[c].place = client[c].place
  /\ client'[c].query = client[c].query /\ client'[c].raced = client[c].raced
Returns(c) == client' \in [Clients -> CallSet] /\ Others(c) /\ client'[c] = NoCall

LEMMA GoesContinues ==
  ASSUME NEW c \in Clients, TypeOK, NEW step, Goes(c, step),
         step \in {"none", "mkdir", "create", "write", "createText", "writeText", "stat", "remove",
                   "statReadme", "writeReadme"}
  PROVE  Continues(c) /\ client'[c].step = step /\ client'[c].linked = client[c].linked
BY DEF Goes, Continues, Others, CallSet, TypeOK

LEMMA ReturnReturns ==
  ASSUME NEW c \in Clients, TypeOK, Return(c)
  PROVE  Returns(c)
BY NoCallIsIdle DEF Return, Returns, Others, CallSet, TypeOK

\* No call begins or learns of a race by another one going on or returning.
LEMMA GoingOnChangesNoMore ==
  ASSUME NEW c \in Clients, IInv, Continues(c) \/ Returns(c)
  PROVE  /\ RacesAreMutual'
         /\ settled' = settled => BusyPlacesUnsettled'
<1>1. \A d \in Clients, place \in Places : Changes(d, place)' => Changes(d, place)
  BY NoCallIsIdle DEF Continues, Returns, Others, Changes, Busy
<1>2. \A d \in Clients : \/ client'[d].raced = client[d].raced
                         \/ client'[d].op = "idle"
  BY NoCallIsIdle DEF Continues, Returns, Others
<1>3. RacesAreMutual'
  BY <1>1, <1>2 DEF IInv, RacesAreMutual, Changes, Busy
<1>4. settled' = settled => BusyPlacesUnsettled'
  BY <1>1 DEF IInv, BusyPlacesUnsettled
<1> QED BY <1>3, <1>4

\* A call that succeeds without having raced another one settles its place,
\* which no other call is changing.
LEMMA SuccessSettles ==
  ASSUME NEW c \in Clients, IInv, Succeed(c), client[c].op \in {"create", "save", "delete"}
  PROVE  /\ Returns(c)
         /\ settled' \in [Places -> [op : {"create", "save", "delete", Unknown}, query : Queries]]
         /\ \A place \in Places :
              \/ settled'[place] = settled[place]
              \/ /\ ~client[c].raced /\ place = client[c].place
                 /\ settled'[place] = [op |-> client[c].op, query |-> client[c].query]
         /\ RacesAreMutual'
         /\ BusyPlacesUnsettled'
<1> USE DEF IInv, CallInv
<1>0. client[c] \in CallSet
  BY DEF TypeOK, CallSet
<1>1. Returns(c)
  BY ReturnReturns DEF Succeed
<1>2. settled' \in [Places -> [op : {"create", "save", "delete", Unknown}, query : Queries]]
  BY <1>0 DEF Succeed, TypeOK, CallSet
<1>3. \A place \in Places :
        \/ settled'[place] = settled[place]
        \/ /\ ~client[c].raced /\ place = client[c].place
           /\ settled'[place] = [op |-> client[c].op, query |-> client[c].query]
  BY DEF Succeed, TypeOK
<1>4. RacesAreMutual'
  BY <1>1, GoingOnChangesNoMore
<1>5. BusyPlacesUnsettled'
  <2> SUFFICES ASSUME NEW d \in Clients, NEW place \in Places, Changes(d, place)'
               PROVE  settled'[place].op = Unknown
    BY DEF BusyPlacesUnsettled
  <2>1. d # c /\ Changes(d, place)
    BY <1>1, NoCallIsIdle DEF Returns, Others, Changes, Busy
  <2>2. settled[place].op = Unknown
    BY <2>1 DEF BusyPlacesUnsettled
  <2>3. client[c].place = place => client[c].raced
    BY <2>1, <1>0 DEF RacesAreMutual, Changes, Busy, CallSet
  <2> QED BY <1>3, <2>2, <2>3
<1> QED BY <1>1, <1>2, <1>3, <1>4, <1>5

-----------------------------------------------------------------------------
\* One lemma per action: the step keeps every conjunct of the invariant.

LEMMA StopStep ==
  ASSUME NEW c \in Clients, IInv, Stop(c)
  PROVE  IInv'
<1> USE DEF IInv, CallInv
<1>0. Returns(c) /\ UNCHANGED <<json, texts, dirs, readme, settled, once>>
  BY ReturnReturns DEF Stop, disk, history
<1>1. CallInv'
  BY SMTT(30), <1>0, NoCallIsIdle DEF TypeOK, StepsOfCalls, Returns, Others, CallSet
<1>2. RacesAreMutual' /\ BusyPlacesUnsettled'
  BY <1>0, GoingOnChangesNoMore
<1>3. OpenFilesExist' /\ UnracedCallsKeepTheirFile' /\ WritersHaveOpened' /\ LateEditsAreRaces'
  BY <1>0, NoCallIsIdle DEF OpenFilesExist, UnracedCallsKeepTheirFile, WritersHaveOpened,
     LateEditsAreRaces, Encoded, Returns, Others
<1>4. SettledQueriesKept' /\ NoTextBeforeQuery'
  BY <1>0 DEF SettledQueriesKept, NoTextBeforeQuery
<1> QED BY <1>1, <1>2, <1>3, <1>4

LEMMA MkdirAllStep ==
  ASSUME NEW c \in Clients, IInv, MkdirAll(c)
  PROVE  IInv'
<1> USE DEF IInv, CallInv
<1>0. /\ Continues(c) /\ client'[c].step \in {"statReadme", "create"}
      /\ client'[c].step = "statReadme" <=> client[c].op = "folder"
      /\ client'[c].linked = client[c].linked
      /\ client[c].step = "mkdir"
      /\ UNCHANGED <<json, texts, readme, settled, once>>
  BY GoesContinues DEF MkdirAll, history
<1>1. CallInv'
  <2>1. Made(c) \subseteq Folders
    BY FoldersOfPlaces, RootAssumption DEF Made, TypeOK
  <2>2. TypeOK'
    BY <1>0, <2>1 DEF TypeOK, MkdirAll, Continues, CallSet
  <2>3. StepsOfCalls'
    BY <1>0 DEF StepsOfCalls, Continues, Others
  <2> QED BY <2>2, <2>3
<1>2. RacesAreMutual' /\ BusyPlacesUnsettled'
  BY <1>0, GoingOnChangesNoMore
<1>3. OpenFilesExist' /\ UnracedCallsKeepTheirFile' /\ WritersHaveOpened' /\ LateEditsAreRaces'
  BY <1>0 DEF OpenFilesExist, UnracedCallsKeepTheirFile, WritersHaveOpened,
     LateEditsAreRaces, Encoded, Continues, Others
<1>4. SettledQueriesKept' /\ NoTextBeforeQuery'
  BY <1>0 DEF SettledQueriesKept, NoTextBeforeQuery
<1> QED BY <1>1, <1>2, <1>3, <1>4

LEMMA CreateStep ==
  ASSUME NEW c \in Clients, IInv, Create(c)
  PROVE  IInv'
<1> DEFINE place == client[c].place
<1> USE DEF IInv, CallInv
<1>0. /\ client[c] \in CallSet /\ client[c].step = "create" /\ client[c].op \in {"create", "save"}
      /\ place \in Places
  BY DEF TypeOK, StepsOfCalls, CallSet, Create
<1>a. CASE ~(FolderOf(place) \in dirs)
  <2>1. Stop(c)
    BY <1>a, <1>0 DEF Create, Stop, Busy, disk, history
  <2> QED BY <2>1, StopStep
<1>b. CASE FolderOf(place) \in dirs
  <2>0. /\ Continues(c) /\ client'[c].step = "write" /\ client'[c].linked
        /\ json' = [json EXCEPT ![place] = Empty]
        /\ once' = once \cup {place}
        /\ UNCHANGED <<texts, dirs, readme, settled>>
    BY <1>b, <1>0 DEF Create, Continues, Others, TypeOK, CallSet
  <2> HIDE DEF place
  <2>1. TypeOK'
    BY <2>0, <1>0 DEF TypeOK, Continues, CallSet
  <2>2. StepsOfCalls'
    BY <2>0, <1>0 DEF StepsOfCalls, Continues, Others
  <2>3. RacesAreMutual' /\ BusyPlacesUnsettled'
    BY <2>0, GoingOnChangesNoMore
  <2>4. settled[place].op = Unknown /\ \A d \in Clients \ {c} : Changes(d, place) => client[d].raced
    BY <1>0 DEF BusyPlacesUnsettled, RacesAreMutual, Changes, Busy, place
  <2>5. OpenFilesExist'
    BY <2>0, <1>0, MarkersAssumption DEF OpenFilesExist, Continues, Others, TypeOK, place
  <2>6. UnracedCallsKeepTheirFile'
    <3> SUFFICES ASSUME NEW d \in Clients, ~client'[d].raced
                 PROVE  /\ client'[d].step = "write" => client'[d].linked
                        /\ client'[d].step \in {"createText", "writeText"} =>
                             json'[client'[d].place] = Encoded(d)'
      BY DEF UnracedCallsKeepTheirFile
    <3>1. CASE d = c
      BY <3>1, <2>0
    <3>2. CASE d # c
      <4>1. client'[d] = client[d]
        BY <3>2, <2>0 DEF Continues, Others
      <4>2. client[d].step \in {"createText", "writeText"} => client[d].place # place
        BY <4>1, <3>2, <2>4 DEF StepsOfCalls, Changes, Busy
      <4> QED BY <4>1, <4>2, <2>0, <1>0 DEF UnracedCallsKeepTheirFile, Encoded, TypeOK, CallSet
    <3> QED BY <3>1, <3>2
  <2>7. WritersHaveOpened' /\ LateEditsAreRaces'
    BY <2>0 DEF WritersHaveOpened, LateEditsAreRaces, Continues, Others, place
  <2>8. SettledQueriesKept'
    BY <2>0, <2>4, <1>0 DEF SettledQueriesKept, TypeOK, Unknown
  <2>9. NoTextBeforeQuery'
    BY <2>0 DEF NoTextBeforeQuery
  <2> QED BY <2>1, <2>2, <2>3, <2>5, <2>6, <2>7, <2>8, <2>9
<1> QED BY <1>a, <1>b

LEMMA WriteStep ==
  ASSUME NEW c \in Clients, IInv, Write(c)
  PROVE  IInv'
<1> DEFINE place == client[c].place
<1> USE DEF IInv, CallInv
<1>0. /\ client[c] \in CallSet /\ client[c].step = "write" /\ client[c].op \in {"create", "save"}
      /\ place \in Places /\ Encoded(c) \in Queries
      /\ json' = (IF client[c].linked THEN [json EXCEPT ![place] = Encoded(c)] ELSE json)
      /\ UNCHANGED <<texts, dirs, readme, once>>
  BY EncodedIsQuery DEF TypeOK, StepsOfCalls, CallSet, Write, Written
<1>1. /\ settled[place].op = Unknown
      /\ \A d \in Clients \ {c} : Changes(d, place) => client[d].raced
  BY <1>0 DEF BusyPlacesUnsettled, RacesAreMutual, Changes, Busy
<1>2. ~client[c].raced => json'[place] = Encoded(c)
  BY <1>0 DEF UnracedCallsKeepTheirFile, TypeOK
<1>3. \A p \in Places : json[p] # Absent => json'[p] # Absent
  BY <1>0, MarkersAssumption DEF TypeOK
<1>4. \A p \in Places : p # place => json'[p] = json[p]
  BY <1>0 DEF TypeOK
<1>5. json' \in [Places -> Queries \cup {Absent, Empty}]
  BY <1>0 DEF TypeOK
\* The calls of the others find what they have left, or are raced.
<1>6. \A d \in Clients \ {c} : ~client[d].raced /\ client[d].step \in {"createText", "writeText"}
        => json'[client[d].place] = Encoded(d)
  BY <1>1, <1>4 DEF UnracedCallsKeepTheirFile, StepsOfCalls, Changes, Busy, TypeOK, CallSet
<1>a. CASE HasTextFile(c)
  <2>0. /\ Continues(c) /\ client'[c].step = "createText" /\ ~client'[c].linked
        /\ client[c].op = "create" /\ client[c].query.text # NoText
        /\ UNCHANGED settled
    BY <1>a, <1>0 DEF HasTextFile, Write, Continues, Others, TypeOK, CallSet
  <2> HIDE DEF place
  <2>1. TypeOK'
    BY <2>0, <1>0, <1>5 DEF TypeOK, Continues, CallSet
  <2>2. StepsOfCalls'
    BY <2>0 DEF StepsOfCalls, Continues, Others
  <2>3. RacesAreMutual' /\ BusyPlacesUnsettled'
    BY <2>0, GoingOnChangesNoMore
  <2>4. OpenFilesExist'
    BY <2>0, <1>3 DEF OpenFilesExist, Continues, Others, TypeOK, CallSet
  <2>5. UnracedCallsKeepTheirFile'
    BY <2>0, <1>2, <1>6 DEF UnracedCallsKeepTheirFile, Encoded, Continues, Others, place
  <2>6. WritersHaveOpened' /\ LateEditsAreRaces'
    BY <2>0, <1>0 DEF WritersHaveOpened, LateEditsAreRaces, Continues, Others
  <2>7. SettledQueriesKept'
    BY <2>0, <1>0, <1>1, <1>4 DEF SettledQueriesKept, Unknown
  <2>8. NoTextBeforeQuery'
    BY <1>0 DEF NoTextBeforeQuery
  <2> QED BY <2>1, <2>2, <2>3, <2>4, <2>5, <2>6, <2>7, <2>8
<1>b. CASE ~HasTextFile(c)
  <2>0. Succeed(c)
    BY <1>b DEF Write
  <2>1. /\ Returns(c) /\ RacesAreMutual' /\ BusyPlacesUnsettled'
        /\ settled' \in [Places -> [op : {"create", "save", "delete", Unknown}, query : Queries]]
        /\ \A p \in Places :
             \/ settled'[p] = settled[p]
             \/ /\ ~client[c].raced /\ p = place
                /\ settled'[p] = [op |-> client[c].op, query |-> client[c].query]
    BY <2>0, <1>0, SuccessSettles
  <2> HIDE DEF place
  <2>2. TypeOK'
    BY <2>1, <1>0, <1>5 DEF TypeOK, Returns, CallSet
  <2>3. StepsOfCalls'
    BY <2>1, NoCallIsIdle DEF StepsOfCalls, Returns, Others
  <2>4. OpenFilesExist'
    BY <2>1, <1>3, NoCallIsIdle DEF OpenFilesExist, Returns, Others, TypeOK, CallSet
  <2>5. UnracedCallsKeepTheirFile'
    BY <2>1, <1>6, NoCallIsIdle DEF UnracedCallsKeepTheirFile, Encoded, Returns, Others
  <2>6. WritersHaveOpened' /\ LateEditsAreRaces'
    BY <2>1, <1>0, NoCallIsIdle DEF WritersHaveOpened, LateEditsAreRaces, Returns, Others
  <2>7. SettledQueriesKept'
    <3> SUFFICES ASSUME NEW p \in Places
                 PROVE  LET last == settled'[p]
                        IN  /\ last.op = "create" =>
                                 /\ json'[p] = [last.query EXCEPT !.text = NoText]
                                 /\ last.query.text # NoText => texts'[<<p, last.query.type>>] = last.query.text
                            /\ last.op = "save" => json'[p] = last.query
                            /\ last.op = "delete" => json'[p] = Absent
      BY DEF SettledQueriesKept
    <3>1. CASE p # place
      BY <3>1, <2>1, <1>4, <1>0 DEF SettledQueriesKept
    <3>2. CASE p = place /\ settled'[p] = settled[p]
      BY <3>2, <1>1 DEF Unknown
    <3>3. CASE ~client[c].raced /\ p = place /\ settled'[p] = [op |-> client[c].op, query |-> client[c].query]
      BY <3>3, <1>0, <1>2, <1>b DEF HasTextFile, Encoded
    <3> QED BY <3>1, <3>2, <3>3, <2>1
  <2>8. NoTextBeforeQuery'
    BY <1>0 DEF NoTextBeforeQuery
  <2> QED BY <2>1, <2>2, <2>3, <2>4, <2>5, <2>6, <2>7, <2>8
<1> QED BY <1>a, <1>b

LEMMA CreateTextStep ==
  ASSUME NEW c \in Clients, IInv, CreateText(c)
  PROVE  IInv'
<1> DEFINE place == client[c].place
<1> USE DEF IInv, CallInv
<1>0. /\ client[c] \in CallSet /\ client[c].step = "createText" /\ client[c].op = "create"
      /\ client[c].query.text # NoText /\ place \in Places /\ client[c].query.type \in Types
      /\ Continues(c) /\ client'[c].step = "writeText" /\ client'[c].linked = client[c].linked
      /\ texts' = [texts EXCEPT ![<<place, client[c].query.type>>] = Empty]
      /\ UNCHANGED <<json, dirs, readme, settled, once>>
  BY GoesContinues DEF TypeOK, StepsOfCalls, CallSet, Queries, CreateText, TextFile, history
<1> HIDE DEF place
<1>1. TypeOK'
  BY <1>0 DEF TypeOK, Continues, CallSet
<1>2. StepsOfCalls'
  BY <1>0 DEF StepsOfCalls, Continues, Others
<1>3. RacesAreMutual' /\ BusyPlacesUnsettled'
  BY <1>0, GoingOnChangesNoMore
<1>4. OpenFilesExist' /\ UnracedCallsKeepTheirFile' /\ WritersHaveOpened' /\ LateEditsAreRaces'
  BY <1>0 DEF OpenFilesExist, UnracedCallsKeepTheirFile, WritersHaveOpened,
     LateEditsAreRaces, Encoded, Continues, Others
<1>5. settled[place].op = Unknown
  BY <1>0 DEF BusyPlacesUnsettled, Changes, Busy, place
<1>6. \A p \in Places, type \in Types : p # place => texts'[<<p, type>>] = texts[<<p, type>>]
  BY <1>0 DEF TypeOK
<1>7. SettledQueriesKept'
  BY <1>0, <1>5, <1>6 DEF SettledQueriesKept, Unknown, TypeOK, Queries
<1>8. NoTextBeforeQuery'
  BY <1>0, <1>6 DEF NoTextBeforeQuery, WritersHaveOpened, place
<1> QED BY <1>1, <1>2, <1>3, <1>4, <1>7, <1>8

LEMMA WriteTextStep ==
  ASSUME NEW c \in Clients, IInv, WriteText(c)
  PROVE  IInv'
<1> DEFINE place == client[c].place
           query == client[c].query
<1> USE DEF IInv, CallInv
<1>0. /\ client[c] \in CallSet /\ client[c].step = "writeText" /\ client[c].op = "create"
      /\ place \in Places /\ query.type \in Types /\ query.text \in Texts /\ query.text # NoText
      /\ texts' = [texts EXCEPT ![<<place, query.type>>] = query.text]
      /\ UNCHANGED <<json, dirs, readme, once>>
      /\ Succeed(c)
  BY DEF TypeOK, StepsOfCalls, CallSet, Queries, WriteText, TextFile
<1>1. /\ Returns(c) /\ RacesAreMutual' /\ BusyPlacesUnsettled'
      /\ settled' \in [Places -> [op : {"create", "save", "delete", Unknown}, query : Queries]]
      /\ \A p \in Places :
           \/ settled'[p] = settled[p]
           \/ /\ ~client[c].raced /\ p = place
              /\ settled'[p] = [op |-> client[c].op, query |-> query]
  BY <1>0, SuccessSettles
<1>2. ~client[c].raced => json[place] = [query EXCEPT !.text = NoText]
  BY <1>0 DEF UnracedCallsKeepTheirFile, Encoded
<1>3. settled[place].op = Unknown /\ place \in once
  BY <1>0 DEF BusyPlacesUnsettled, WritersHaveOpened, Changes, Busy
<1>4. \A p \in Places, type \in Types : p # place => texts'[<<p, type>>] = texts[<<p, type>>]
  BY <1>0 DEF TypeOK
<1>5. texts'[<<place, query.type>>] = query.text
  BY <1>0 DEF TypeOK
<1> HIDE DEF place, query
<1>6. TypeOK'
  BY <1>0, <1>1 DEF TypeOK, Returns, CallSet
<1>7. StepsOfCalls'
  BY <1>1, NoCallIsIdle DEF StepsOfCalls, Returns, Others
<1>8. OpenFilesExist' /\ UnracedCallsKeepTheirFile' /\ WritersHaveOpened' /\ LateEditsAreRaces'
  BY <1>0, <1>1, NoCallIsIdle DEF OpenFilesExist, UnracedCallsKeepTheirFile, WritersHaveOpened,
     LateEditsAreRaces, Encoded, Returns, Others
<1>9. SettledQueriesKept'
  <2> SUFFICES ASSUME NEW p \in Places
               PROVE  LET last == settled'[p]
                      IN  /\ last.op = "create" =>
                               /\ json'[p] = [last.query EXCEPT !.text = NoText]
                               /\ last.query.text # NoText => texts'[<<p, last.query.type>>] = last.query.text
                          /\ last.op = "save" => json'[p] = last.query
                          /\ last.op = "delete" => json'[p] = Absent
    BY DEF SettledQueriesKept
  <2>1. CASE p # place
    <3>1. settled'[p] = settled[p] /\ settled[p].query.type \in Types /\ json'[p] = json[p]
      BY <2>1, <1>0, <1>1 DEF TypeOK, Queries
    <3> QED BY <2>1, <3>1, <1>4 DEF SettledQueriesKept
  <2>2. CASE p = place /\ settled'[p] = settled[p]
    BY <2>2, <1>3 DEF Unknown
  <2>3. CASE ~client[c].raced /\ p = place /\ settled'[p] = [op |-> client[c].op, query |-> query]
    BY <2>3, <1>0, <1>2, <1>5
  <2> QED BY <2>1, <2>2, <2>3, <1>1
<1>10. NoTextBeforeQuery'
  BY <1>0, <1>3, <1>4 DEF NoTextBeforeQuery
<1> QED BY <1>1, <1>6, <1>7, <1>8, <1>9, <1>10

LEMMA StatStep ==
  ASSUME NEW c \in Clients, IInv, Stat(c)
  PROVE  IInv'
<1> DEFINE place == client[c].place
<1> USE DEF IInv, CallInv
<1>0. /\ client[c] \in CallSet /\ client[c].step = "stat" /\ client[c].op = "delete"
      /\ place \in Places
      /\ UNCHANGED <<json, texts, dirs, readme, once>>
  BY DEF TypeOK, StepsOfCalls, CallSet, Stat, disk
<1>a. CASE json[place] = Absent
  <2>0. Succeed(c)
    BY <1>a DEF Stat
  <2>1. /\ Returns(c) /\ RacesAreMutual' /\ BusyPlacesUnsettled'
        /\ settled' \in [Places -> [op : {"create", "save", "delete", Unknown}, query : Queries]]
        /\ \A p \in Places :
             \/ settled'[p] = settled[p]
             \/ p = place /\ settled'[p].op = "delete"
    <3>1. \A p \in Places :
            \/ settled'[p] = settled[p]
            \/ /\ ~client[c].raced /\ p = client[c].place
               /\ settled'[p] = [op |-> client[c].op, query |-> client[c].query]
      BY <2>0, <1>0, SuccessSettles
    <3>2. \A p \in Places : settled'[p] = settled[p] \/ (p = place /\ settled'[p].op = "delete")
      BY <3>1, <1>0
    <3> QED BY <2>0, <1>0, <3>2, SuccessSettles
  <2> HIDE DEF place
  <2>2. CallInv'
    BY SMTT(30), <2>1, <1>0, NoCallIsIdle DEF TypeOK, StepsOfCalls, Returns, Others, CallSet
  <2>3. OpenFilesExist' /\ UnracedCallsKeepTheirFile' /\ WritersHaveOpened' /\ LateEditsAreRaces'
    BY <2>1, <1>0, NoCallIsIdle DEF OpenFilesExist, UnracedCallsKeepTheirFile, WritersHaveOpened,
       LateEditsAreRaces, Encoded, Returns, Others
  <2>4. SettledQueriesKept' /\ NoTextBeforeQuery'
    BY <2>1, <1>0, <1>a DEF SettledQueriesKept, NoTextBeforeQuery
  <2> QED BY <2>1, <2>2, <2>3, <2>4
<1>b. CASE json[place] # Absent
  <2>1. Continues(c) /\ client'[c].step = "remove" /\ client'[c].linked = client[c].linked /\ UNCHANGED settled
    BY <1>b, GoesContinues DEF Stat
  <2> HIDE DEF place
  <2>2. CallInv'
    BY SMTT(30), <2>1, <1>0 DEF TypeOK, StepsOfCalls, Continues, Others, CallSet
  <2>3. RacesAreMutual' /\ BusyPlacesUnsettled'
    BY <2>1, GoingOnChangesNoMore
  <2>4. OpenFilesExist' /\ UnracedCallsKeepTheirFile' /\ WritersHaveOpened' /\ LateEditsAreRaces'
    BY <2>1, <1>0 DEF OpenFilesExist, UnracedCallsKeepTheirFile, WritersHaveOpened,
       LateEditsAreRaces, Encoded, Continues, Others
  <2>5. SettledQueriesKept' /\ NoTextBeforeQuery'
    BY <2>1, <1>0 DEF SettledQueriesKept, NoTextBeforeQuery
  <2> QED BY <2>2, <2>3, <2>4, <2>5
<1> QED BY <1>a, <1>b

LEMMA RemoveStep ==
  ASSUME NEW c \in Clients, IInv, Remove(c)
  PROVE  IInv'
<1> DEFINE place == client[c].place
<1> USE DEF IInv, CallInv
<1>0. /\ client[c] \in CallSet /\ client[c].step = "remove" /\ client[c].op = "delete"
      /\ place \in Places
      /\ client' = [Unlinked(place) EXCEPT ![c] = NoCall]
      /\ UNCHANGED <<texts, dirs, readme, once>>
  BY DEF TypeOK, StepsOfCalls, CallSet, Remove, disk, history
\* What becomes of the calls: the others at this place lose their file.
<1>1. /\ client' \in [Clients -> CallSet] /\ client'[c] = NoCall
      /\ \A d \in Clients \ {c} :
           /\ client'[d].op = client[d].op /\ client'[d].place = client[d].place
           /\ client'[d].query = client[d].query /\ client'[d].step = client[d].step
           /\ client'[d].raced = client[d].raced
           /\ client'[d].linked = (client[d].linked /\ client[d].place # place)
  <2>1. \A d \in Clients : client[d] \in CallSet
    BY DEF TypeOK, CallSet
  <2>2. \A d \in Clients : [client[d] EXCEPT !.linked = FALSE] \in CallSet
    BY <2>1 DEF CallSet
  <2>3. client'[c] = NoCall
    BY <1>0 DEF Unlinked
  <2>4. \A d \in Clients \ {c} : client'[d] =
          IF client[d].place = place THEN [client[d] EXCEPT !.linked = FALSE] ELSE client[d]
    BY <1>0 DEF Unlinked
  <2>5. client' \in [Clients -> CallSet]
    BY <1>0, <2>1, <2>2, NoCallIsIdle DEF Unlinked
  <2> HIDE DEF place
  <2>6. ASSUME NEW d \in Clients \ {c}
        PROVE  /\ client'[d].op = client[d].op /\ client'[d].place = client[d].place
               /\ client'[d].query = client[d].query /\ client'[d].step = client[d].step
               /\ client'[d].raced = client[d].raced
               /\ client'[d].linked = (client[d].linked /\ client[d].place # place)
    <3>1. CASE client[d].place = place
      BY <3>1, <2>1, <2>4 DEF CallSet
    <3>2. CASE client[d].place # place
      <4>1. client'[d] = client[d] /\ client[d].linked \in BOOLEAN
        BY <3>2, <2>1, <2>4 DEF CallSet
      <4> QED BY <4>1, <3>2
    <3> QED BY <3>1, <3>2
  <2> QED BY <2>3, <2>5, <2>6
\* What becomes of the place.
<1>2. /\ \A p \in Places : p # place => settled'[p] = settled[p] /\ json'[p] = json[p]
      /\ json'[place] = Absent
      /\ settled'[place] = settled[place] \/ (~client[c].raced /\ settled'[place].op = "delete")
  <2>1. CASE json[place] = Absent
    <3>1. UNCHANGED <<json, settled>>
      BY <2>1 DEF Remove, disk, history, place
    <3> QED BY <2>1, <3>1
  <2>2. CASE json[place] # Absent
    <3>1. /\ json' = [json EXCEPT ![place] = Absent]
          /\ settled' = IF client[c].raced THEN settled
                        ELSE [settled EXCEPT ![place] = [op |-> "delete", query |-> client[c].query]]
      BY <2>2 DEF Remove
    <3> QED BY <3>1, <1>0 DEF TypeOK
  <2> QED BY <2>1, <2>2
<1>3. /\ json' \in [Places -> Queries \cup {Absent, Empty}]
      /\ settled' \in [Places -> [op : {"create", "save", "delete", Unknown}, query : Queries]]
  BY SMTT(30), <1>0 DEF Remove, TypeOK, CallSet, disk, history
<1>4. /\ settled[place].op = Unknown
      /\ \A d \in Clients \ {c} : Changes(d, place) => client[d].raced /\ client[c].raced
  BY <1>0 DEF BusyPlacesUnsettled, RacesAreMutual, Changes, Busy
<1> HIDE DEF place
<1>5. TypeOK'
  BY <1>0, <1>1, <1>3 DEF TypeOK, CallSet
<1>6. StepsOfCalls'
  BY ZenonT(30), <1>1, NoCallIsIdle DEF StepsOfCalls
<1>7. \A d \in Clients, p \in Places : Changes(d, p)' => d # c /\ Changes(d, p)
  BY <1>1, NoCallIsIdle DEF Changes, Busy
<1>8. RacesAreMutual'
  BY <1>1, <1>7 DEF RacesAreMutual
<1>9. BusyPlacesUnsettled'
  BY <1>2, <1>4, <1>7 DEF BusyPlacesUnsettled
<1>10. OpenFilesExist'
  BY SMTT(30), <1>1, <1>2, NoCallIsIdle DEF OpenFilesExist, TypeOK, CallSet
<1>11. UnracedCallsKeepTheirFile'
  <2> SUFFICES ASSUME NEW d \in Clients, ~client'[d].raced,
                      client'[d].step \in {"write", "createText", "writeText"}
               PROVE  /\ client'[d].step = "write" => client'[d].linked
                      /\ client'[d].step \in {"createText", "writeText"} =>
                           json'[client'[d].place] = Encoded(d)'
    BY DEF UnracedCallsKeepTheirFile
  <2>1. d # c /\ client[d].place # place /\ client[d].place \in Places
    <3>1. d # c
      BY <1>1, NoCallIsIdle
    <3>2. ~client[d].raced /\ client[d].op \in {"create", "save"} /\ client[d].place \in Places
      BY <3>1, <1>1 DEF StepsOfCalls, TypeOK
    <3> QED BY <3>1, <3>2, <1>4 DEF Changes, Busy
  <2>2. client'[d].step = "write" => client'[d].linked
    <3>1. client'[d].step = client[d].step /\ client'[d].raced = client[d].raced
          /\ client'[d].linked = (client[d].linked /\ client[d].place # place)
      BY <2>1, <1>1
    <3> QED BY <2>1, <3>1 DEF UnracedCallsKeepTheirFile
  <2>3. client'[d].step \in {"createText", "writeText"} => json'[client'[d].place] = Encoded(d)'
    <3>1. Encoded(d)' = Encoded(d) /\ client'[d].place = client[d].place
      BY <2>1, <1>1 DEF Encoded
    <3>2. json'[client[d].place] = json[client[d].place]
      BY <2>1, <1>2
    <3>3. client'[d].step = client[d].step /\ ~client[d].raced
      BY <2>1, <1>1
    <3> QED BY <3>1, <3>2, <3>3 DEF UnracedCallsKeepTheirFile
  <2> QED BY <2>2, <2>3
<1>12. WritersHaveOpened' /\ LateEditsAreRaces'
  BY <1>0, <1>1, NoCallIsIdle DEF WritersHaveOpened, LateEditsAreRaces
<1>13. SettledQueriesKept'
  BY <1>0, <1>2, <1>4 DEF SettledQueriesKept, Unknown
<1>14. NoTextBeforeQuery'
  BY <1>0 DEF NoTextBeforeQuery
<1> QED BY <1>5, <1>6, <1>8, <1>9, <1>10, <1>11, <1>12, <1>13, <1>14

LEMMA StatReadmeStep ==
  ASSUME NEW c \in Clients, IInv, StatReadme(c)
  PROVE  IInv'
<1> USE DEF IInv, CallInv
<1>a. CASE readme[FolderOf(client[c].place)] # "none"
  <2>1. Busy(c)
    BY DEF StatReadme, StepsOfCalls, Busy
  <2>2. Stop(c)
    BY <1>a, <2>1 DEF StatReadme, Stop
  <2> QED BY <2>2, StopStep
<1>b. CASE readme[FolderOf(client[c].place)] = "none"
  <2>0. /\ Continues(c) /\ client'[c].step = "writeReadme" /\ client'[c].linked = client[c].linked
        /\ client[c].step = "statReadme" /\ client[c].op = "folder"
        /\ UNCHANGED <<json, texts, dirs, readme, settled, once>>
    BY <1>b, GoesContinues DEF StatReadme, StepsOfCalls, disk, history
  <2>1. CallInv'
    BY <2>0 DEF TypeOK, StepsOfCalls, Continues, Others, CallSet
  <2>2. RacesAreMutual' /\ BusyPlacesUnsettled'
    BY <2>0, GoingOnChangesNoMore
  <2>3. OpenFilesExist' /\ UnracedCallsKeepTheirFile' /\ WritersHaveOpened'
    BY <2>0 DEF OpenFilesExist, UnracedCallsKeepTheirFile, WritersHaveOpened, Encoded, Continues, Others
  <2>4. LateEditsAreRaces'
    BY <2>0, <1>b DEF LateEditsAreRaces, Continues, Others
  <2>5. SettledQueriesKept' /\ NoTextBeforeQuery'
    BY <2>0 DEF SettledQueriesKept, NoTextBeforeQuery
  <2> QED BY <2>1, <2>2, <2>3, <2>4, <2>5
<1> QED BY <1>a, <1>b

LEMMA WriteReadmeStep ==
  ASSUME NEW c \in Clients, IInv, WriteReadme(c)
  PROVE  IInv'
<1> USE DEF IInv, CallInv
<1>0. /\ Returns(c) /\ client[c].place \in Places
      /\ readme' = [readme EXCEPT ![FolderOf(client[c].place)] = "title"]
      /\ UNCHANGED <<json, texts, dirs, settled, once>>
  BY ReturnReturns DEF WriteReadme, history, TypeOK
<1>1. TypeOK' /\ StepsOfCalls'
  BY ZenonT(30), <1>0, NoCallIsIdle DEF TypeOK, StepsOfCalls, Returns, Others, CallSet
<1>2. RacesAreMutual' /\ BusyPlacesUnsettled'
  BY <1>0, GoingOnChangesNoMore
<1>3. OpenFilesExist' /\ UnracedCallsKeepTheirFile' /\ WritersHaveOpened'
  BY <1>0, NoCallIsIdle DEF OpenFilesExist, UnracedCallsKeepTheirFile, WritersHaveOpened,
     Encoded, Returns, Others
<1>4. \A folder \in Folders : readme'[folder] = "edited" => readme[folder] = "edited"
  BY <1>0 DEF TypeOK
<1>5. LateEditsAreRaces'
  <2> SUFFICES ASSUME NEW d \in Clients, client'[d].step = "writeReadme",
                      readme'[FolderOf(client'[d].place)] = "edited"
               PROVE  client'[d].raced
    BY DEF LateEditsAreRaces
  <2>1. client'[d] = client[d] /\ client[d].place \in Places
    BY <1>0, NoCallIsIdle DEF Returns, Others, TypeOK
  <2>2. readme[FolderOf(client[d].place)] = "edited"
    BY <1>4, <2>1, FoldersOfPlaces
  <2> QED BY <2>1, <2>2 DEF LateEditsAreRaces
<1>6. SettledQueriesKept' /\ NoTextBeforeQuery'
  BY <1>0 DEF SettledQueriesKept, NoTextBeforeQuery
<1> QED BY <1>1, <1>2, <1>3, <1>5, <1>6

LEMMA EditStep ==
  ASSUME NEW folder \in Folders, IInv, Edit(folder)
  PROVE  IInv'
<1> USE DEF IInv, CallInv
\* The calls stay what they are, but for knowing of the race.
<1>0. /\ client' \in [Clients -> CallSet]
      /\ \A d \in Clients :
           /\ client'[d].op = client[d].op /\ client'[d].place = client[d].place
           /\ client'[d].query = client[d].query /\ client'[d].step = client[d].step
           /\ client'[d].linked = client[d].linked
           /\ client[d].raced => client'[d].raced
           /\ client'[d].raced # client[d].raced => client[d].op = "folder"
           /\ (client[d].op = "folder" /\ FolderOf(client[d].place) = folder) => client'[d].raced
      /\ readme' = [readme EXCEPT ![folder] = "edited"]
      /\ UNCHANGED <<json, texts, dirs, settled, once>>
  <2>1. \A d \in Clients : client[d] \in CallSet
    BY DEF TypeOK, CallSet
  <2>2. \A d \in Clients : [client[d] EXCEPT !.raced = TRUE] \in CallSet
    BY <2>1 DEF CallSet
  <2>3. \A d \in Clients : client'[d] =
          IF client[d].op = "folder" /\ FolderOf(client[d].place) = folder
          THEN [client[d] EXCEPT !.raced = TRUE] ELSE client[d]
    BY DEF Edit
  <2>4. client' \in [Clients -> CallSet]
    BY <2>1, <2>2 DEF Edit
  <2>5. ASSUME NEW d \in Clients
        PROVE  /\ client'[d].op = client[d].op /\ client'[d].place = client[d].place
               /\ client'[d].query = client[d].query /\ client'[d].step = client[d].step
               /\ client'[d].linked = client[d].linked
               /\ client[d].raced => client'[d].raced
               /\ client'[d].raced # client[d].raced => client[d].op = "folder"
               /\ (client[d].op = "folder" /\ FolderOf(client[d].place) = folder) => client'[d].raced
    BY <2>1, <2>3 DEF CallSet
  <2> QED BY <2>4, <2>5 DEF Edit, history
<1>1. \A d \in Clients, p \in Places : Changes(d, p)' <=> Changes(d, p)
  BY <1>0 DEF Changes, Busy
<1>2. TypeOK'
  BY <1>0 DEF TypeOK, CallSet
<1>3. StepsOfCalls'
  BY <1>0 DEF StepsOfCalls
<1>4. RacesAreMutual' /\ BusyPlacesUnsettled'
  BY <1>0, <1>1 DEF RacesAreMutual, BusyPlacesUnsettled
<1>5. OpenFilesExist' /\ WritersHaveOpened'
  BY <1>0 DEF OpenFilesExist, WritersHaveOpened
<1>6. UnracedCallsKeepTheirFile'
  <2> SUFFICES ASSUME NEW d \in Clients, ~client'[d].raced
               PROVE  /\ client'[d].step = "write" => client'[d].linked
                      /\ client'[d].step \in {"createText", "writeText"} =>
                           json'[client'[d].place] = Encoded(d)'
    BY DEF UnracedCallsKeepTheirFile
  <2>1. Encoded(d)' = Encoded(d) /\ ~client[d].raced
    BY <1>0 DEF Encoded
  <2> QED BY <1>0, <2>1 DEF UnracedCallsKeepTheirFile
<1>7. LateEditsAreRaces'
  BY <1>0, FoldersOfPlaces DEF LateEditsAreRaces, StepsOfCalls, TypeOK, CallSet
<1>8. SettledQueriesKept' /\ NoTextBeforeQuery'
  BY <1>0 DEF SettledQueriesKept, NoTextBeforeQuery
<1> QED BY <1>2, <1>3, <1>4, <1>5, <1>6, <1>7, <1>8

\* A call that begins makes every call that changes its place a race.
LEMMA BeginStep ==
  ASSUME NEW c \in Clients, IInv, NEW op \in {"create", "save", "delete"}, NEW place \in Places,
         NEW query \in Queries, NEW step \in {"mkdir", "stat"},
         step = "stat" <=> op = "delete", Begin(c, op, place, query, step)
  PROVE  IInv'
<1> USE DEF IInv, CallInv
<1> DEFINE new == [NoCall EXCEPT !.op = op, !.place = place, !.query = query, !.step = step,
                                 !.raced = \E d \in Clients : Changes(d, place)]
<1>0. /\ ~Busy(c)
      /\ settled' = [settled EXCEPT ![place] = Nobody]
      /\ UNCHANGED <<json, texts, dirs, readme, once>>
  BY DEF Begin, disk
<1>1. /\ client'[c].op = op /\ client'[c].place = place /\ client'[c].query = query
      /\ client'[c].step = step /\ ~client'[c].linked
      /\ client'[c].raced <=> \E d \in Clients : Changes(d, place)
      /\ client'[c] \in CallSet
  <2>1. ({d \in Clients : Changes(d, place)} # {}) <=> \E d \in Clients : Changes(d, place)
    OBVIOUS
  <2>2. client'[c] = [NoCall EXCEPT !.op = op, !.place = place, !.query = query, !.step = step,
                                    !.raced = {d \in Clients : Changes(d, place)} # {}]
    BY DEF Begin
  <2> QED BY <2>1, <2>2, NoCallIsIdle DEF CallSet
<1>2. ASSUME NEW d \in Clients \ {c}
      PROVE  /\ client'[d] \in CallSet
             /\ client'[d].op = client[d].op /\ client'[d].place = client[d].place
             /\ client'[d].query = client[d].query /\ client'[d].step = client[d].step
             /\ client'[d].linked = client[d].linked
             /\ client[d].raced => client'[d].raced
             /\ Changes(d, place) => client'[d].raced
             /\ ~Changes(d, place) => client'[d] = client[d]
  <2>1. client[d] \in CallSet
    BY DEF TypeOK, CallSet
  <2>2. client'[d] = IF Changes(d, place) THEN [client[d] EXCEPT !.raced = TRUE] ELSE client[d]
    BY DEF Begin
  <2> QED BY <2>1, <2>2 DEF CallSet
<1>3. client' \in [Clients -> CallSet]
  BY <1>1, <1>2 DEF Begin
<1>4. /\ settled' \in [Places -> [op : {"create", "save", "delete", Unknown}, query : Queries]]
      /\ settled'[place].op = Unknown
      /\ \A p \in Places : p # place => settled'[p] = settled[p]
  <2>1. Nobody \in [op : {"create", "save", "delete", Unknown}, query : Queries] /\ Nobody.op = Unknown
    BY NoCallIsIdle DEF Nobody, CallSet
  <2> QED BY <1>0, <2>1 DEF TypeOK
<1>5. TypeOK'
  BY <1>0, <1>3, <1>4 DEF TypeOK, CallSet
<1>6. StepsOfCalls'
  BY <1>1, <1>2 DEF StepsOfCalls
<1>7. /\ \A d \in Clients \ {c}, p \in Places : Changes(d, p)' <=> Changes(d, p)
      /\ \A p \in Places : Changes(c, p)' <=> p = place
  BY <1>1, <1>2 DEF Changes, Busy
<1>8. RacesAreMutual'
  BY <1>1, <1>2, <1>7 DEF RacesAreMutual
<1>9. BusyPlacesUnsettled'
  BY <1>4, <1>7 DEF BusyPlacesUnsettled
<1>10. OpenFilesExist' /\ WritersHaveOpened'
  BY <1>0, <1>1, <1>2 DEF OpenFilesExist, WritersHaveOpened
<1>11. UnracedCallsKeepTheirFile'
  <2> SUFFICES ASSUME NEW d \in Clients, ~client'[d].raced
               PROVE  /\ client'[d].step = "write" => client'[d].linked
                      /\ client'[d].step \in {"createText", "writeText"} =>
                           json'[client'[d].place] = Encoded(d)'
    BY DEF UnracedCallsKeepTheirFile
  <2>1. CASE d = c
    BY <2>1, <1>1
  <2>2. CASE d # c
    BY <2>2, <1>0, <1>2 DEF UnracedCallsKeepTheirFile, Encoded
  <2> QED BY <2>1, <2>2
<1>12. LateEditsAreRaces'
  BY <1>0, <1>1, <1>2 DEF LateEditsAreRaces
<1>13. SettledQueriesKept'
  BY <1>0, <1>4 DEF SettledQueriesKept, Unknown
<1>14. NoTextBeforeQuery'
  BY <1>0 DEF NoTextBeforeQuery
<1> QED BY <1>5, <1>6, <1>8, <1>9, <1>10, <1>11, <1>12, <1>13, <1>14

LEMMA BeginCallStep ==
  ASSUME NEW c \in Clients, IInv, BeginCall(c)
  PROVE  IInv'
<1>1. CASE \E place \in Places, query \in Queries :
             Begin(c, "create", place, query, "mkdir") \/ Begin(c, "save", place, query, "mkdir")
  BY <1>1, BeginStep
<1>2. CASE \E place \in Places : Begin(c, "delete", place, NoCall.query, "stat")
  BY <1>2, BeginStep, NoCallIsIdle DEF CallSet
<1> QED BY <1>1, <1>2 DEF BeginCall

LEMMA BeginFolderStep ==
  ASSUME NEW c \in Clients, IInv, BeginFolder(c)
  PROVE  IInv'
<1> USE DEF IInv, CallInv
<1>1. PICK folder \in Folders :
        client' = [client EXCEPT ![c] =
                     [NoCall EXCEPT !.op = "folder", !.place[1] = folder, !.step = "mkdir"]]
  BY DEF BeginFolder
<1>2. UNCHANGED <<json, texts, dirs, readme, settled, once>>
  BY DEF BeginFolder, disk, history
<1>3. [NoCall.place EXCEPT ![1] = folder] \in Places
  <2>1. NoCall.place \in Places
    BY NoCallIsIdle DEF CallSet
  <2>2. PICK f \in Folders, id \in Ids : NoCall.place = <<f, id>>
    BY <2>1 DEF Places
  <2>3. [<<f, id>> EXCEPT ![1] = folder] = <<folder, id>>
    OBVIOUS
  <2> QED BY <2>2, <2>3 DEF Places
<1>4. /\ client' \in [Clients -> CallSet] /\ Others(c)
      /\ client'[c].op = "folder" /\ client'[c].step = "mkdir" /\ ~client'[c].linked
  <2>1. [NoCall EXCEPT !.op = "folder", !.place[1] = folder, !.step = "mkdir"] =
          [NoCall EXCEPT !.op = "folder", !.place = [NoCall.place EXCEPT ![1] = folder], !.step = "mkdir"]
    BY NoCallIsIdle DEF CallSet
  <2> QED BY ZenonT(30), <1>1, <1>3, <2>1, NoCallIsIdle DEF TypeOK, CallSet, Others
<1>5. CallInv'
  BY <1>2, <1>4 DEF TypeOK, StepsOfCalls, Others, CallSet
<1>6. \A d \in Clients, p \in Places : Changes(d, p)' => d # c /\ Changes(d, p)
  BY <1>4 DEF Changes, Busy, Others
<1>7. RacesAreMutual' /\ BusyPlacesUnsettled'
  BY <1>2, <1>4, <1>6 DEF RacesAreMutual, BusyPlacesUnsettled, Others
<1>8. OpenFilesExist' /\ UnracedCallsKeepTheirFile' /\ WritersHaveOpened' /\ LateEditsAreRaces'
  BY <1>2, <1>4 DEF OpenFilesExist, UnracedCallsKeepTheirFile, WritersHaveOpened,
     LateEditsAreRaces, Encoded, Others
<1>9. SettledQueriesKept' /\ NoTextBeforeQuery'
  BY <1>2 DEF SettledQueriesKept, NoTextBeforeQuery
<1> QED BY <1>5, <1>7, <1>8, <1>9

-----------------------------------------------------------------------------
LEMMA IInvIsInductive == IInv /\ [Next]_vars => IInv'
<1> SUFFICES ASSUME IInv, [Next]_vars PROVE IInv'
  OBVIOUS
<1>1. ASSUME NEW c \in Clients, BeginCall(c) PROVE IInv'
  BY <1>1, BeginCallStep
<1>2. ASSUME NEW c \in Clients, BeginFolder(c) PROVE IInv'
  BY <1>2, BeginFolderStep
<1>3. ASSUME NEW c \in Clients, Step(c) PROVE IInv'
  BY <1>3, MkdirAllStep, CreateStep, WriteStep, CreateTextStep, WriteTextStep, StatStep, RemoveStep,
     StatReadmeStep, WriteReadmeStep DEF Step
<1>4. ASSUME NEW c \in Clients, Stop(c) PROVE IInv'
  BY <1>4, StopStep
<1>5. ASSUME NEW folder \in Folders \ {Root}, Edit(folder) PROVE IInv'
  BY <1>5, EditStep
<1>6. CASE UNCHANGED vars
  BY <1>6 DEF vars, IInv, CallInv, TypeOK, StepsOfCalls, RacesAreMutual, BusyPlacesUnsettled,
     OpenFilesExist, UnracedCallsKeepTheirFile, WritersHaveOpened, LateEditsAreRaces,
     SettledQueriesKept, NoTextBeforeQuery, Changes, Busy, Encoded
<1> QED BY <1>1, <1>2, <1>3, <1>4, <1>5, <1>6 DEF Next

\* Every variable keeps its type, and every step of a call belongs to its kind.
THEOREM CallsKeepToTheirSteps == Spec => [](TypeOK /\ StepsOfCalls)
<1>1. IInv => TypeOK /\ StepsOfCalls
  BY DEF IInv, CallInv
<1> QED BY <1>1, InitIInv, IInvIsInductive, PTL DEF Spec

\* What the last call has left to itself is there, whatever the other callers of
\* CreateQuery, UpdateQuery, SaveQuery and DeleteQuery are doing.
THEOREM SettledQueriesAreKept == Spec => []SettledQueriesKept
<1>1. IInv => SettledQueriesKept
  BY DEF IInv
<1> QED BY <1>1, InitIInv, IInvIsInductive, PTL DEF Spec

\* CreateQuery writes a query's text last: no text is there before its query.
THEOREM TextsFollowQueries == Spec => []NoTextBeforeQuery
<1>1. IInv => NoTextBeforeQuery
  BY DEF IInv
<1> QED BY <1>1, InitIInv, IInvIsInductive, PTL DEF Spec

-----------------------------------------------------------------------------
\* Only a CreateQueryFolder that was overtaken by the edit takes an edited README away.
LEMMA OnlyRacedFoldersLoseEdits ==
  ASSUME IInv, [Next]_vars, NEW folder \in Folders,
         readme[folder] = "edited", readme'[folder] # "edited"
  PROVE  \E c \in Clients : client[c].op = "folder" /\ client[c].raced
<1>1. \E c \in Clients : WriteReadme(c)
  <2>1. ASSUME NEW c \in Clients, BeginCall(c) \/ BeginFolder(c) \/ Stop(c) PROVE readme' = readme
    BY <2>1 DEF BeginCall, Begin, BeginFolder, Stop, disk
  <2>2. ASSUME NEW c \in Clients, Step(c), ~WriteReadme(c) PROVE readme' = readme
    BY <2>2 DEF Step, MkdirAll, Create, Write, CreateText, WriteText, Stat, Remove, StatReadme, disk
  <2>3. ASSUME NEW f \in Folders \ {Root}, Edit(f) PROVE readme'[folder] = "edited"
    BY <2>3 DEF Edit, IInv, CallInv, TypeOK
  <2>4. CASE UNCHANGED vars
    BY <2>4 DEF vars
  <2> QED BY <2>1, <2>2, <2>3, <2>4 DEF Next
<1>2. PICK c \in Clients : WriteReadme(c)
  BY <1>1
<1>3. client[c].step = "writeReadme" /\ client[c].op = "folder"
  BY <1>2 DEF WriteReadme, IInv, CallInv, StepsOfCalls
<1>4. FolderOf(client[c].place) = folder
  BY <1>2 DEF WriteReadme, IInv, CallInv, TypeOK
<1> QED BY <1>3, <1>4 DEF IInv, LateEditsAreRaces

\* CreateQueryFolder leaves an edited README alone, but for one edited under its hands.
THEOREM EditedReadmesAreKept == Spec => EditedReadmeKept
<1>1. IInv /\ [Next]_vars =>
        [\A folder \in Folders : (readme[folder] = "edited" /\ readme'[folder] # "edited") =>
           \E c \in Clients : client[c].op = "folder" /\ client[c].raced]_vars
  BY OnlyRacedFoldersLoseEdits
<1> QED BY <1>1, InitIInv, IInvIsInductive, PTL DEF Spec, EditedReadmeKept

-----------------------------------------------------------------------------
\* The steps of the store are steps of the table, or leave it alone.
LEMMA StepsImplementTable ==
  ASSUME IInv, [Next]_vars
  PROVE  [Table!TableNext]_json
<1> USE DEF IInv, CallInv
<1>1. ASSUME NEW c \in Clients, Create(c) PROVE [Table!TableNext]_json
  <2>1. client[c].place \in Places
    BY DEF TypeOK
  <2>2. json' = json \/ json' = [json EXCEPT ![client[c].place] = Empty]
    BY <1>1 DEF Create
  <2> QED BY <2>1, <2>2 DEF Table!TableNext, Table!Open
<1>2. ASSUME NEW c \in Clients, Write(c) PROVE [Table!TableNext]_json
  <2>1. client[c].place \in Places /\ Encoded(c) \in Queries
    BY EncodedIsQuery DEF TypeOK, CallSet
  <2>2. json' = json \/ (client[c].linked /\ json' = [json EXCEPT ![client[c].place] = Encoded(c)])
    BY <1>2 DEF Write, Written
  <2>3. client[c].linked => json[client[c].place] # Absent
    BY DEF OpenFilesExist
  <2> QED BY <2>1, <2>2, <2>3 DEF Table!TableNext, Table!Fill
<1>3. ASSUME NEW c \in Clients, Remove(c) PROVE [Table!TableNext]_json
  <2>1. client[c].place \in Places
    BY DEF TypeOK
  <2>2. json' = json \/ (json[client[c].place] # Absent /\ json' = [json EXCEPT ![client[c].place] = Absent])
    BY <1>3 DEF Remove, disk
  <2> QED BY <2>1, <2>2 DEF Table!TableNext, Table!Forget
<1>4. ASSUME NEW c \in Clients, Step(c), ~Create(c), ~Write(c), ~Remove(c) PROVE json' = json
  BY <1>4 DEF Step, MkdirAll, CreateText, WriteText, Stat, StatReadme, WriteReadme, disk
<1>5. ASSUME NEW c \in Clients, BeginCall(c) \/ BeginFolder(c) \/ Stop(c) PROVE json' = json
  BY <1>5 DEF BeginCall, Begin, BeginFolder, Stop, disk
<1>6. ASSUME NEW folder \in Folders, Edit(folder) PROVE json' = json
  BY <1>6 DEF Edit
<1>7. CASE UNCHANGED vars
  BY <1>7 DEF vars
<1> QED BY <1>1, <1>2, <1>3, <1>4, <1>5, <1>6, <1>7 DEF Next

\* The queries store implements QueryTable: to whoever loads queries a place is empty,
\* unreadable between a save's open and its write, or holds a query that was to be
\* stored there; what is removed does not come back by itself.
THEOREM StoreImplementsTable == Spec => ImplementsTable
<1>1. Init => Table!TableInit
  BY DEF Init, Table!TableInit
<1>2. IInv /\ [Next]_vars => [Table!TableNext]_json
  BY StepsImplementTable
<1> QED BY <1>1, <1>2, InitIInv, IInvIsInductive, PTL DEF Spec, ImplementsTable, Table!TableSpec
=============================================================================
