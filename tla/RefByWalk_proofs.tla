--------------------------- MODULE RefByWalk_proofs ---------------------------
(***************************************************************************)
(* Proofs about the tree of referring tables for any graph of references   *)
(* and any order of the lists: every reference is written once and under   *)
(* its parent's line, the tree tells of all tables that refer to the root, *)
(* the readme fails for an unknown direct referrer only, and the walk ends, *)
(* on circles too.                                                         *)
(***************************************************************************)
EXTENDS RefByWalk, FiniteSetTheorems, TLAPS

Activations == [table : Tables, todo : SUBSET Tables]

\* The activations are of different tables, all of them processed, the first of Root.
Frames ==
  /\ \A i \in 1..Len(stack) :
       stack[i].table \in processed /\ stack[i].todo \subseteq refBy[stack[i].table]
  /\ \A i, j \in 1..Len(stack) : stack[i].table = stack[j].table => i = j
  /\ stack # <<>> => stack[1].table = Root
  /\ result = "walking" <=> stack # <<>>

\* A line is of an activation that has begun, and that will not come to its entry again.
Once ==
  \A i \in 1..Len(listed) :
    /\ listed[i].parent \in processed
    /\ \A k \in 1..Len(stack) :
         stack[k].table = listed[i].parent => listed[i].refBy \notin stack[k].todo

\* An activation that is not the first has been opened by the line of its table; all lines
\* since are its own or deeper.
Opens(j, k) ==
  /\ listed[j].refBy = stack[k].table /\ listed[j].level = k - 1
  /\ \A i \in (j + 1)..Len(listed) : listed[i].level >= k
Opened == \A k \in 2..Len(stack) : \E j \in 1..Len(listed) : Opens(j, k)

\* All tables that are met refer to Root, if over others.
Reached ==
  /\ Listed \subseteq Referrers
  /\ \A i \in 1..Len(stack) : stack[i].table \in Referrers

\* What is processed is Root or a known table that has its line.
Marked ==
  /\ processed \subseteq known \cup {Root}
  /\ processed \subseteq Listed \cup {Root}
  /\ result # "none" => Root \in processed

\* Root's own activation meets every direct referrer.
RootsLoop ==
  /\ result = "none" => refBy[Root] = {}
  /\ result = "walking" => refBy[Root] \subseteq known \cup stack[1].todo
  /\ result = "listed" => refBy[Root] \subseteq known
  /\ result = "failed" => ~(refBy[Root] \subseteq known)

\* With all tables known, a listed table is a leaf or has an activation, and what refers to a
\* processed table is listed or waits in its activation.
Waits(t, r) == \E i \in 1..Len(stack) : stack[i].table = t /\ r \in stack[i].todo
Covered ==
  Referrers \subseteq known =>
    /\ \A t \in Listed \cup {Root} : refBy[t] = {} \/ t \in processed
    /\ \A t \in processed : \A r \in refBy[t] : r \in Listed \cup {Root} \/ Waits(t, r)

IInv ==
  /\ TypeOK /\ Frames /\ Once /\ ListedOnce /\ Opened /\ NestedUnderParent
  /\ Reached /\ Marked /\ RootsLoop /\ Covered

-----------------------------------------------------------------------------
\* The referrers of Root's referrers are among them.
LEMMA ReferrersAreClosed ==
  ASSUME refBy \in [Tables -> SUBSET Tables]
  PROVE  /\ Root \in Referrers /\ Referrers \subseteq Tables
         /\ \A t \in Referrers : refBy[t] \subseteq Referrers
         /\ \A S \in SUBSET Tables : Closed(S) => Referrers \subseteq S
BY RootAssumption DEF Referrers, Closed

LEMMA ReferrersStay ==
  ASSUME UNCHANGED graph
  PROVE  Referrers' = Referrers /\ refBy' = refBy /\ known' = known
BY DEF graph, Referrers, Closed

\* The activation on top.
LEMMA TopFacts ==
  ASSUME TypeOK, Level > 0
  PROVE  /\ Level \in Nat /\ Level \in 1..Len(stack) /\ stack # <<>>
         /\ Top = stack[Level] /\ Top.table \in Tables /\ Top.todo \subseteq Tables
         /\ refBy[Top.table] \subseteq Tables
<1>1. /\ stack \in Seq(Activations) /\ Level = Len(stack)
      /\ refBy \in [Tables -> SUBSET Tables]
  BY DEF TypeOK, Level, Activations
<1>2. Level \in Nat /\ Level \in 1..Len(stack) /\ stack # <<>>
  BY <1>1
<1>3. stack[Level] \in Activations
  BY <1>1, <1>2
<1> QED BY <1>1, <1>2, <1>3 DEF Top, Activations

\* The stack after the loop has gone on.
LEMMA RestFacts ==
  ASSUME TypeOK, NEW r, Takes(r)
  PROVE  /\ r \in Tables
         /\ Rest(r) \in Seq(Activations) /\ Len(Rest(r)) = Level
         /\ \A i \in 1..Level :
              /\ Rest(r)[i].table = stack[i].table
              /\ Rest(r)[i].todo = IF i = Level THEN stack[i].todo \ {r} ELSE stack[i].todo
<1>1. /\ stack \in Seq(Activations) /\ Level = Len(stack) /\ Level > 0
      /\ r \in stack[Level].todo /\ Level \in 1..Len(stack) /\ DOMAIN stack = 1..Len(stack)
  <2>1. Level > 0 /\ r \in Top.todo
    BY DEF Takes
  <2>2. stack \in Seq(Activations) /\ Level = Len(stack)
    BY DEF TypeOK, Level, Activations
  <2> QED BY <2>1, <2>2 DEF Top
<1>2. stack[Level] \in Activations
  BY <1>1
<1>3. [stack[Level] EXCEPT !.todo = @ \ {r}] \in Activations
  BY <1>2 DEF Activations
<1>4. Rest(r) = [stack EXCEPT ![Level] = [stack[Level] EXCEPT !.todo = @ \ {r}]]
  BY DEF Rest
<1>5. Rest(r) \in Seq(Activations) /\ Len(Rest(r)) = Level
  BY <1>1, <1>3, <1>4
<1>6. \A i \in 1..Level :
              /\ Rest(r)[i].table = stack[i].table
              /\ Rest(r)[i].todo = IF i = Level THEN stack[i].todo \ {r} ELSE stack[i].todo
  <2> SUFFICES ASSUME NEW i \in 1..Level
               PROVE  /\ Rest(r)[i].table = stack[i].table
                      /\ Rest(r)[i].todo = IF i = Level THEN stack[i].todo \ {r} ELSE stack[i].todo
    OBVIOUS
  <2>1. CASE i = Level
    <3>1. Rest(r)[i] = [stack[i] EXCEPT !.todo = @ \ {r}]
      BY <1>1, <1>4, <2>1
    <3> QED BY <1>2, <2>1, <3>1 DEF Activations
  <2>2. CASE i # Level
    BY <1>1, <1>4, <2>2
  <2> QED BY <2>1, <2>2
<1>7. r \in Tables
  BY <1>1, <1>2 DEF Activations
<1> QED BY <1>5, <1>6, <1>7

LEMMA PopFacts ==
  ASSUME TypeOK, Level > 0
  PROVE  /\ Pop \in Seq(Activations) /\ Len(Pop) = Level - 1
         /\ Pop # <<>> <=> Level # 1
         /\ \A i \in 1..(Level - 1) : Pop[i] = stack[i]
<1>1. /\ stack \in Seq(Activations) /\ Level = Len(stack) /\ Level \in Nat
      /\ Pop = SubSeq(stack, 1, Level - 1)
  BY DEF TypeOK, Level, Pop, Activations
<1>2. /\ Pop \in Seq(Activations) /\ Len(Pop) = Level - 1
      /\ \A i \in 1..(Level - 1) : Pop[i] = stack[i]
  BY <1>1
<1> HIDE DEF Level
<1>3. Pop # <<>> <=> Level # 1
  <2>1. CASE Level = 1
    BY <1>2, <2>1
  <2>2. CASE Level # 1
    <3>1. Len(Pop) # 0 /\ Len(<<>>) = 0
      BY <1>1, <1>2, <2>2
    <3> QED BY <2>2, <3>1
  <2> QED BY <2>1, <2>2
<1> QED BY <1>2, <1>3

\* A line that is written.
LEMMA LineFacts ==
  ASSUME TypeOK, NEW r, Takes(r), listed' = Append(listed, Line(r))
  PROVE  /\ listed' \in Seq(Lines) /\ Len(listed) \in Nat /\ Len(listed') = Len(listed) + 1
         /\ \A i \in 1..Len(listed) : listed'[i] = listed[i]
         /\ listed'[Len(listed) + 1].parent = Top.table /\ listed'[Len(listed) + 1].refBy = r
         /\ listed'[Len(listed) + 1].level = Level
         /\ Listed' = Listed \cup {r}
<1>1. Line(r) \in Lines
  BY TopFacts, RestFacts DEF Line, Lines, Takes
<1>2. /\ listed \in Seq(Lines) /\ Len(listed) \in Nat
      /\ listed' \in Seq(Lines) /\ Len(listed') = Len(listed) + 1
      /\ \A i \in 1..Len(listed) : listed'[i] = listed[i]
      /\ listed'[Len(listed) + 1] = Line(r)
  BY <1>1 DEF TypeOK
<1>3. Listed' = Listed \cup {r}
  <2>1. 1..(Len(listed) + 1) = (1..Len(listed)) \cup {Len(listed) + 1}
    BY <1>2
  <2> QED BY <1>2, <2>1 DEF Listed, Line
<1> QED BY <1>2, <1>3 DEF Line

-----------------------------------------------------------------------------
\* Steps by what they do to the stack and to the lines

\* No activation begins.
Shrinks ==
  /\ Level > 0
  /\ stack' \in Seq(Activations)
  /\ Len(stack') <= Level
  /\ \A i \in 1..Len(stack') :
       stack'[i].table = stack[i].table /\ stack'[i].todo \subseteq stack[i].todo
  /\ processed' = processed

\* The line for r is written, and its entry is over.
Writes(r) ==
  /\ Takes(r) /\ listed' = Append(listed, Line(r))
  /\ Level \in 1..Len(stack') => r \notin stack'[Level].todo

Grows(r) ==
  /\ Takes(r) /\ r \notin processed /\ r # Top.table /\ r \in known
  /\ stack' = Append(Rest(r), Frame(r))
  /\ processed' = processed \cup {r}
  /\ listed' = Append(listed, Line(r))
  /\ result' = result

\* The frames of a stack that has grown.
LEMMA GrownFacts ==
  ASSUME TypeOK, NEW r, Grows(r)
  PROVE  /\ stack' \in Seq(Activations) /\ Len(stack') = Level + 1
         /\ \A i \in 1..Level :
              /\ stack'[i].table = stack[i].table
              /\ stack'[i].todo = IF i = Level THEN stack[i].todo \ {r} ELSE stack[i].todo
         /\ stack'[Level + 1].table = r /\ stack'[Level + 1].todo = refBy[r]
<1>1. /\ r \in Tables /\ Level \in Nat
      /\ Rest(r) \in Seq(Activations) /\ Len(Rest(r)) = Level
      /\ \A i \in 1..Level :
              /\ Rest(r)[i].table = stack[i].table
              /\ Rest(r)[i].todo = IF i = Level THEN stack[i].todo \ {r} ELSE stack[i].todo
  BY RestFacts, TopFacts DEF Grows, Takes
<1>2. Frame(r) \in Activations /\ Frame(r).table = r /\ Frame(r).todo = refBy[r]
  BY <1>1 DEF Frame, TypeOK, Activations
<1>3. /\ stack' \in Seq(Activations) /\ Len(stack') = Level + 1
      /\ (\A i \in 1..Level : stack'[i] = Rest(r)[i]) /\ stack'[Level + 1] = Frame(r)
  BY <1>1, <1>2 DEF Grows
<1> QED BY <1>1, <1>2, <1>3

LEMMA ShrinkFrames ==
  ASSUME IInv, UNCHANGED graph, Shrinks, result' = "walking" <=> stack' # <<>>
  PROVE  Frames'
<1>1. Level \in Nat /\ Level = Len(stack) /\ Len(stack') \in Nat /\ (stack' # <<>> => Len(stack') > 0)
  BY TopFacts DEF Shrinks, IInv, Level
<1>2. \A i \in 1..Len(stack') : i \in 1..Len(stack)
  BY <1>1 DEF Shrinks
<1>3. refBy' = refBy /\ stack # <<>>
  BY ReferrersStay, TopFacts DEF Shrinks, IInv
<1> QED BY <1>1, <1>2, <1>3 DEF Frames, IInv, Shrinks

\* An entry of the top activation is not one of a line that is there.
LEMMA FreshLine ==
  ASSUME IInv, NEW r, Takes(r)
  PROVE  \A i \in 1..Len(listed) : ~(listed[i].parent = Top.table /\ listed[i].refBy = r)
<1>1. Level \in 1..Len(stack) /\ Top = stack[Level] /\ r \in stack[Level].todo
  BY TopFacts DEF IInv, Takes, Top
<1> QED BY <1>1 DEF IInv, Once

LEMMA ShrinkOnce ==
  ASSUME IInv, UNCHANGED graph, Shrinks, listed' = listed \/ \E r \in Tables : Writes(r)
  PROVE  Once' /\ ListedOnce'
<1>1. Level \in Nat /\ Level = Len(stack) /\ Len(stack') \in Nat
  BY TopFacts DEF Shrinks, IInv, Level
<1>2. \A k \in 1..Len(stack') :
        /\ k \in 1..Len(stack) /\ stack'[k].table = stack[k].table
        /\ stack'[k].todo \subseteq stack[k].todo
  BY <1>1 DEF Shrinks
<1>3. CASE listed' = listed
  BY <1>2, <1>3 DEF IInv, Once, ListedOnce, Shrinks
<1>4. ASSUME NEW r \in Tables, Writes(r) PROVE Once' /\ ListedOnce'
  <2> DEFINE n == Len(listed) + 1
  <2>1. /\ Len(listed) \in Nat /\ Len(listed') = n /\ \A i \in 1..Len(listed) : listed'[i] = listed[i]
        /\ listed'[n].parent = Top.table /\ listed'[n].refBy = r
    BY <1>4, LineFacts DEF IInv, Writes
  <2> HIDE DEF n
  <2>2. \A i \in 1..n : i \in 1..Len(listed) \/ i = n
    BY <2>1 DEF n
  <2>3. Top.table = stack[Level].table /\ Top.table \in processed /\ Level \in 1..Len(stack)
    BY TopFacts DEF IInv, Frames, Shrinks
  <2>4. ASSUME NEW k \in 1..Len(stack'), stack'[k].table = Top.table PROVE r \notin stack'[k].todo
    <3>1. k = Level
      BY <1>2, <2>3, <2>4 DEF IInv, Frames
    <3> QED BY <1>4, <3>1 DEF Writes
  <2>5. ASSUME NEW i \in 1..n
        PROVE  /\ listed'[i].parent \in processed
               /\ \A k \in 1..Len(stack') :
                    stack'[k].table = listed'[i].parent => listed'[i].refBy \notin stack'[k].todo
    <3>1. CASE i = n
      BY <2>1, <2>3, <2>4, <3>1
    <3>2. CASE i \in 1..Len(listed)
      BY <1>2, <2>1, <3>2 DEF IInv, Once
    <3> QED BY <2>2, <3>1, <3>2
  <2>6. Once'
    BY <2>1, <2>5 DEF Once, Shrinks
  <2>7. \A i \in 1..Len(listed) : ~(listed[i].parent = Top.table /\ listed[i].refBy = r)
    BY <1>4, FreshLine DEF Writes
  <2>8. ListedOnce'
    BY <2>1, <2>2, <2>7 DEF IInv, ListedOnce
  <2> QED BY <2>6, <2>8
<1> QED BY <1>3, <1>4

LEMMA GrowFrames ==
  ASSUME IInv, UNCHANGED graph, NEW r, Grows(r)
  PROVE  Frames' /\ Once' /\ ListedOnce'
<1>1. /\ Level \in Nat /\ Level = Len(stack) /\ Level > 0 /\ Level \in 1..Len(stack)
      /\ stack # <<>> /\ Takes(r) /\ refBy' = refBy /\ r \notin processed
      /\ processed' = processed \cup {r} /\ result' = result /\ Top = stack[Level]
  BY TopFacts, ReferrersStay DEF Grows, Takes, IInv, Level
<1>2. /\ Len(stack') = Level + 1 /\ stack' \in Seq(Activations)
      /\ \A i \in 1..Level :
              /\ stack'[i].table = stack[i].table
              /\ stack'[i].todo = IF i = Level THEN stack[i].todo \ {r} ELSE stack[i].todo
      /\ stack'[Level + 1].table = r /\ stack'[Level + 1].todo = refBy[r]
  BY GrownFacts DEF IInv
<1>3. \A i \in 1..Len(stack') : i \in 1..Len(stack) \/ i = Level + 1
  BY <1>1, <1>2
<1>4. \A i \in 1..Len(stack) : stack[i].table \in processed /\ stack[i].todo \subseteq refBy[stack[i].table]
  BY DEF IInv, Frames
<1>5. Frames'
  <2>1. \A i \in 1..Len(stack') :
          stack'[i].table \in processed' /\ stack'[i].todo \subseteq refBy'[stack'[i].table]
    <3> SUFFICES ASSUME NEW i \in 1..Len(stack')
                 PROVE  stack'[i].table \in processed' /\ stack'[i].todo \subseteq refBy[stack'[i].table]
      BY <1>1
    <3>1. CASE i \in 1..Len(stack)
      <4>1. stack'[i].table = stack[i].table /\ stack'[i].todo \subseteq stack[i].todo
        BY <1>1, <1>2, <3>1
      <4> QED BY <1>1, <1>4, <3>1, <4>1
    <3>2. CASE i = Level + 1
      BY <1>1, <1>2, <3>2
    <3> QED BY <1>3, <3>1, <3>2
  <2>2. \A i, j \in 1..Len(stack') : stack'[i].table = stack'[j].table => i = j
    <3>1. \A i, j \in 1..Len(stack) : stack[i].table = stack[j].table => i = j
      BY DEF IInv, Frames
    <3>2. \A i \in 1..Len(stack) : stack'[i].table = stack[i].table /\ stack'[i].table # r
      BY <1>1, <1>2, <1>4
    <3> QED BY <1>2, <1>3, <3>1, <3>2
  <2>3. stack'[1].table = Root /\ stack' # <<>> /\ result' = "walking"
    <3>1. 1 \in 1..Level /\ stack[1].table = Root /\ result = "walking"
      BY <1>1 DEF IInv, Frames
    <3>2. stack' # <<>>
      BY <1>1, <1>2
    <3> QED BY <1>1, <1>2, <3>1, <3>2
  <2> QED BY <2>1, <2>2, <2>3 DEF Frames
<1> DEFINE n == Len(listed) + 1
<1>6. /\ Len(listed) \in Nat /\ Len(listed') = n /\ \A i \in 1..Len(listed) : listed'[i] = listed[i]
      /\ listed'[n].parent = Top.table /\ listed'[n].refBy = r
  BY LineFacts DEF IInv, Grows
<1> HIDE DEF n
<1>7. \A i \in 1..n : i \in 1..Len(listed) \/ i = n
  BY <1>6 DEF n
<1>8. ASSUME NEW i \in 1..n
      PROVE  /\ listed'[i].parent \in processed
             /\ \A k \in 1..Len(stack) :
                  stack[k].table = listed'[i].parent => listed'[i].refBy \notin stack'[k].todo
  <2>1. CASE i = n
    <3>1. \A k \in 1..Len(stack) : stack[k].table = Top.table => k = Level
      BY <1>1 DEF IInv, Frames
    <3> QED BY <1>1, <1>2, <1>4, <1>6, <2>1, <3>1
  <2>2. CASE i \in 1..Len(listed)
    BY ZenonT(30), <1>1, <1>2, <1>6, <2>2 DEF IInv, Once
  <2> QED BY <1>7, <2>1, <2>2
<1>9. Once'
  <2> SUFFICES ASSUME NEW i \in 1..n, NEW k \in 1..Len(stack')
               PROVE  stack'[k].table = listed'[i].parent => listed'[i].refBy \notin stack'[k].todo
    BY <1>1, <1>6, <1>8 DEF Once
  <2>1. CASE k \in 1..Len(stack)
    BY <1>1, <1>2, <1>8, <2>1
  <2>2. CASE k = Level + 1
    BY <1>1, <1>2, <1>8, <2>2
  <2> QED BY <1>3, <2>1, <2>2
<1>10. \A i \in 1..Len(listed) : ~(listed[i].parent = Top.table /\ listed[i].refBy = r)
  BY <1>1, FreshLine
<1>11. ListedOnce'
  BY <1>6, <1>7, <1>10 DEF IInv, ListedOnce
<1> QED BY <1>5, <1>9, <1>11

\* A new line is under its parent's; every opener is still the last of its level.
LEMMA LineIsNested ==
  ASSUME IInv, NEW r, Takes(r), listed' = Append(listed, Line(r))
  PROVE  /\ NestedUnderParent'
         /\ \A k \in 2..Level : \E j \in 1..Len(listed') :
              /\ listed'[j].refBy = stack[k].table /\ listed'[j].level = k - 1
              /\ \A i \in (j + 1)..Len(listed') : listed'[i].level >= k
<1> DEFINE n == Len(listed) + 1
<1>1. /\ Len(listed) \in Nat /\ Len(listed') = n /\ \A i \in 1..Len(listed) : listed'[i] = listed[i]
      /\ listed'[n].parent = Top.table /\ listed'[n].refBy = r /\ listed'[n].level = Level
  BY LineFacts DEF IInv
<1>2. Level \in Nat /\ Level > 0 /\ Level = Len(stack) /\ Top = stack[Level] /\ stack # <<>>
  BY TopFacts DEF IInv, Takes, Level
<1>3. n \in Nat /\ n - 1 = Len(listed) /\ \A i \in 1..n : i \in 1..Len(listed) \/ i = n
  BY <1>1
<1> HIDE DEF n
<1>4. ASSUME NEW k \in 2..Level
      PROVE  \E j \in 1..Len(listed) :
               /\ listed'[j].refBy = stack[k].table /\ listed'[j].level = k - 1
               /\ \A i \in (j + 1)..n : listed'[i].level >= k
  <2>1. PICK j \in 1..Len(listed) : Opens(j, k)
    BY <1>2 DEF IInv, Opened
  <2>2. ASSUME NEW i \in (j + 1)..n PROVE listed'[i].level >= k
    <3>1. CASE i = n
      BY <1>1, <1>2, <3>1
    <3>2. CASE i # n
      <4>1. i \in (j + 1)..Len(listed) /\ i \in 1..Len(listed)
        BY <1>1, <1>3, <3>2
      <4> QED BY <1>1, <2>1, <4>1 DEF Opens
    <3> QED BY <3>1, <3>2
  <2> QED BY <1>1, <2>1, <2>2 DEF Opens
<1>5. ASSUME NEW i \in 1..n
      PROVE  IF listed'[i].level = 1 THEN listed'[i].parent = Root
             ELSE \E j \in 1..(i - 1) :
                    /\ listed'[j].refBy = listed'[i].parent
                    /\ listed'[j].level = listed'[i].level - 1
                    /\ \A k \in (j + 1)..(i - 1) : listed'[k].level >= listed'[i].level
  <2>1. CASE i = n /\ Level = 1
    <3>1. Top.table = Root
      BY <1>2, <2>1 DEF IInv, Frames
    <3>2. listed'[i].level = 1 /\ listed'[i].parent = Root
      BY <1>1, <2>1, <3>1
    <3> QED BY <3>2
  <2>2. CASE i = n /\ Level # 1
    <3>1. Level \in 2..Level
      BY <1>2, <2>2
    <3>2. PICK j \in 1..Len(listed) :
               /\ listed'[j].refBy = stack[Level].table /\ listed'[j].level = Level - 1
               /\ \A k \in (j + 1)..n : listed'[k].level >= Level
      BY <1>4, <3>1
    <3>3. \A k \in (j + 1)..(n - 1) : k \in (j + 1)..n
      BY <1>3
    <3>4. listed'[n].level # 1 /\ j \in 1..(n - 1)
      BY <1>1, <1>3, <2>2
    <3>5. \A k \in (j + 1)..(n - 1) : listed'[k].level >= Level
      BY <3>2, <3>3
    <3>6. /\ listed'[j].refBy = listed'[n].parent /\ listed'[j].level = listed'[n].level - 1
          /\ \A k \in (j + 1)..(n - 1) : listed'[k].level >= listed'[n].level
      BY <1>1, <1>2, <3>2, <3>5
    <3> QED BY <2>2, <3>4, <3>6
  <2>3. CASE i \in 1..Len(listed)
    <3>1. CASE listed[i].level = 1
      BY <1>1, <2>3, <3>1 DEF IInv, NestedUnderParent
    <3>2. CASE listed[i].level # 1
      <4>1. PICK j \in 1..(i - 1) :
               /\ listed[j].refBy = listed[i].parent /\ listed[j].level = listed[i].level - 1
               /\ \A k \in (j + 1)..(i - 1) : listed[k].level >= listed[i].level
        BY <2>3, <3>2 DEF IInv, NestedUnderParent
      <4>2. j \in 1..Len(listed) /\ \A k \in (j + 1)..(i - 1) : k \in 1..Len(listed)
        BY <1>1, <2>3
      <4> QED BY <1>1, <2>3, <3>2, <4>1, <4>2
    <3> QED BY <3>1, <3>2
  <2> QED BY <1>3, <2>1, <2>2, <2>3
<1>6. NestedUnderParent'
  BY <1>1, <1>5 DEF NestedUnderParent
<1>7. \A j \in 1..Len(listed) : j \in 1..Len(listed')
  BY <1>1, <1>3
<1> QED BY ZenonT(30), <1>1, <1>4, <1>6, <1>7

\* What a step keeps that begins no activation, whatever becomes of the result.
LEMMA ShrinkKeeps ==
  ASSUME IInv, UNCHANGED graph, Shrinks, result' = "walking" <=> stack' # <<>>,
         result' \in {"walking", "listed", "failed"},
         listed' = listed \/ \E r \in Tables : Writes(r)
  PROVE  /\ TypeOK' /\ Frames' /\ Once' /\ ListedOnce' /\ Opened' /\ NestedUnderParent'
         /\ Reached' /\ Marked'
<1>1. /\ Level \in Nat /\ Level = Len(stack) /\ Len(stack') \in Nat /\ Level > 0 /\ stack # <<>>
      /\ Top = stack[Level] /\ Level \in 1..Len(stack)
  BY TopFacts DEF Shrinks, IInv, Level
<1>2. \A k \in 1..Len(stack') : k \in 1..Len(stack) /\ stack'[k].table = stack[k].table
  BY <1>1 DEF Shrinks
<1>3. Referrers' = Referrers /\ refBy' = refBy /\ known' = known
  BY ReferrersStay
<1>4. ASSUME NEW r \in Tables, Writes(r)
      PROVE  /\ listed' \in Seq(Lines) /\ Listed' = Listed \cup {r} /\ r \in Referrers
             /\ Opened' /\ NestedUnderParent'
  <2>1. Takes(r) /\ listed' = Append(listed, Line(r))
    BY <1>4 DEF Writes
  <2>2. r \in refBy[Top.table] /\ Top.table \in Referrers
    BY <1>1, <2>1 DEF Takes, IInv, Frames, Reached
  <2>3. r \in Referrers
    BY <2>2, ReferrersAreClosed DEF IInv, TypeOK
  <2>4. NestedUnderParent' /\ \A k \in 2..Level : \E j \in 1..Len(listed') :
              /\ listed'[j].refBy = stack[k].table /\ listed'[j].level = k - 1
              /\ \A i \in (j + 1)..Len(listed') : listed'[i].level >= k
    BY <2>1, LineIsNested
  <2>5. \A k \in 2..Len(stack') : k \in 2..Level /\ stack'[k].table = stack[k].table
    BY <1>1, <1>2
  <2>6. Opened'
    BY <2>4, <2>5 DEF Opened, Opens
  <2> QED BY <2>1, <2>3, <2>4, <2>6, LineFacts DEF IInv
<1>6. /\ listed' \in Seq(Lines) /\ Listed \subseteq Listed' /\ Listed' \subseteq Referrers
      /\ Opened' /\ NestedUnderParent'
  <2>1. CASE listed' = listed
    <3>1. Listed' = Listed /\ listed' \in Seq(Lines) /\ NestedUnderParent'
      BY <2>1 DEF NestedUnderParent, Listed, IInv, TypeOK
    <3>2. \A k \in 2..Len(stack') : k \in 2..Len(stack) /\ stack'[k].table = stack[k].table
      BY <1>1, <1>2
    <3>3. Opened'
      BY <2>1, <3>2 DEF Opened, Opens, IInv
    <3> QED BY <3>1, <3>3 DEF IInv, Reached
  <2>2. CASE listed' # listed
    BY <1>4, <2>2 DEF IInv, Reached
  <2> QED BY <2>1, <2>2
<1>7. TypeOK'
  BY <1>3, <1>6 DEF TypeOK, IInv, Shrinks, Activations
<1>8. Frames' /\ Once' /\ ListedOnce'
  BY ShrinkFrames, ShrinkOnce
<1>9. Reached'
  BY <1>2, <1>3, <1>6 DEF Reached, IInv
<1>10. Marked'
  <2>1. result # "none"
    BY <1>1 DEF IInv, Frames
  <2> QED BY <1>3, <1>6, <2>1 DEF Marked, IInv, Shrinks
<1> QED BY <1>6, <1>7, <1>8, <1>9, <1>10

\* The same of a step that begins one.
LEMMA GrowKeeps ==
  ASSUME IInv, UNCHANGED graph, NEW r, Grows(r)
  PROVE  /\ TypeOK' /\ Frames' /\ Once' /\ ListedOnce' /\ Opened' /\ NestedUnderParent'
         /\ Reached' /\ Marked'
<1>1. /\ Level \in Nat /\ Level = Len(stack) /\ Level > 0 /\ Takes(r)
      /\ listed' = Append(listed, Line(r)) /\ Top = stack[Level] /\ Level \in 1..Len(stack)
      /\ r \in known /\ processed' = processed \cup {r} /\ result' = result /\ r \in Tables
  BY TopFacts, RestFacts DEF Grows, Takes, IInv, Level
<1>2. /\ Len(stack') = Level + 1 /\ stack' \in Seq(Activations)
      /\ \A i \in 1..Level : stack'[i].table = stack[i].table
      /\ stack'[Level + 1].table = r
  BY GrownFacts DEF IInv
<1>3. Referrers' = Referrers /\ refBy' = refBy /\ known' = known
  BY ReferrersStay
<1>4. listed' \in Seq(Lines) /\ Listed' = Listed \cup {r}
  BY <1>1, LineFacts DEF IInv
<1>5. r \in Referrers
  <2>1. r \in refBy[Top.table] /\ Top.table \in Referrers
    BY <1>1 DEF Takes, IInv, Frames, Reached
  <2> QED BY <2>1, ReferrersAreClosed DEF IInv, TypeOK
<1>6. Opened' /\ NestedUnderParent'
  <2>1. NestedUnderParent' /\ \A k \in 2..Level : \E j \in 1..Len(listed') :
              /\ listed'[j].refBy = stack[k].table /\ listed'[j].level = k - 1
              /\ \A i \in (j + 1)..Len(listed') : listed'[i].level >= k
    BY <1>1, LineIsNested
  <2>5. PICK n \in Nat : n = Len(listed) + 1
    BY <1>1, LineFacts DEF IInv
  <2>2. /\ Len(listed') = n /\ n \in 1..n /\ (n + 1)..n = {}
        /\ listed'[n].refBy = r /\ listed'[n].level = Level
    BY <1>1, <2>5, LineFacts DEF IInv
  <2>3. ASSUME NEW k \in 2..Len(stack') PROVE \E j \in 1..Len(listed') : Opens(j, k)'
    <3>1. CASE k = Level + 1
      <4>1. k - 1 = Level
        BY <1>1, <3>1
      <4>2. Opens(n, k)'
        BY <1>2, <2>2, <3>1, <4>1 DEF Opens
      <4> QED BY <2>2, <4>2
    <3>2. CASE k # Level + 1
      <4>1. k \in 2..Level /\ stack'[k].table = stack[k].table
        BY <1>1, <1>2, <3>2
      <4> QED BY <2>1, <4>1 DEF Opens
    <3> QED BY <3>1, <3>2
  <2> QED BY <2>1, <2>3 DEF Opened
<1>7. TypeOK'
  BY <1>1, <1>2, <1>3, <1>4 DEF TypeOK, IInv, Activations
<1>8. Frames' /\ Once' /\ ListedOnce'
  BY GrowFrames
<1>9. Reached'
  <2>1. \A i \in 1..Len(stack') : i \in 1..Level \/ i = Level + 1
    BY <1>1, <1>2
  <2> QED BY <1>1, <1>2, <1>3, <1>4, <1>5, <2>1 DEF Reached, IInv
<1>10. Marked'
  BY <1>1, <1>3, <1>4 DEF Marked, IInv
<1> QED BY <1>6, <1>7, <1>8, <1>9, <1>10

-----------------------------------------------------------------------------
\* The actions

\* The loop going on is a stack that shrinks, and Root's activation only loses the entry.
LEMMA RestShrinks ==
  ASSUME IInv, NEW r, Takes(r), stack' = Rest(r), processed' = processed
  PROVE  /\ Shrinks /\ (Level \in 1..Len(stack') => r \notin stack'[Level].todo)
         /\ stack[1].todo \subseteq stack'[1].todo \cup {r}
<1>1. /\ Level \in Nat /\ Level > 0 /\ Level \in 1..Level /\ 1 \in 1..Level
  BY TopFacts DEF IInv, Takes
<1>2. /\ stack' \in Seq(Activations) /\ Len(stack') = Level
      /\ \A i \in 1..Level :
              /\ stack'[i].table = stack[i].table
              /\ stack'[i].todo = IF i = Level THEN stack[i].todo \ {r} ELSE stack[i].todo
  BY RestFacts DEF IInv
<1>3. \A i \in 1..Level :
        /\ stack'[i].table = stack[i].table /\ stack'[i].todo \subseteq stack[i].todo
        /\ stack[i].todo \subseteq stack'[i].todo \cup {r}
  <2> SUFFICES ASSUME NEW i \in 1..Level
               PROVE  /\ stack'[i].table = stack[i].table /\ stack'[i].todo \subseteq stack[i].todo
                      /\ stack[i].todo \subseteq stack'[i].todo \cup {r}
    OBVIOUS
  <2>1. stack'[i].todo = stack[i].todo \ {r} \/ stack'[i].todo = stack[i].todo
    BY <1>2
  <2> QED BY <1>2, <2>1
<1>4. Shrinks
  <2>1. Len(stack') <= Level
    BY <1>1, <1>2
  <2> HIDE DEF Level
  <2> QED BY <1>1, <1>2, <1>3, <2>1 DEF Shrinks
<1>5. r \notin stack'[Level].todo
  <2>1. stack'[Level].todo = stack[Level].todo \ {r}
    BY <1>1, <1>2
  <2> QED BY <2>1
<1>6. stack[1].todo \subseteq stack'[1].todo \cup {r}
  BY <1>1, <1>3
<1> QED BY <1>4, <1>5, <1>6

LEMMA SkipStep ==
  ASSUME IInv, NEW r \in Tables, Skip(r)
  PROVE  IInv'
<1>1. /\ Takes(r) /\ r \in processed /\ r # Top.table /\ stack' = Rest(r)
      /\ UNCHANGED graph /\ processed' = processed /\ listed' = listed /\ result' = result
  BY DEF Skip, Skips
<1>2. /\ Level \in Nat /\ Level > 0 /\ Level = Len(stack) /\ Top = stack[Level] /\ stack # <<>>
      /\ Level \in 1..Len(stack)
  BY <1>1, TopFacts DEF IInv, Takes, Level
<1>3. /\ stack' \in Seq(Activations) /\ Len(stack') = Level
      /\ \A i \in 1..Level :
              /\ stack'[i].table = stack[i].table
              /\ stack'[i].todo = IF i = Level THEN stack[i].todo \ {r} ELSE stack[i].todo
  BY <1>1, RestFacts DEF IInv
<1>4. stack' # <<>> /\ result' = "walking"
  BY <1>1, <1>2, <1>3 DEF IInv, Frames
<1>5. Shrinks
  BY <1>1, RestShrinks
<1>6. Referrers' = Referrers /\ refBy' = refBy /\ known' = known /\ Listed' = Listed
  BY <1>1, ReferrersStay DEF Listed
<1>7. RootsLoop'
  <2>1. refBy[Root] \subseteq known \cup stack[1].todo /\ stack[1].table = Root
    BY <1>1, <1>2, <1>4 DEF IInv, RootsLoop, Frames
  <2>2. Level = 1 => r \in known
    BY <1>1, <1>2, <2>1 DEF IInv, Marked
  <2>3. stack[1].todo \subseteq stack'[1].todo \cup known
    <3>1. CASE Level = 1
      <4>1. stack[1].todo \subseteq stack'[1].todo \cup {r}
        BY <1>1, RestShrinks
      <4> QED BY <2>2, <3>1, <4>1
    <3>2. CASE Level # 1
      <4>1. 1 \in 1..Level
        BY <1>2
      <4>2. stack'[1].todo = stack[1].todo
        BY <1>3, <3>2, <4>1
      <4> QED BY <4>2
    <3> QED BY <3>1, <3>2
  <2> QED BY <1>4, <1>6, <2>1, <2>3 DEF RootsLoop
<1>8. Covered'
  <2> SUFFICES ASSUME Referrers \subseteq known
               PROVE  /\ \A t \in Listed \cup {Root} : refBy[t] = {} \/ t \in processed
                      /\ \A t \in processed : \A q \in refBy[t] :
                           q \in Listed \cup {Root} \/ Waits(t, q)'
    BY <1>1, <1>6 DEF Covered
  <2>1. ASSUME NEW t \in processed, NEW q \in refBy[t], q \notin Listed \cup {Root}
        PROVE  Waits(t, q)'
    <3>1. PICK i \in 1..Len(stack) : stack[i].table = t /\ q \in stack[i].todo
      BY <2>1 DEF IInv, Covered, Waits
    <3>2. q # r
      BY <1>1, <2>1 DEF IInv, Marked
    <3>3. i \in 1..Len(stack') /\ stack'[i].table = t /\ q \in stack'[i].todo
      BY <1>2, <1>3, <3>1, <3>2
    <3> QED BY <3>3 DEF Waits
  <2> QED BY <2>1 DEF IInv, Covered
<1>9. /\ TypeOK' /\ Frames' /\ Once' /\ ListedOnce' /\ Opened' /\ NestedUnderParent'
      /\ Reached' /\ Marked'
  BY <1>1, <1>4, <1>5, ShrinkKeeps
<1> QED BY <1>7, <1>8, <1>9 DEF IInv

LEMMA ListLeafStep ==
  ASSUME IInv, NEW r \in Tables, ListLeaf(r)
  PROVE  IInv'
<1>1. /\ Takes(r) /\ r \in known /\ (r = Top.table \/ refBy[r] = {}) /\ stack' = Rest(r)
      /\ UNCHANGED graph /\ processed' = processed /\ result' = result
      /\ listed' = Append(listed, Line(r))
  BY DEF ListLeaf
<1>2. /\ Level \in Nat /\ Level > 0 /\ Level = Len(stack) /\ Top = stack[Level] /\ stack # <<>>
      /\ Level \in 1..Len(stack)
  BY <1>1, TopFacts DEF IInv, Takes, Level
<1>3. /\ stack' \in Seq(Activations) /\ Len(stack') = Level
      /\ \A i \in 1..Level :
              /\ stack'[i].table = stack[i].table
              /\ stack'[i].todo = IF i = Level THEN stack[i].todo \ {r} ELSE stack[i].todo
  BY <1>1, RestFacts DEF IInv
<1>4. stack' # <<>> /\ result' = "walking"
  BY <1>1, <1>2, <1>3 DEF IInv, Frames
<1>5. Shrinks /\ Writes(r)
  BY <1>1, RestShrinks DEF Writes
<1>6. Referrers' = Referrers /\ refBy' = refBy /\ known' = known /\ Listed' = Listed \cup {r}
  BY <1>1, ReferrersStay, LineFacts DEF IInv
<1>7. RootsLoop'
  <2>1. refBy[Root] \subseteq known \cup stack[1].todo
    BY <1>1, <1>4 DEF IInv, RootsLoop
  <2>2. stack[1].todo \subseteq stack'[1].todo \cup known
    <3>1. stack[1].todo \subseteq stack'[1].todo \cup {r}
      BY <1>1, RestShrinks
    <3> QED BY <1>1, <3>1
  <2> QED BY <1>4, <1>6, <2>1, <2>2 DEF RootsLoop
<1>8. Covered'
  <2> SUFFICES ASSUME Referrers \subseteq known
               PROVE  /\ \A t \in Listed' \cup {Root} : refBy[t] = {} \/ t \in processed
                      /\ \A t \in processed : \A q \in refBy[t] :
                           q \in Listed' \cup {Root} \/ Waits(t, q)'
    BY <1>1, <1>6 DEF Covered
  <2>1. ASSUME NEW t \in processed, NEW q \in refBy[t], q \notin Listed' \cup {Root}
        PROVE  Waits(t, q)'
    <3>1. PICK i \in 1..Len(stack) : stack[i].table = t /\ q \in stack[i].todo
      BY <1>6, <2>1 DEF IInv, Covered, Waits
    <3>2. q # r
      BY <1>6, <2>1
    <3>3. i \in 1..Len(stack') /\ stack'[i].table = t /\ q \in stack'[i].todo
      BY <1>2, <1>3, <3>1, <3>2
    <3> QED BY <3>3 DEF Waits
  <2>2. refBy[r] = {} \/ r \in processed
    BY <1>1, <1>2 DEF IInv, Frames
  <2>3. \A t \in Listed \cup {Root} : refBy[t] = {} \/ t \in processed
    BY DEF IInv, Covered
  <2> QED BY <1>6, <2>1, <2>2, <2>3
<1>9. /\ TypeOK' /\ Frames' /\ Once' /\ ListedOnce' /\ Opened' /\ NestedUnderParent'
      /\ Reached' /\ Marked'
  BY <1>1, <1>4, <1>5, ShrinkKeeps
<1> QED BY <1>7, <1>8, <1>9 DEF IInv

\* The error ends the activation and leaves the rest of its list; only Root's is returned.
LEMMA ListUnknownStep ==
  ASSUME IInv, NEW r \in Tables, ListUnknown(r)
  PROVE  IInv'
<1>1. /\ Takes(r) /\ r \notin known /\ stack' = Pop
      /\ UNCHANGED graph /\ processed' = processed
      /\ result' = IF Level = 1 THEN "failed" ELSE result
      /\ listed' = Append(listed, Line(r))
  BY DEF ListUnknown
<1>2. /\ Level \in Nat /\ Level > 0 /\ Level = Len(stack) /\ Top = stack[Level] /\ stack # <<>>
      /\ Level \in 1..Len(stack) /\ result = "walking" /\ r \in refBy[Top.table]
  BY <1>1, TopFacts DEF IInv, Takes, Level, Frames
<1>3. /\ stack' \in Seq(Activations) /\ Len(stack') = Level - 1 /\ (stack' # <<>> <=> Level # 1)
      /\ \A i \in 1..(Level - 1) : stack'[i] = stack[i]
  BY <1>1, <1>2, PopFacts DEF IInv
<1>4. (result' = "walking" <=> stack' # <<>>) /\ result' \in {"walking", "listed", "failed"}
  BY <1>1, <1>2, <1>3
<1>5. Shrinks /\ Writes(r)
  BY <1>1, <1>2, <1>3 DEF Shrinks, Writes
<1>6. Referrers' = Referrers /\ refBy' = refBy /\ known' = known
  BY <1>1, ReferrersStay
<1>7. RootsLoop'
  <2>1. CASE Level = 1
    <3>1. Top.table = Root /\ result' = "failed"
      BY <1>1, <1>2, <2>1 DEF IInv, Frames
    <3> QED BY <1>1, <1>2, <1>6, <3>1 DEF RootsLoop
  <2>2. CASE Level # 1
    <3>1. stack'[1] = stack[1] /\ result' = "walking"
      BY <1>1, <1>2, <1>3, <2>2
    <3> QED BY <1>2, <1>6, <3>1 DEF RootsLoop, IInv
  <2> QED BY <2>1, <2>2
<1>8. Covered'
  <2>1. Top.table \in Referrers
    BY <1>2 DEF IInv, Reached
  <2>2. r \in Referrers
    BY <1>2, <2>1, ReferrersAreClosed DEF IInv, TypeOK
  <2> QED BY <1>1, <1>6, <2>2 DEF Covered
<1>9. /\ TypeOK' /\ Frames' /\ Once' /\ ListedOnce' /\ Opened' /\ NestedUnderParent'
      /\ Reached' /\ Marked'
  BY <1>1, <1>4, <1>5, ShrinkKeeps
<1> QED BY <1>7, <1>8, <1>9 DEF IInv

LEMMA LeaveStep ==
  ASSUME IInv, Leave
  PROVE  IInv'
<1>1. /\ Level > 0 /\ Top.todo = {} /\ stack' = Pop /\ UNCHANGED graph /\ processed' = processed
      /\ listed' = listed /\ result' = IF Level = 1 THEN "listed" ELSE result
  BY DEF Leave
<1>2. /\ Level \in Nat /\ Level = Len(stack) /\ Top = stack[Level] /\ stack # <<>>
      /\ Level \in 1..Len(stack) /\ result = "walking"
  BY <1>1, TopFacts DEF IInv, Level, Frames
<1>3. /\ stack' \in Seq(Activations) /\ Len(stack') = Level - 1 /\ (stack' # <<>> <=> Level # 1)
      /\ \A i \in 1..(Level - 1) : stack'[i] = stack[i]
  BY <1>1, <1>2, PopFacts DEF IInv
<1>4. (result' = "walking" <=> stack' # <<>>) /\ result' \in {"walking", "listed", "failed"}
  BY <1>1, <1>2, <1>3
<1>5. Shrinks
  BY <1>1, <1>2, <1>3 DEF Shrinks
<1>6. Referrers' = Referrers /\ refBy' = refBy /\ known' = known /\ Listed' = Listed
  BY <1>1, ReferrersStay DEF Listed
<1>7. RootsLoop'
  <2>1. refBy[Root] \subseteq known \cup stack[1].todo
    BY <1>2 DEF IInv, RootsLoop
  <2>2. CASE Level = 1
    BY <1>1, <1>2, <1>6, <2>1, <2>2 DEF RootsLoop
  <2>3. CASE Level # 1
    <3>1. stack'[1] = stack[1] /\ result' = "walking"
      BY <1>1, <1>2, <1>3, <2>3
    <3> QED BY <1>6, <2>1, <3>1 DEF RootsLoop
  <2> QED BY <2>2, <2>3
<1>8. Covered'
  <2> SUFFICES ASSUME Referrers \subseteq known
               PROVE  /\ \A t \in Listed \cup {Root} : refBy[t] = {} \/ t \in processed
                      /\ \A t \in processed : \A q \in refBy[t] :
                           q \in Listed \cup {Root} \/ Waits(t, q)'
    BY <1>1, <1>6 DEF Covered
  <2>1. ASSUME NEW t \in processed, NEW q \in refBy[t], q \notin Listed \cup {Root}
        PROVE  Waits(t, q)'
    <3>1. PICK i \in 1..Len(stack) : stack[i].table = t /\ q \in stack[i].todo
      BY <2>1 DEF IInv, Covered, Waits
    <3>2. i \in 1..Len(stack') /\ stack'[i] = stack[i]
      BY <1>1, <1>2, <1>3, <3>1
    <3> QED BY <3>1, <3>2 DEF Waits
  <2> QED BY <2>1 DEF IInv, Covered
<1>9. /\ TypeOK' /\ Frames' /\ Once' /\ ListedOnce' /\ Opened' /\ NestedUnderParent'
      /\ Reached' /\ Marked'
  BY <1>1, <1>4, <1>5, ShrinkKeeps
<1> QED BY <1>7, <1>8, <1>9 DEF IInv

LEMMA DescendStep ==
  ASSUME IInv, NEW r \in Tables, Descend(r)
  PROVE  IInv'
<1>1. Grows(r) /\ UNCHANGED graph
  BY DEF Descend, Skips, Grows
<1>2. /\ Level \in Nat /\ Level > 0 /\ Level = Len(stack) /\ Top = stack[Level] /\ stack # <<>>
      /\ Level \in 1..Len(stack) /\ result = "walking" /\ result' = result
      /\ r \in known /\ processed' = processed \cup {r} /\ Takes(r)
  BY <1>1, TopFacts DEF IInv, Takes, Grows, Level, Frames
<1>3. /\ Len(stack') = Level + 1
      /\ \A i \in 1..Level :
              /\ stack'[i].table = stack[i].table
              /\ stack'[i].todo = IF i = Level THEN stack[i].todo \ {r} ELSE stack[i].todo
      /\ stack'[Level + 1].table = r /\ stack'[Level + 1].todo = refBy[r]
  BY <1>1, GrownFacts DEF IInv
<1>4. Referrers' = Referrers /\ refBy' = refBy /\ known' = known /\ Listed' = Listed \cup {r}
  BY <1>1, ReferrersStay, LineFacts DEF IInv, Grows
<1>5. RootsLoop'
  <2>1. refBy[Root] \subseteq known \cup stack[1].todo
    BY <1>2 DEF IInv, RootsLoop
  <2>2. stack[1].todo \subseteq stack'[1].todo \cup known
    <3>1. 1 \in 1..Level
      BY <1>2
    <3>2. stack'[1].todo = IF 1 = Level THEN stack[1].todo \ {r} ELSE stack[1].todo
      BY <1>3, <3>1
    <3> QED BY <1>2, <3>2
  <2> QED BY <1>2, <1>4, <2>1, <2>2 DEF RootsLoop
<1>6. Covered'
  <2> SUFFICES ASSUME Referrers \subseteq known
               PROVE  /\ \A t \in Listed' \cup {Root} : refBy[t] = {} \/ t \in processed'
                      /\ \A t \in processed' : \A q \in refBy[t] :
                           q \in Listed' \cup {Root} \/ Waits(t, q)'
    BY <1>4 DEF Covered
  <2>1. ASSUME NEW t \in processed', NEW q \in refBy[t], q \notin Listed' \cup {Root}
        PROVE  Waits(t, q)'
    <3>1. CASE t = r
      <4>1. Level + 1 \in 1..Len(stack')
        BY <1>2, <1>3
      <4> QED BY <1>3, <2>1, <3>1, <4>1 DEF Waits
    <3>2. CASE t # r
      <4>1. t \in processed
        BY <1>2, <2>1, <3>2
      <4>2. PICK i \in 1..Len(stack) : stack[i].table = t /\ q \in stack[i].todo
        BY <1>4, <2>1, <4>1 DEF IInv, Covered, Waits
      <4>3. q # r
        BY <1>4, <2>1
      <4>4. i \in 1..Len(stack') /\ stack'[i].table = t /\ q \in stack'[i].todo
        <5>1. i \in 1..Level /\ i \in 1..(Level + 1)
          BY <1>2
        <5>2. stack'[i].table = stack[i].table /\ (stack'[i].todo = stack[i].todo \ {r} \/ stack'[i].todo = stack[i].todo)
          BY <1>3, <5>1
        <5> QED BY <1>3, <4>2, <4>3, <5>1, <5>2
      <4> QED BY <4>4 DEF Waits
    <3> QED BY <3>1, <3>2
  <2>2. \A t \in Listed \cup {Root} : refBy[t] = {} \/ t \in processed
    BY DEF IInv, Covered
  <2> QED BY <1>2, <1>4, <2>1, <2>2
<1>7. /\ TypeOK' /\ Frames' /\ Once' /\ ListedOnce' /\ Opened' /\ NestedUnderParent'
      /\ Reached' /\ Marked'
  BY <1>1, GrowKeeps
<1> QED BY <1>5, <1>6, <1>7 DEF IInv

LEMMA InitIInv == Init => IInv
<1> SUFFICES ASSUME Init PROVE IInv
  OBVIOUS
<1>1. /\ refBy \in [Tables -> SUBSET Tables] /\ known \subseteq Tables /\ listed = <<>>
      /\ \/ /\ refBy[Root] = {} /\ stack = <<>> /\ processed = {} /\ result = "none"
         \/ /\ refBy[Root] # {} /\ stack = <<Frame(Root)>> /\ processed = {Root} /\ result = "walking"
  BY DEF Init
<1>2. Frame(Root) \in Activations /\ Frame(Root).table = Root /\ Frame(Root).todo = refBy[Root]
  BY <1>1, RootAssumption DEF Frame, Activations
<1>3. Listed = {} /\ listed \in Seq(Lines) /\ Len(listed) = 0
  <2>1. listed \in Seq(Lines) /\ Len(listed) = 0
    BY <1>1
  <2> QED BY <2>1 DEF Listed
<1>4. \/ stack = <<>> /\ Len(stack) = 0
      \/ /\ Len(stack) = 1 /\ stack # <<>> /\ stack[1] = Frame(Root)
         /\ \A i \in 1..Len(stack) : i = 1
  <2> HIDE DEF Frame
  <2>1. CASE stack = <<>>
    BY <2>1
  <2>2. CASE stack = <<Frame(Root)>>
    <3>1. Len(stack) = 1 /\ stack[1] = Frame(Root)
      BY <2>2
    <3>2. stack # <<>>
      BY <3>1
    <3>3. \A i \in 1..Len(stack) : i = 1
      BY <3>1
    <3> QED BY <3>1, <3>2, <3>3
  <2> QED BY <1>1, <2>1, <2>2
<1>5. TypeOK
  <2>1. stack \in Seq(Activations)
    <3>1. CASE stack = <<>>
      BY <3>1
    <3>2. CASE stack = <<Frame(Root)>>
      <4> DEFINE f == Frame(Root)
      <4>1. f \in Activations /\ stack = <<f>>
        BY <1>2, <3>2
      <4> HIDE DEF f
      <4> QED BY <4>1
    <3> QED BY <1>1, <3>1, <3>2
  <2>2. processed \subseteq Tables
    BY <1>1, RootAssumption
  <2> QED BY <1>1, <1>3, <2>1, <2>2 DEF TypeOK, Activations
<1>6. Frames
  BY <1>1, <1>2, <1>4 DEF Frames
<1>7. Once /\ ListedOnce /\ NestedUnderParent
  BY <1>3 DEF Once, ListedOnce, NestedUnderParent
<1>8. Opened
  <2>1. 2..Len(stack) = {}
    BY <1>4
  <2> QED BY <2>1 DEF Opened
<1>9. Reached
  BY <1>1, <1>2, <1>3, <1>4, ReferrersAreClosed DEF Reached
<1>10. Marked
  BY <1>1 DEF Marked
<1>11. RootsLoop
  BY <1>1, <1>2, <1>4 DEF RootsLoop
<1>12. Covered
  <2>1. ASSUME NEW t \in processed, NEW r \in refBy[t] PROVE Waits(t, r)
    <3>1. t = Root /\ 1 \in 1..Len(stack) /\ stack[1] = Frame(Root)
      BY <1>1, <1>4, <2>1
    <3> QED BY <1>2, <2>1, <3>1 DEF Waits
  <2>2. \A t \in Listed \cup {Root} : refBy[t] = {} \/ t \in processed
    BY <1>1, <1>3
  <2> QED BY <2>1, <2>2 DEF Covered
<1> QED BY <1>5, <1>6, <1>7, <1>8, <1>9, <1>10, <1>11, <1>12 DEF IInv

LEMMA StutterStep ==
  ASSUME IInv, UNCHANGED vars
  PROVE  IInv'
<1>1. /\ refBy' = refBy /\ known' = known /\ stack' = stack /\ processed' = processed
      /\ listed' = listed /\ result' = result /\ Referrers' = Referrers /\ Listed' = Listed
  BY ReferrersStay DEF vars, graph, Listed
<1>2. TypeOK' /\ Frames' /\ Once' /\ ListedOnce'
  BY <1>1 DEF IInv, TypeOK, Frames, Once, ListedOnce
<1>3. Opened' /\ NestedUnderParent'
  BY <1>1 DEF IInv, Opened, Opens, NestedUnderParent
<1>4. Reached' /\ Marked' /\ RootsLoop'
  BY <1>1 DEF IInv, Reached, Marked, RootsLoop
<1>5. Covered'
  BY <1>1 DEF IInv, Covered, Waits
<1> QED BY <1>2, <1>3, <1>4, <1>5 DEF IInv

LEMMA IInvIsInductive == IInv /\ [Next]_vars => IInv'
<1> SUFFICES ASSUME IInv, [Next]_vars PROVE IInv'
  OBVIOUS
<1>1. CASE Leave
  BY <1>1, LeaveStep
<1>2. CASE Done \/ UNCHANGED vars
  BY <1>2, StutterStep DEF Done
<1>3. ASSUME NEW r \in Tables, Skip(r) PROVE IInv'
  BY <1>3, SkipStep
<1>4. ASSUME NEW r \in Tables, ListUnknown(r) PROVE IInv'
  BY <1>4, ListUnknownStep
<1>5. ASSUME NEW r \in Tables, ListLeaf(r) PROVE IInv'
  BY <1>5, ListLeafStep
<1>6. ASSUME NEW r \in Tables, Descend(r) PROVE IInv'
  BY <1>6, DescendStep
<1> QED BY <1>1, <1>2, <1>3, <1>4, <1>5, <1>6 DEF Next, Walk

\* With no activation left nothing waits: what is listed, and Root, hold all their referrers.
LEMMA IInvCompletes == IInv => TreeIsComplete
<1> SUFFICES ASSUME IInv PROVE TreeIsComplete
  OBVIOUS
<1>1. ASSUME result = "listed", Referrers \subseteq known PROVE Referrers \subseteq Listed \cup {Root}
  <2>1. stack = <<>>
    BY <1>1 DEF IInv, Frames
  <2>2. \A t, r : ~Waits(t, r)
    BY <2>1 DEF Waits
  <2>3. \A t \in Listed \cup {Root} : refBy[t] \subseteq Listed \cup {Root}
    BY <1>1, <2>2 DEF IInv, Covered
  <2>4. Listed \cup {Root} \subseteq Tables
    BY ReferrersAreClosed, RootAssumption DEF IInv, Reached, TypeOK
  <2>5. Closed(Listed \cup {Root})
    BY <2>3 DEF Closed
  <2> QED BY <2>4, <2>5, ReferrersAreClosed DEF IInv, TypeOK
<1>2. result # "walking" => (result = "failed" <=> ~(refBy[Root] \subseteq known))
  BY DEF IInv, RootsLoop, TypeOK
<1>3. Listed \subseteq Referrers
  BY DEF IInv, Reached
<1> QED BY <1>1, <1>2, <1>3 DEF TreeIsComplete

-----------------------------------------------------------------------------
\* walkReferencedBy keeps its state well typed and the invariant of this module on every
\* graph of references, circles included.
THEOREM WalkInvariance == Spec => [](TypeOK /\ IInv)
<1>1. IInv => TypeOK
  BY DEF IInv
<1> QED BY <1>1, InitIInv, IInvIsInductive, PTL DEF Spec, Safety

\* walker.processed sees to it that no reference is written twice.
THEOREM NothingIsListedTwice == Spec => []ListedOnce
BY WalkInvariance, PTL DEF IInv

\* walkReferencedBy writes of referrers only and, with all tables known, of all of them; it
\* returns an error exactly when a direct referrer of the table is unknown.
THEOREM TheTreeIsComplete == Spec => []TreeIsComplete
BY WalkInvariance, IInvCompletes, PTL

\* Its lines are nested as the references are: each is under the line of its parent.
THEOREM LinesAreNested == Spec => []NestedUnderParent
BY WalkInvariance, PTL DEF IInv

-----------------------------------------------------------------------------
\* Why the walk ends: what it has still to do

\* The entries that some loop is still to come to, and the activations still to return:
\* those of the stack and those that may yet begin.
EntriesAhead ==
  {e \in Tables \X Tables :
     e[2] \in refBy[e[1]] /\ (e[1] \notin processed \/ Waits(e[1], e[2]))}
Active(t) == \E i \in 1..Len(stack) : stack[i].table = t
ReturnsAhead == {t \in Tables : t \notin processed \/ Active(t)}
StepsAhead == Cardinality(EntriesAhead) + Cardinality(ReturnsAhead)

\* Every step but the stutter at the end leaves less to do.
StepsRunOut == [][StepsAhead' < StepsAhead]_vars

\* The guards of Leave and of the four ways to deal with an entry.
CanLeave == Level > 0 /\ Top.todo = {}
CanTake(r) ==
  /\ Takes(r)
  /\ \/ Skips(r)
     \/ ~Skips(r) /\ r \notin known
     \/ ~Skips(r) /\ r \in known /\ (r = Top.table \/ refBy[r] = {})
     \/ ~Skips(r) /\ r \in known /\ r # Top.table /\ refBy[r] # {}
NeverStuck == result = "walking" => CanLeave \/ \E r \in Tables : CanTake(r)

LEMMA ProperPart ==
  ASSUME NEW S, IsFiniteSet(S), NEW T, T \subseteq S
  PROVE  /\ IsFiniteSet(T)
         /\ Cardinality(T) \in Nat /\ Cardinality(S) \in Nat
         /\ Cardinality(T) <= Cardinality(S)
         /\ T # S => Cardinality(T) < Cardinality(S)
<1>1. /\ IsFiniteSet(T) /\ Cardinality(T) <= Cardinality(S)
      /\ Cardinality(S) = Cardinality(T) => S = T
  BY FS_Subset
<1>2. Cardinality(T) \in Nat /\ Cardinality(S) \in Nat
  BY <1>1, FS_CardinalityType
<1> QED BY <1>1, <1>2

LEMMA AheadIsFinite ==
  IsFiniteSet(EntriesAhead) /\ IsFiniteSet(ReturnsAhead) /\ StepsAhead \in Nat
<1>1. IsFiniteSet(Tables \X Tables)
  BY TablesAssumption, FS_Product
<1>2. EntriesAhead \subseteq Tables \X Tables /\ ReturnsAhead \subseteq Tables
  BY DEF EntriesAhead, ReturnsAhead
<1>3. IsFiniteSet(EntriesAhead) /\ IsFiniteSet(ReturnsAhead)
  BY <1>1, <1>2, TablesAssumption, FS_Subset
<1>4. Cardinality(EntriesAhead) \in Nat /\ Cardinality(ReturnsAhead) \in Nat
  BY <1>3, FS_CardinalityType
<1> QED BY <1>3, <1>4 DEF StepsAhead

\* Both sets shrink, and one of them for good: there is less to do.
LEMMA LessAhead ==
  ASSUME EntriesAhead' \subseteq EntriesAhead, ReturnsAhead' \subseteq ReturnsAhead,
         EntriesAhead' # EntriesAhead \/ ReturnsAhead' # ReturnsAhead
  PROVE  StepsAhead' < StepsAhead
<1>1. /\ Cardinality(EntriesAhead') \in Nat /\ Cardinality(EntriesAhead) \in Nat
      /\ Cardinality(EntriesAhead') <= Cardinality(EntriesAhead)
      /\ EntriesAhead' # EntriesAhead => Cardinality(EntriesAhead') < Cardinality(EntriesAhead)
  BY AheadIsFinite, ProperPart
<1>2. /\ Cardinality(ReturnsAhead') \in Nat /\ Cardinality(ReturnsAhead) \in Nat
      /\ Cardinality(ReturnsAhead') <= Cardinality(ReturnsAhead)
      /\ ReturnsAhead' # ReturnsAhead => Cardinality(ReturnsAhead') < Cardinality(ReturnsAhead)
  BY AheadIsFinite, ProperPart
<1>3. StepsAhead' = Cardinality(EntriesAhead') + Cardinality(ReturnsAhead')
  BY DEF StepsAhead
<1> QED BY <1>1, <1>2, <1>3 DEF StepsAhead

\* No step that only shrinks activations adds to what is ahead.
LEMMA ShrinkAhead ==
  ASSUME IInv, Shrinks, refBy' = refBy
  PROVE  EntriesAhead' \subseteq EntriesAhead /\ ReturnsAhead' \subseteq ReturnsAhead
<1>1. \A i \in 1..Len(stack') : i \in 1..Len(stack)
  <2>1. Len(stack') \in Nat /\ Len(stack) \in Nat /\ Len(stack') <= Len(stack)
    BY DEF Shrinks, Level, IInv, TypeOK
  <2> QED BY <2>1
<1>2. ASSUME NEW t, NEW r, Waits(t, r)' PROVE Waits(t, r)
  BY <1>1, <1>2 DEF Waits, Shrinks
<1>3. ASSUME NEW t, Active(t)' PROVE Active(t)
  BY <1>1, <1>3 DEF Active, Shrinks
<1>4. EntriesAhead' \subseteq EntriesAhead
  BY <1>2 DEF EntriesAhead, Shrinks
<1>5. ReturnsAhead' \subseteq ReturnsAhead
  BY <1>3 DEF ReturnsAhead, Shrinks
<1> QED BY <1>4, <1>5

\* The entry that the loop has come to was ahead and is no longer.
LEMMA TakenEntry ==
  ASSUME IInv, NEW r, Takes(r),
         Top.table \in processed', Level \in 1..Len(stack'),
         \A i \in 1..Len(stack') : stack'[i].table = Top.table => i = Level,
         r \notin stack'[Level].todo
  PROVE  EntriesAhead' # EntriesAhead
<1>1. /\ Level \in 1..Len(stack) /\ Top = stack[Level] /\ Top.table \in Tables
      /\ r \in Tables /\ Top.table \in processed
  BY TopFacts, RestFacts DEF IInv, Takes, Frames
<1> DEFINE e == <<Top.table, r>>
<1>2. e \in Tables \X Tables /\ e[1] = Top.table /\ e[2] = r
  BY <1>1
<1>3. Waits(Top.table, r) /\ r \in refBy[Top.table]
  BY <1>1 DEF Waits, Takes, IInv, Frames
<1>4. e \in EntriesAhead
  BY <1>2, <1>3 DEF EntriesAhead
<1>5. e \notin EntriesAhead'
  <2> SUFFICES ASSUME e \in EntriesAhead' PROVE FALSE
    OBVIOUS
  <2>1. \E i \in 1..Len(stack') : stack'[i].table = Top.table /\ r \in stack'[i].todo
    BY <1>2 DEF EntriesAhead, Waits
  <2> QED BY <2>1
<1> QED BY <1>4, <1>5

\* The activation that returns was ahead and is no longer.
LEMMA ReturnAhead ==
  ASSUME IInv, Level > 0, stack' = Pop, processed' = processed, refBy' = refBy
  PROVE  StepsAhead' < StepsAhead
<1>1. /\ Level \in Nat /\ Level = Len(stack) /\ Level \in 1..Len(stack) /\ Top = stack[Level]
      /\ Top.table \in Tables /\ Top.table \in processed
  BY TopFacts DEF IInv, Level, Frames
<1>2. /\ stack' \in Seq(Activations) /\ Len(stack') = Level - 1
      /\ \A i \in 1..(Level - 1) : stack'[i] = stack[i]
  BY PopFacts DEF IInv
<1>3. Shrinks
  BY <1>1, <1>2 DEF Shrinks
<1>4. EntriesAhead' \subseteq EntriesAhead /\ ReturnsAhead' \subseteq ReturnsAhead
  BY <1>3, ShrinkAhead
<1>5. Top.table \in ReturnsAhead
  BY <1>1 DEF ReturnsAhead, Active
<1>6. Top.table \notin ReturnsAhead'
  <2> SUFFICES ASSUME Top.table \in ReturnsAhead' PROVE FALSE
    OBVIOUS
  <2>1. \E i \in 1..Len(stack') : stack'[i].table = Top.table
    BY <1>1 DEF ReturnsAhead, Active
  <2>2. PICK i \in 1..(Level - 1) : stack'[i].table = Top.table
    BY <1>2, <2>1
  <2>3. i \in 1..Len(stack) /\ stack[i].table = stack[Level].table /\ i # Level
    BY <1>1, <1>2, <2>2
  <2> QED BY <1>1, <2>3 DEF IInv, Frames
<1> QED BY <1>4, <1>5, <1>6, LessAhead

\* The loop goes on without an activation of its own for the entry.
LEMMA GoOnAhead ==
  ASSUME IInv, NEW r, Takes(r), stack' = Rest(r), processed' = processed, refBy' = refBy
  PROVE  StepsAhead' < StepsAhead
<1>1. /\ Level \in Nat /\ Level = Len(stack) /\ Level \in 1..Len(stack) /\ Top = stack[Level]
      /\ Top.table \in processed
  BY TopFacts DEF IInv, Level, Frames, Takes
<1>2. /\ Len(stack') = Level
      /\ \A i \in 1..Level : stack'[i].table = stack[i].table
  BY RestFacts DEF IInv
<1>3. Shrinks /\ r \notin stack'[Level].todo
  BY <1>1, <1>2, RestShrinks
<1>4. \A i \in 1..Len(stack') : stack'[i].table = Top.table => i = Level
  BY <1>1, <1>2 DEF IInv, Frames
<1>5. EntriesAhead' # EntriesAhead
  BY <1>1, <1>2, <1>3, <1>4, TakenEntry
<1> QED BY <1>3, <1>5, ShrinkAhead, LessAhead

\* The entries of a table whose activation begins are ahead as they were.
LEMMA DescendAhead ==
  ASSUME IInv, NEW r, Grows(r), refBy' = refBy
  PROVE  StepsAhead' < StepsAhead
<1>1. /\ Level \in Nat /\ Level = Len(stack) /\ Level \in 1..Len(stack) /\ Top = stack[Level]
      /\ Top.table \in processed /\ Takes(r) /\ r \notin processed /\ r \in Tables
      /\ processed' = processed \cup {r}
  BY TopFacts, RestFacts DEF IInv, Level, Frames, Takes, Grows
<1>2. /\ Len(stack') = Level + 1
      /\ \A i \in 1..Level :
           /\ stack'[i].table = stack[i].table
           /\ stack'[i].todo = IF i = Level THEN stack[i].todo \ {r} ELSE stack[i].todo
      /\ stack'[Level + 1].table = r /\ stack'[Level + 1].todo = refBy[r]
  BY GrownFacts DEF IInv
<1>3. \A i \in 1..Len(stack') : i = Level + 1 \/ i \in 1..Level
  BY <1>1, <1>2
<1>4. \A i \in 1..Level : stack'[i].todo \subseteq stack[i].todo
  <2> SUFFICES ASSUME NEW i \in 1..Level PROVE stack'[i].todo \subseteq stack[i].todo
    OBVIOUS
  <2>1. stack'[i].todo = stack[i].todo \ {r} \/ stack'[i].todo = stack[i].todo
    BY <1>2
  <2> QED BY <2>1
<1>5. ASSUME NEW t, NEW q, Waits(t, q)' PROVE t = r \/ Waits(t, q)
  <2>1. PICK i \in 1..Len(stack') : stack'[i].table = t /\ q \in stack'[i].todo
    BY <1>5 DEF Waits
  <2>2. CASE i = Level + 1
    BY <1>2, <2>1, <2>2
  <2>3. CASE i \in 1..Level
    BY <1>1, <1>2, <1>4, <2>1, <2>3 DEF Waits
  <2> QED BY <1>3, <2>2, <2>3
<1>6. ASSUME NEW t, Active(t)' PROVE t = r \/ Active(t)
  BY <1>1, <1>2, <1>3, <1>6 DEF Active
<1>7. EntriesAhead' \subseteq EntriesAhead
  BY <1>1, <1>5 DEF EntriesAhead
<1>8. ReturnsAhead' \subseteq ReturnsAhead
  BY <1>1, <1>6 DEF ReturnsAhead
<1>9. EntriesAhead' # EntriesAhead
  <2>1. Level \in 1..Len(stack')
    BY <1>1, <1>2
  <2>2. r \notin stack'[Level].todo
    <3>1. stack'[Level].todo = stack[Level].todo \ {r}
      BY <1>1, <1>2
    <3> QED BY <3>1
  <2>3. \A i \in 1..Len(stack') : stack'[i].table = Top.table => i = Level
    BY <1>1, <1>2, <1>3 DEF IInv, Frames
  <2>4. Top.table \in processed'
    BY <1>1
  <2> QED BY <1>1, <2>1, <2>2, <2>3, <2>4, TakenEntry
<1> QED BY <1>7, <1>8, <1>9, LessAhead

LEMMA StepIsAhead == IInv /\ [Next]_vars => [StepsAhead' < StepsAhead]_vars
<1> SUFFICES ASSUME IInv, Next, vars' # vars PROVE StepsAhead' < StepsAhead
  OBVIOUS
<1>1. CASE Leave
  BY <1>1, ReturnAhead DEF Leave, graph
<1>2. ASSUME NEW r \in Tables, Skip(r) PROVE StepsAhead' < StepsAhead
  BY <1>2, GoOnAhead DEF Skip, graph
<1>3. ASSUME NEW r \in Tables, ListUnknown(r) PROVE StepsAhead' < StepsAhead
  BY <1>3, ReturnAhead DEF ListUnknown, Takes, graph
<1>4. ASSUME NEW r \in Tables, ListLeaf(r) PROVE StepsAhead' < StepsAhead
  BY <1>4, GoOnAhead DEF ListLeaf, graph
<1>5. ASSUME NEW r \in Tables, Descend(r) PROVE StepsAhead' < StepsAhead
  BY <1>5, DescendAhead DEF Descend, Skips, Grows, graph
<1> QED BY <1>1, <1>2, <1>3, <1>4, <1>5 DEF Next, Walk, Done

LEMMA IInvGoesOn == IInv => NeverStuck
<1> SUFFICES ASSUME IInv, result = "walking" PROVE CanLeave \/ \E r \in Tables : CanTake(r)
  BY DEF NeverStuck
<1>1. Level > 0
  BY DEF IInv, Frames, Level, TypeOK
<1>2. Top.todo \subseteq Tables
  BY <1>1, TopFacts DEF IInv
<1> QED BY <1>1, <1>2 DEF CanLeave, CanTake, Takes

\* walkReferencedBy cannot go round for ever, on any graph: every step of it, whatever the
\* order of the lists, leaves fewer entries and returns ahead, of which there are finitely
\* many; and as long as it walks there is a step that it can take.
THEOREM WalkRunsOut == Spec => [](StepsAhead \in Nat /\ NeverStuck) /\ StepsRunOut
<1>1. [](StepsAhead \in Nat)
  BY AheadIsFinite, PTL
<1> QED BY <1>1, WalkInvariance, IInvGoesOn, StepIsAhead, PTL DEF Spec, Safety, StepsRunOut
=============================================================================
