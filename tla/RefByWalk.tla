------------------------------ MODULE RefByWalk ------------------------------
(***************************************************************************)
(* pkg/datatug2md/table_to_readme.go: the tree of referring tables in the  *)
(* readme of a table.  refByWalker.walkReferencedBy calls itself, so its   *)
(* activations are a stack here; one call of the walker is one behaviour.  *)
(*                                                                         *)
(* A table's ReferencedBy list has one entry per referring table (the      *)
(* scanner's processConstraint sees to it); the order of the list is the   *)
(* order in which the walk happens to take the members of `todo`.          *)
(***************************************************************************)
EXTENDS Naturals, Sequences, FiniteSets

CONSTANTS Tables, Root        \* Root is the table whose readme is written
ASSUME RootAssumption == Root \in Tables
ASSUME TablesAssumption == IsFiniteSet(Tables)

VARIABLES
  refBy,        \* the referring tables of each table, never changed
  known,        \* the tables of the catalog (Catalogs.GetTable is not nil)
  stack,        \* activations of walkReferencedBy: the table and what is left of its loop
  processed,    \* walker.processed
  listed,       \* lines of the tree, in the order of the calls of walker.process
  result        \* "walking", then "none" (no tree), "listed" or "failed"

vars == <<refBy, known, stack, processed, listed, result>>
graph == <<refBy, known>>

Level == Len(stack)
Top == stack[Level]
Frame(t) == [table |-> t, todo |-> refBy[t]]
Lines == [parent : Tables, refBy : Tables, level : Nat \ {0}]

TypeOK ==
  /\ refBy \in [Tables -> SUBSET Tables]
  /\ known \subseteq Tables
  /\ stack \in Seq([table : Tables, todo : SUBSET Tables])
  /\ processed \subseteq Tables
  /\ listed \in Seq(Lines)
  /\ result \in {"walking", "none", "listed", "failed"}

\* The caller walks only when the table is referenced at all.
Init ==
  /\ refBy \in [Tables -> SUBSET Tables]
  /\ known \in SUBSET Tables
  /\ listed = <<>>
  /\ \/ /\ refBy[Root] = {}
        /\ stack = <<>> /\ processed = {} /\ result = "none"
     \/ /\ refBy[Root] # {}
        /\ stack = <<Frame(Root)>> /\ processed = {Root} /\ result = "walking"

\* Mutant: break where the loop should continue.
Breaks(r) == [stack EXCEPT ![Level].todo = {}]

\* The rest of the loop after the entry for r.
Rest(r) == [stack EXCEPT ![Level].todo = @ \ {r}]

\* The activation returns; its error, if any, is the caller's only at the top.
Pop == SubSeq(stack, 1, Level - 1)

Skips(r) == r \in processed /\ r # Top.table

Line(r) == [parent |-> Top.table, refBy |-> r, level |-> Level]

Takes(r) == Level > 0 /\ r \in Top.todo

\* Mutant: continue, without moving on.
SkipAgain(r) == Takes(r) /\ Skips(r) /\ UNCHANGED vars

Skip(r) ==
  /\ Takes(r) /\ Skips(r)
  /\ stack' = Rest(r)
  /\ UNCHANGED <<graph, processed, listed, result>>

\* The line is written, then GetTable finds nothing: the activation ends with an error.
ListUnknown(r) ==
  /\ Takes(r) /\ ~Skips(r) /\ r \notin known
  /\ listed' = Append(listed, Line(r))
  /\ stack' = Pop
  /\ result' = IF Level = 1 THEN "failed" ELSE result
  /\ UNCHANGED <<graph, processed>>

\* A reference of the table to itself, or a table that nothing refers to.
ListLeaf(r) ==
  /\ Takes(r) /\ ~Skips(r) /\ r \in known
  /\ r = Top.table \/ refBy[r] = {}
  /\ listed' = Append(listed, Line(r))
  /\ stack' = Rest(r)
  /\ UNCHANGED <<graph, processed, result>>

\* Mutant: the table is marked when its walk is over, not when it begins.
DescendUnmarked(r) ==
  /\ Takes(r) /\ ~Skips(r) /\ r \in known
  /\ r # Top.table /\ refBy[r] # {}
  /\ listed' = Append(listed, Line(r))
  /\ stack' = Append(Rest(r), Frame(r))
  /\ UNCHANGED <<graph, processed, result>>

\* Mutant: the walk goes on from the new table in the same activation.
DescendInPlace(r) ==
  /\ Takes(r) /\ ~Skips(r) /\ r \in known
  /\ r # Top.table /\ refBy[r] # {}
  /\ listed' = Append(listed, Line(r))
  /\ stack' = Append(Pop, Frame(r))
  /\ processed' = processed \cup {r}
  /\ UNCHANGED <<graph, result>>

Descend(r) ==
  /\ Takes(r) /\ ~Skips(r) /\ r \in known
  /\ r # Top.table /\ refBy[r] # {}
  /\ listed' = Append(listed, Line(r))
  /\ stack' = Append(Rest(r), Frame(r))
  /\ processed' = processed \cup {r}
  /\ UNCHANGED <<graph, result>>

\* The loop is over.
Leave ==
  /\ Level > 0 /\ Top.todo = {}
  /\ stack' = Pop
  /\ result' = IF Level = 1 THEN "listed" ELSE result
  /\ UNCHANGED <<graph, processed, listed>>

Done == result # "walking" /\ UNCHANGED vars

Walk == Leave \/ \E r \in Tables : Skip(r) \/ ListUnknown(r) \/ ListLeaf(r) \/ Descend(r)
Next == Walk \/ Done

Safety == Init /\ [][Next]_vars
\* Sequential code that blocks on nothing.
Spec == Safety /\ WF_vars(Walk)
-----------------------------------------------------------------------------
\* Every set that holds Root and, with a table, its referrers.
Closed(S) == Root \in S /\ \A t \in S : refBy[t] \subseteq S
Referrers == {t \in Tables : \A S \in SUBSET Tables : Closed(S) => t \in S}

Listed == {listed[i].refBy : i \in 1..Len(listed)}

\* No reference is written twice, however the references run in circles.
ListedOnce ==
  \A i, j \in 1..Len(listed) :
    listed[i].parent = listed[j].parent /\ listed[i].refBy = listed[j].refBy => i = j

\* Lines only ever tell of tables that refer to Root, if over other tables; a tree that
\* is written with all tables known tells of all of them.  An unknown table fails the
\* readme if it refers to Root directly, and nothing else does.
TreeIsComplete ==
  /\ Listed \subseteq Referrers
  /\ (result = "listed" /\ Referrers \subseteq known) => Referrers \subseteq Listed \cup {Root}
  /\ result # "walking" => (result = "failed" <=> ~(refBy[Root] \subseteq known))

\* Markdown nests a line under the last shorter one: that is the line of its parent.
NestedUnderParent ==
  \A i \in 1..Len(listed) :
    IF listed[i].level = 1 THEN listed[i].parent = Root
    ELSE \E j \in 1..(i - 1) :
           /\ listed[j].refBy = listed[i].parent /\ listed[j].level = listed[i].level - 1
           /\ \A k \in (j + 1)..(i - 1) : listed[k].level >= listed[i].level

\* The recursion ends on every graph of references.
WalkEnds == <>(result # "walking")
==============================================================================
