----------------------------- MODULE QueryTable -----------------------------
(***************************************************************************)
(* What the queries store amounts to for whoever loads queries from it:    *)
(* under each place (a folder and an ID) there is no query, a query, or a  *)
(* file that cannot be read because a save has opened it and not filled it *)
(* yet, or never will.  A query comes into being unreadable, and is read   *)
(* only as one of the queries that were to be stored there.                *)
(*                                                                         *)
(* Places, Queries and the three markers are given by the store.           *)
(***************************************************************************)
CONSTANTS Places, Queries, NoQuery, Unreadable

VARIABLE table

TableInit == table = [place \in Places |-> NoQuery]

\* A save opens the file: whatever was there is gone.
Open(place) == table' = [table EXCEPT ![place] = Unreadable]

\* It fills what it has opened, unless that has been removed since.
Fill(place) ==
  /\ table[place] # NoQuery
  /\ \E query \in Queries : table' = [table EXCEPT ![place] = query]

Forget(place) ==
  /\ table[place] # NoQuery
  /\ table' = [table EXCEPT ![place] = NoQuery]

TableNext == \E place \in Places : Open(place) \/ Fill(place) \/ Forget(place)
TableSpec == TableInit /\ [][TableNext]_table
=============================================================================
