---------------------------- MODULE MCProjectStore ---------------------------
(***************************************************************************)
(* Two callers, two calls: a save and then a load, or any two at once,     *)
(* over what earlier saves have left.  The projects share an entity and    *)
(* the file; the second has lost an environment and gained a board, the    *)
(* third has no Created and passes Validate, the fourth does not pass it.  *)
(***************************************************************************)
EXTENDS ProjectStore, TLC

CONSTANTS a, b

Project(valid, created, items) == [valid |-> valid, created |-> created, items |-> items]

MCProjects ==
  "first" :> Project(TRUE, TRUE, {<<"entities", a>>, <<"environments", a>>})
  @@ "second" :> Project(TRUE, TRUE, {<<"entities", a>>, <<"boards", b>>})
  @@ "uncreated" :> Project(TRUE, FALSE, {<<"entities", b>>})
  @@ "invalid" :> Project(FALSE, TRUE, {<<"boards", a>>})

Disk(found) == [place \in AllPlaces \cup {File} |-> IF place \in DOMAIN found THEN found[place] ELSE Absent]
Earlier == File :> Old @@ <<"entities", b>> :> Old @@ <<"environments", b>> :> Old

MCDisks ==
  {Disk(<<>>), Disk(<<"dbModels", a>> :> Old @@ <<"drivers", a>> :> Old @@ Earlier),
   Disk(<<"drivers", a>> :> Empty @@ Earlier)}
==============================================================================
