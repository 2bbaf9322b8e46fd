SPECIFICATION Spec
CONSTANTS
  Projects = {a, b}
  Processes = {p1, p2, p3}
INVARIANT IdsUnique
INVARIANT KeptStay
INVARIANT FailuresAreExplained
SYMMETRY Symmetry
