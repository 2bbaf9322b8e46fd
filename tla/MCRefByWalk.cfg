SPECIFICATION Spec
CONSTANTS
  Tables = {root, a, b}
  Root = root
INVARIANT ListedOnce
INVARIANT TreeIsComplete
INVARIANT NestedUnderParent
PROPERTY WalkEnds
