SPECIFICATION Spec
CONSTANTS
  Folders = {root, f}
  Root = root
  NoText = NoText
  Absent = Absent
  Empty = Empty
  Ids = {q}
  Texts = {a, b}
  Types = {sql}
  Clients = {c1, c2}
INVARIANTS
  SettledQueriesKept
  NoTextBeforeQuery
PROPERTIES
  EditedReadmeKept
  ImplementsTable
SYMMETRY Callers
