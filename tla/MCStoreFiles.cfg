SPECIFICATION Spec
CONSTANTS
  a = a
  b = b
  c = c
  main = main
  wt = wt
  MaxCommands = 3
  MaxRacing = 2
  Title = {a, b, c}
  Absent = Absent
  MaxId = 3
  Dir = {main, wt}
  Cwd = {main, wt}
  Search <- MCSearch
  Foreign <- MCForeign
  Old <- MCOld
  Proc = {p1, p2}
  MaxSecond = 1
  None = None
  Torn = Torn
  Gone = Gone
SYMMETRY Symmetry
INVARIANTS
  TypeOK
  StoresMakeSense
  StoredTasksAreFound
PROPERTY
  SearchIsStable
\* The commands are bounded: nobody runs another one in the end.
CHECK_DEADLOCK FALSE
