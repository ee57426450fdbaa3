SPECIFICATION Spec
CONSTANTS
  Promises = {p1, p2}
  Futures = {f1, f2, f3}
  Tasks = {t1, t2, t3}
  Results = {r1, r2, r3, r4}
  Null = Null
  ResultsLeftAlone = TRUE
SYMMETRY Symmetry
INVARIANTS
  PointersAgree
  TasksOwned
  ValuesKept
CHECK_DEADLOCK FALSE
