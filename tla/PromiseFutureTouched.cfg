SPECIFICATION Spec
CONSTANTS
  Promises = {p1}
  Futures = {f1, f2, f3}
  Tasks = {t1, t2}
  Results = {r1, r2}
  Null = Null
  ResultsLeftAlone = FALSE
INVARIANTS
  ReadyHasValue
CHECK_DEADLOCK FALSE
