SPECIFICATION Spec
CONSTANTS
  Essays = {"essay1", "essay2"}
  Objective = {}
  Blank = {"essay2"}
  MaxScore = 1
  Scores = {1}
  Messages <- OneMessage
  Workers = {w1}
  Teachers = {T1}
  Jobs = {j1}
  Regrades = {r1}
  Submitters = {"student", "late", "sweep"}
  Faults = {"llm", "crash"}
  MayReopen = TRUE
  Null = Null
INVARIANTS TypeOK FinalizedIsTeachers
