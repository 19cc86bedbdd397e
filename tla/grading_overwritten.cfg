SPECIFICATION Spec
CONSTANTS
  Essays = {"essay1", "essay2"}
  Objective = {}
  Blank = {}
  MaxScore = 2
  Scores = {1, 2}
  Messages <- NoMessage
  Workers = {}
  Teachers = {T1}
  Jobs = {j1}
  Regrades = {}
  Submitters = {"student"}
  Faults = {}
  MayReopen = FALSE
  Null = Null
PROPERTY FinalizedIsLocked
