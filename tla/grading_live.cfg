SPECIFICATION FairSpec
CONSTANTS
  Essays = {"essay1", "essay2"}
  Objective = {"pg1"}
  Blank = {}
  MaxScore = 2
  Scores = {1, 2}
  Messages <- NoMessage
  Workers = {}
  Teachers = {T1, T2}
  Jobs = {j1}
  Regrades = {}
  Submitters = {"student"}
  Faults = {}
  MayReopen = FALSE
  Null = Null
PROPERTIES FinalizationAnswered GradingCompletes
