SPECIFICATION Spec
CONSTANTS
  Essays = {"essay1", "essay2"}
  Objective = {"pg1"}
  Blank = {}
  MaxScore = 2
  Scores = {1, 2}
  Messages <- TwoVersions
  Workers = {w1, w2}
  Teachers = {T1}
  Jobs = {}
  Regrades = {}
  Submitters = {"late"}
  Faults = {}
  MayReopen = FALSE
  Null = Null
INVARIANT FinalScoreAgrees
PROPERTIES NoOlderVersion FinalizedIsLocked
