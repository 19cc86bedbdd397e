SPECIFICATION Spec
CONSTANTS
  Devices = {d1, d2}
  Tokens = {t1, t2, t3}
  Questions = {q1}
  Values = {v1}
  Null = Null
  Start = 1
  End = 2
  Duration = 1
  HasEssay = TRUE
  ExtraTimes = {1}
  Commands <- AllCommands
  MaxTime = 3
  MaxBroadcasts = 1
SYMMETRY Symmetry
INVARIANTS TypeOK OneActiveDevice OneClock
PROPERTY OnePen
