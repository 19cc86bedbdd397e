SPECIFICATION Spec
CONSTANTS
  Devices = {d1, d2}
  Tokens = {t1, t2, t3}
  Questions = {q1}
  Values = {v1}
  Null = Null
  Start = 1
  End = 3
  Duration = 2
  HasEssay = TRUE
  ExtraTimes = {}
  Commands <- NoUnlock
  MaxTime = 4
  MaxBroadcasts = 0
SYMMETRY Symmetry
INVARIANT TimerArmed
PROPERTY NoTimeGained
