SPECIFICATION ServerSpec
CONSTANTS
  Devices = {d1, d2}
  Tokens = {t1, t2}
  Questions = {q1}
  Values = {v1}
  Null = Null
  Start = 1
  End = 3
  Duration = 1
  HasEssay = TRUE
  ExtraTimes = {1}
  Commands <- LockCommands
  MaxTime = 4
  MaxBroadcasts = 1
PROPERTIES AnswersFrozenUponSubmit ReturningIsHandedIn
