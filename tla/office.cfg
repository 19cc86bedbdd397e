SPECIFICATION MCSpec
CONSTANTS
  Null = Null
  Clerks = {c1, c2}
  Ids <- MCIds
  Starts <- MCStarts
  Spans <- MCSpans
  Slots <- MCSlots
  Statuses = {"DRAFT", "READY", "ACTIVE", "CANCELLED"}
  Targets <- MCTargets
  ClassNames = {"A", "B"}
  SubjectCodes = {"M", "P"}
  Numbers = {"1", "2"}
  TeacherCodes = {"T", "U"}
  Contents = {"a", "b"}
  WibOffset = 1
  Grace = 1
  CodeLife = 0
  Day = 1
  Horizon = 3
  Scenes = {"years", "enrol", "lessons", "students", "teachers"}
SYMMETRY Symmetry
CHECK_DEADLOCK FALSE
INVARIANTS TypeOK OnePeriod EnrolledOnce TaughtIsAssigned
PROPERTIES HistoryStays TraceKeepsAccount
