SPECIFICATION MCSpec
CONSTANTS
  a1 = a1
  a2 = a2
  a3 = a3
  x = x
  y = y
  Null = Null
  Attempts = {a1, a2, a3}
  Students = {x, y}
  StudentOf <- MCStudentOf
  Essays = 2
  Runs = {r1, r2}
  Scores = {5, 7}
SYMMETRY Symmetry
CHECK_DEADLOCK FALSE
INVARIANTS TypeOK MemoryIsTeachers
PROPERTIES BatchKeepsFinalized CompletedIsGraded
