SPECIFICATION Spec
CONSTANTS
  Phones = {p1}
  Tokens = {t1, t2}
  Questions = {choice, essay}
  TextQuestions = {essay}
  Values = {a, b}
  Null = Null
  MaxRequests = 2
SYMMETRY Symmetry
INVARIANTS TypeOK FlushSavesAll ReloadKeepsScreen
PROPERTY ServerIsSheet
