CONSTANTS
  Tasks = {t}
  c1 = c1
  c2 = c2
  c3 = c3
  b1 = b1
  Devices = {c1, c2, c3, b1}
  DType <- KindOf
  Id <- IdOf
  MaxListed = 2
SPECIFICATION Spec
INVARIANTS
  TypeOK
  AnswersFit
  NotReadyIsTrue
PROPERTIES
  ImplementsQuery
