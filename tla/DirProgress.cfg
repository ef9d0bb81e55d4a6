CONSTANTS
  Tasks = {t1, t2}
  Privileged = {t1}
  Names = {a, b}
  NewObjects <- OpenDirectories
  FlagSets <- ReadWriteOnly
  ChmodGrants <- AllOrNone
  MaxInodes = 3
  WordMax = 3
SPECIFICATION FairSpec
INVARIANTS
  Inductive
PROPERTIES
  CallsReturn
CHECK_DEADLOCK FALSE
