CONSTANTS
  Tasks = {t1, t2}
  Privileged = {}
  Names = {a, b}
  NewObjects <- DirectoryAndGuardedFile
  FlagSets <- ReadWriteOnly
  ChmodGrants = {}
  MaxInodes = 4
  WordMax = 10
SYMMETRY TaskSymmetry
SPECIFICATION Spec
INVARIANTS
  Inductive
  SingleLink
  ChildrenAreYounger
  EntriesDescribe
PROPERTIES
  NumbersNeverReused
  StrandedForGood
