CONSTANTS
  Tasks = {t1, t2}
  Privileged = {}
  Names = {a, b}
  NewObjects <- DirectoryAndGuardedFile
  FlagSets <- ReadWriteOnly
  ChmodGrants <- AllOrNone
  MaxInodes = 3
  WordMax = 10
SYMMETRY TaskSymmetry
SPECIFICATION OrderlySpec
INVARIANTS
  NoDanglingEntry
  LookupSucceeds
PROPERTIES
  LostWithDirectory
  ImplementsTree
