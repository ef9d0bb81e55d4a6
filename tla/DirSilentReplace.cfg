CONSTANTS
  Tasks = {t1, t2}
  Privileged = {}
  Names = {a, b}
  NewObjects <- DirectoryAndGuardedFile
  FlagSets <- ReadWriteOnly
  ChmodGrants = {}
  MaxInodes = 4
  WordMax = 10
SPECIFICATION Spec
PROPERTIES
  NoSilentReplace
