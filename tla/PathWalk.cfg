CONSTANTS
  admin = admin
  user = user
  Contexts = {admin, user}
  PrivilegedContexts = {admin}
  ObsNames = {"ramobs"}
  Names = {"a", "b"}
  Paths <- SomePaths
  MountPaths <- FoundMounts
  Grants <- SomeGrants
  MaxObjects = 3
SPECIFICATION Spec
INVARIANTS
  TreesInductive
  WalkStaysBelow
  RootsAreDirectories
  MountsApart
PROPERTIES
  RootsStay
  WalksKeepToPaths
