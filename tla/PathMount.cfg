CONSTANTS
  admin = admin
  user = user
  Contexts = {admin}
  PrivilegedContexts = {admin}
  ObsNames = {"ramobs"}
  Names = {"a", "b"}
  Paths <- SomePaths
  MountPaths <- PlainMounts
  Grants <- SomeGrants
  MaxObjects = 3
SPECIFICATION Spec
PROPERTIES
  MountsAreEntered
