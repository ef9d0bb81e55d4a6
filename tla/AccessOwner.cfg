CONSTANTS
  alice = alice
  bob = bob
  Contexts = {alice, bob}
  Uid <- UsersUid
  Rid <- UsersRid
  Uids = {0, 1, 2, 3}
  Roles = {0, 1, 2}
  PermissionSets <- SomePermissionSets
  FlagSets <- SomeFlags
  Targets = {"link"}
SPECIFICATION SerialSpec
PROPERTIES
  ChownHandsOver
