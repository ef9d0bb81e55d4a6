---------------------------- MODULE MCVfsAccess ----------------------------
(***************************************************************************)
(* An instance of VfsAccess: two users, one of whom has two roles.         *)
(***************************************************************************)
EXTENDS VfsAccess, TLC

CONSTANTS alice, bob

UidOf(c) == IF c = alice THEN 1 ELSE 2
UsersUid == [c \in Contexts |-> UidOf(c)]
UsersRid == [c \in Contexts |-> IF c = bob THEN {1, 2} ELSE {}]

Given(u, rights, default) ==
  [uid |-> u, role_rights |-> rights, default_rights |-> default]

(* Owned by a user, shared by a role, open to all, closed to all but root. *)
SomePermissionSets ==
  {Given(1, 1 :> {"RULESET"} @@ 2 :> {"READ"}, {}),
   Given(2, 1 :> {"READ"}, {"EXECUTE"}),
   Given(3, 1 :> {"WRITE"}, {"READ"}),
   Given(3, 0 :> Permission, {})}

SomeFlags == {{}, {"READ"}, {"WRITE", "APPEND"}}
=============================================================================
