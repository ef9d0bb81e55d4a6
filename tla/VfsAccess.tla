----------------------------- MODULE VfsAccess -----------------------------
(***************************************************************************)
(* Who may do what with one object of the VFS: the permission test, open,  *)
(* chmod and chown of VFS, called by several contexts at once.  chmod and  *)
(* chown test the caller's right under the read lock of the metadata and   *)
(* write under the write lock, so each is two steps; open reads the        *)
(* permissions once, so it is one, and so is a call on the handle of a     *)
(* symlink, whose target is the one thing a handle changes here.  Handles  *)
(* also come from Object::open, which tests nothing: lookup gives objects  *)
(* out, and so do create and the handles themselves.                       *)
(***************************************************************************)
EXTENDS Naturals

CONSTANTS
  Contexts,        \* the PermissionContexts in use
  Uid, Rid,        \* the uid and the set of role ids of each context
  Uids, Roles,     \* the user ids and role ids that occur
  PermissionSets,  \* the permission sets objects are given
  FlagSets,        \* the flags open is called with
  Targets          \* what symlinks are made to point to

Permission == {"READ", "WRITE", "EXECUTE", "DELETE", "RENAME", "RULESET",
               "LOCK", "APPEND"}

OpenFlag == {"READ", "WRITE", "APPEND", "TRUNCATE", "CREATE", "EXCL",
             "NONBLOCK", "SYNC"}

ObjectKind == {"File", "Directory", "Symlink", "Device"}

(* A permission set: its uid, rights of some roles, rights of everybody.    *)
IsPermissionSet(p) ==
  /\ DOMAIN p = {"uid", "role_rights", "default_rights"}
  /\ p.uid \in Uids
  /\ DOMAIN p.role_rights \subseteq Roles
  /\ \A r \in DOMAIN p.role_rights : p.role_rights[r] \subseteq Permission
  /\ p.default_rights \subseteq Permission

ASSUME ContextsAssumption ==
  /\ Uid \in [Contexts -> Uids]
  /\ Rid \in [Contexts -> SUBSET Roles]
  /\ \A p \in PermissionSets : IsPermissionSet(p)
  /\ FlagSets \subseteq SUBSET OpenFlag

NoHandle == [open |-> FALSE]

(* A new symlink points to the empty string. *)
NoTarget == "empty"

VARIABLES
  kind,         \* Metadata.kind
  permissions,  \* MetadataInner.permissions
  owner,        \* MetadataInner.uid
  target,       \* RamobsSymlinkObject.target, kept for any kind of object
  handle,       \* the handle each context has opened on the object
  call          \* where each context is in the call it makes

vars == <<kind, permissions, owner, target, handle, call>>

Idle(c) == call[c].at = "idle"
At(c, l) == call[c].at = l
Goto(c, r) == call' = [call EXCEPT ![c] = r]
Return(c, r) == Goto(c, [at |-> "idle", result |-> r])

-----------------------------------------------------------------------------

(* Permission::has: some right of the wanted ones is there. *)
Has(p, right) == p \cap right # {}

Privileged(c) == Uid[c] = 0 \/ 0 \in Rid[c]

(* What the roles of a context are given, one set for each role named. *)
RoleRights(c, p) == {p.role_rights[r] : r \in Rid[c] \cap DOMAIN p.role_rights}

RolesHideDefault(c, p, needed) ==
  \/ Privileged(c)
  \/ Uid[c] = p.uid
  \/ \E g \in RoleRights(c, p) : Has(g, needed)
  \/ RoleRights(c, p) = {} /\ Has(p.default_rights, needed)

CheckPermission(c, p, needed) ==
  \/ Privileged(c)
  \/ Uid[c] = p.uid
  \/ \E g \in RoleRights(c, p) : Has(g, needed)
  \/ Has(p.default_rights, needed)

(* The test of chmod and chown. *)
MayAdminister(c, p) ==
  \/ Privileged(c)
  \/ Uid[c] = p.uid
  \/ \E g \in RoleRights(c, p) : Has(g, {"RULESET"})

(* The rights open asks for. *)
Needed(flags) ==
       {r \in {"READ"} : "READ" \in flags}
  \cup {r \in {"WRITE"} : Has(flags, {"WRITE", "APPEND"})}
  \cup {r \in {"EXECUTE"} : kind = "Directory"}

Opens(c, flags) ==
  /\ kind = "Symlink" => ~Has(flags, {"WRITE", "APPEND", "TRUNCATE"})
  /\ CheckPermission(c, permissions, Needed(flags))

-----------------------------------------------------------------------------

(* create_inode gives the object its permissions and makes their uid the   *)
(* owner.                                                                  *)
Init ==
  /\ kind \in ObjectKind
  /\ permissions \in PermissionSets
  /\ owner = permissions.uid
  /\ target = NoTarget
  /\ handle = [c \in Contexts |-> NoHandle]
  /\ call = [c \in Contexts |-> [at |-> "idle", result |-> "none"]]

(* Object::open: any flags, no test. *)
ObjectOpen(c, flags) ==
  /\ Idle(c)
  /\ handle' = [handle EXCEPT ![c] = [open |-> TRUE, flags |-> flags]]
  /\ Return(c, "Ok")
  /\ UNCHANGED <<kind, permissions, owner, target>>

(* The open of the VFS ends in that of the object.                         *)
Open(c, flags) == Opens(c, flags) /\ ObjectOpen(c, flags)

(* An error: nothing but the answer changes. *)
Denied(c) ==
  /\ Idle(c)
  /\ Return(c, "PermissionDenied")
  /\ UNCHANGED <<kind, permissions, owner, target, handle>>

OpenDenied(c, flags) == ~Opens(c, flags) /\ Denied(c)

ChmodAnyone(c, p) ==
  /\ Idle(c)
  /\ Goto(c, [at |-> "chmod_write", permissions |-> p])
  /\ UNCHANGED <<kind, permissions, owner, target, handle>>

ChmodCheck(c, p) ==
  /\ Idle(c)
  /\ MayAdminister(c, permissions)
  /\ Goto(c, [at |-> "chmod_write", permissions |-> p])
  /\ UNCHANGED <<kind, permissions, owner, target, handle>>

ChmodWrite(c) ==
  /\ At(c, "chmod_write")
  /\ permissions' = call[c].permissions
  /\ Return(c, "Ok")
  /\ UNCHANGED <<kind, owner, target, handle>>

ChownCheck(c, uid) ==
  /\ Idle(c)
  /\ MayAdminister(c, permissions)
  /\ Goto(c, [at |-> "chown_write", uid |-> uid])
  /\ UNCHANGED <<kind, permissions, owner, target, handle>>

ChownWrite(c) ==
  /\ At(c, "chown_write")
  /\ owner' = call[c].uid
  /\ Return(c, "Ok")
  /\ UNCHANGED <<kind, permissions, target, handle>>

(* chmod and chown refuse alike. *)
AdministerDenied(c) == ~MayAdminister(c, permissions) /\ Denied(c)

(* A handle is used with the flags it was opened with, whatever the        *)
(* permissions have become since; only a symlink gives a symlink handle.   *)
UsesSymlink(c) == Idle(c) /\ kind = "Symlink" /\ handle[c].open
Holds(c, flag) == flag \in handle[c].flags

ReadTarget(c) ==
  /\ UsesSymlink(c)
  /\ Return(c, IF Holds(c, "READ") THEN target ELSE "PermissionDenied")
  /\ UNCHANGED <<kind, permissions, owner, target, handle>>

SetTarget(c, t) ==
  /\ UsesSymlink(c)
  /\ target' = IF Holds(c, "WRITE") THEN t ELSE target
  /\ Return(c, IF Holds(c, "WRITE") THEN "Ok" ELSE "PermissionDenied")
  /\ UNCHANGED <<kind, permissions, owner, handle>>

Begin(c) ==
  \/ \E flags \in FlagSets :
       Open(c, flags) \/ OpenDenied(c, flags) \/ ObjectOpen(c, flags)
  \/ \E p \in PermissionSets : ChmodCheck(c, p)
  \/ \E uid \in Uids : ChownCheck(c, uid)
  \/ AdministerDenied(c)
  \/ ReadTarget(c)
  \/ \E t \in Targets : SetTarget(c, t)

Next == \E c \in Contexts : Begin(c) \/ ChmodWrite(c) \/ ChownWrite(c)

Spec == Init /\ [][Next]_vars

(* The kernel as it runs today: its one thread ends a call before it makes *)
(* the next one, on behalf of any context.                                 *)
Alone(c) == \A d \in Contexts \ {c} : Idle(d)
SerialNext ==
  \E c \in Contexts : Alone(c) /\ (Begin(c) \/ ChmodWrite(c) \/ ChownWrite(c))
SerialSpec == Init /\ [][SerialNext]_vars

-----------------------------------------------------------------------------

(* Every variable has its declared range. *)
TypeOK ==
  /\ kind \in ObjectKind
  /\ permissions \in PermissionSets
  /\ owner \in Uids
  /\ target \in Targets \cup {NoTarget}
  /\ handle \in [Contexts -> {NoHandle} \cup
                             [open: {TRUE}, flags: SUBSET OpenFlag]]
  /\ call \in [Contexts ->
                    [at: {"idle"},
                     result: {"none", "Ok", "PermissionDenied", NoTarget}
                             \cup Targets]
               \cup [at: {"chmod_write"}, permissions: PermissionSets]
               \cup [at: {"chown_write"}, uid: Uids]]

(* The rights a context has on an object: all of them for a privileged     *)
(* context and for the uid of the permission set, otherwise what any of    *)
(* its roles has and what everybody has.                                   *)
Effective(c, p) ==
  IF Privileged(c) \/ Uid[c] = p.uid
  THEN Permission
  ELSE p.default_rights \cup UNION RoleRights(c, p)

(* Asked for some rights, the test of the VFS says whether the context has *)
(* one of them, and never mind the others: rights of several roles and of  *)
(* everybody add up, none hides another.  Asked for none, as open does for *)
(* a file without flags, it lets in only those who have every right.       *)
TestExact ==
  \A c \in Contexts :
    LET all == Privileged(c) \/ Uid[c] = permissions.uid
        rights == Effective(c, permissions)
    IN  \A asked \in SUBSET Permission :
          CheckPermission(c, permissions, asked) <=>
            asked \cap rights # {} \/ all

(* The contexts that can still change the permissions or the owner: those  *)
(* with the right, and those in a chmod or chown that tested it when they  *)
(* had it.                                                                 *)
Able == {c \in Contexts : ~Idle(c) \/ MayAdminister(c, permissions)}

(* The right is only handed on: who comes to be able was given it by the   *)
(* chmod of one who was.  And a right that was taken away is good for the  *)
(* one write it was tested for: who makes a change is able to make another *)
(* only if the permissions then say so.                                    *)
HandedOn ==
  /\ \A c \in Able' \ Able : \E d \in Able :
       /\ At(d, "chmod_write") /\ Idle(d)'
       /\ MayAdminister(c, call[d].permissions)
  /\ <<permissions, owner>>' # <<permissions, owner>> =>
       \E d \in Able :
         /\ ~Idle(d) /\ call'[d] # call[d]
         /\ d \in Able' => MayAdminister(d, permissions')
RightsHandedOn == [][HandedOn]_vars

(* While calls do not overlap, at most one is under way, and the caller of *)
(* a chmod or chown that passed its test still has the right.              *)
SerialInductive ==
  /\ TypeOK
  /\ \A c \in Contexts : ~Idle(c) => Alone(c) /\ MayAdminister(c, permissions)

(* While calls do not overlap, permissions and owner change only by a      *)
(* context that has the right at that moment, not just when it was tested. *)
ByRight ==
  <<permissions, owner>>' # <<permissions, owner>> =>
    \E c \in Contexts :
      call'[c] # call[c] /\ MayAdminister(c, permissions)
ChangesByRight == [][ByRight]_vars

-----------------------------------------------------------------------------
(* What a comment of the code says, and the code does not do.               *)

(* Who is made the owner, "uid: u16, // Владелец" of the metadata, may do  *)
(* everything: "Если владелец - разрешаем всё".  chown writes one uid, the *)
(* tests read another.                                                     *)
ChownHandsOver ==
  [][owner' # owner =>
       \A c \in Contexts, r \in Permission :
         Uid[c] = owner' => CheckPermission(c, permissions', {r})]_vars

=============================================================================
