-------------------------- MODULE VfsAccessProofs --------------------------
(***************************************************************************)
(* Proofs about VfsAccess, for any contexts, users, roles and permission   *)
(* sets.                                                                   *)
(***************************************************************************)
EXTENDS VfsAccess, TLAPS

(* The forms a call takes. *)
Calls ==
       [at: {"idle"},
        result: {"none", "Ok", "PermissionDenied", NoTarget} \cup Targets]
  \cup [at: {"chmod_write"}, permissions: PermissionSets]
  \cup [at: {"chown_write"}, uid: Uids]

(* What a call is about to write is known from where it is. *)
LEMMA CallForms ==
  ASSUME NEW r \in Calls
  PROVE  /\ r.at \in {"idle", "chmod_write", "chown_write"}
         /\ r.at = "chmod_write" => r.permissions \in PermissionSets
         /\ r.at = "chown_write" => r.uid \in Uids
BY DEF Calls

(* A step moves one call; the others stay where they are. *)
LEMMA GotoMoves ==
  ASSUME TypeOK, NEW c \in Contexts, NEW r, Goto(c, r)
  PROVE  /\ call'[c] = r
         /\ \A d \in Contexts \ {c} : call'[d] = call[d]
         /\ r \in Calls => call' \in [Contexts -> Calls]
BY DEF TypeOK, Goto, Calls

(* A refused call changes nothing but its own answer. *)
LEMMA DeniedKeeps ==
  ASSUME TypeOK, NEW c \in Contexts, Denied(c)
  PROVE  /\ TypeOK'
         /\ UNCHANGED <<kind, permissions, owner, target>>
         /\ \A d \in Contexts : Idle(d) => Idle(d)'
         /\ \A d \in Contexts : ~Idle(d) => call'[d] = call[d]
<1> DEFINE r == [at |-> "idle", result |-> "PermissionDenied"]
<1>1. /\ Goto(c, r) /\ Idle(c)
      /\ UNCHANGED <<kind, permissions, owner, target, handle>>
  BY DEF Denied, Return
<1>2. r \in Calls /\ r.at = "idle"
  BY DEF Calls
<1> HIDE DEF r
<1>3. /\ call'[c] = r
      /\ \A d \in Contexts \ {c} : call'[d] = call[d]
      /\ call' \in [Contexts -> Calls]
  BY <1>1, <1>2, GotoMoves
<1>4. TypeOK'
  BY <1>1, <1>3 DEF TypeOK, Calls
<1>5. QED
  BY <1>1, <1>2, <1>3, <1>4 DEF Idle

(* An open changes nothing but the caller's handle. *)
LEMMA OpenKeeps ==
  ASSUME TypeOK, NEW c \in Contexts, NEW flags \in FlagSets,
         ObjectOpen(c, flags)
  PROVE  /\ TypeOK'
         /\ UNCHANGED <<kind, permissions, owner, target>>
         /\ \A d \in Contexts : Idle(d) => Idle(d)'
         /\ \A d \in Contexts : ~Idle(d) => call'[d] = call[d]
<1> DEFINE r == [at |-> "idle", result |-> "Ok"]
<1>1. /\ Goto(c, r) /\ Idle(c) /\ UNCHANGED <<kind, permissions, owner, target>>
      /\ handle' = [handle EXCEPT ![c] = [open |-> TRUE, flags |-> flags]]
  BY DEF ObjectOpen, Return
<1>2. r \in Calls /\ r.at = "idle"
  BY DEF Calls
<1>3. handle' \in [Contexts -> {NoHandle} \cup
                                  [open: {TRUE}, flags: SUBSET OpenFlag]]
  BY <1>1, ContextsAssumption DEF TypeOK
<1> HIDE DEF r
<1>4. /\ call'[c] = r
      /\ \A d \in Contexts \ {c} : call'[d] = call[d]
      /\ call' \in [Contexts -> Calls]
  BY <1>1, <1>2, GotoMoves
<1>5. TypeOK'
  BY <1>1, <1>3, <1>4 DEF TypeOK, Calls
<1>6. QED
  BY <1>1, <1>2, <1>4, <1>5 DEF Idle

(* A call on a symlink handle changes at most the target. *)
LEMMA TargetKeeps ==
  ASSUME TypeOK, NEW c \in Contexts,
         ReadTarget(c) \/ \E t \in Targets : SetTarget(c, t)
  PROVE  /\ TypeOK'
         /\ UNCHANGED <<kind, permissions, owner, handle>>
         /\ \A d \in Contexts : Idle(d) => Idle(d)'
         /\ \A d \in Contexts : ~Idle(d) => call'[d] = call[d]
<1>1. PICK r \in Calls : /\ Goto(c, r)
                         /\ r.at = "idle"
                         /\ Idle(c)
                         /\ UNCHANGED <<kind, permissions, owner, handle>>
                         /\ target' \in Targets \cup {NoTarget}
  <2>1. CASE ReadTarget(c)
    <3>1. \A r \in Targets \cup {NoTarget, "PermissionDenied"} :
            [at |-> "idle", result |-> r] \in Calls
      BY DEF Calls
    <3>2. QED
      BY <2>1, <3>1 DEF ReadTarget, UsesSymlink, Return, TypeOK
  <2>2. CASE \E t \in Targets : SetTarget(c, t)
    <3>1. \A r \in {"Ok", "PermissionDenied"} :
            [at |-> "idle", result |-> r] \in Calls
      BY DEF Calls
    <3>2. QED
      BY <2>2, <3>1 DEF SetTarget, UsesSymlink, Return, TypeOK
  <2>3. QED
    BY <2>1, <2>2
<1>2. /\ call'[c] = r
      /\ \A d \in Contexts \ {c} : call'[d] = call[d]
      /\ call' \in [Contexts -> Calls]
  BY <1>1, GotoMoves
<1>3. TypeOK'
  BY <1>1, <1>2 DEF TypeOK, Calls
<1>4. QED
  BY <1>1, <1>2, <1>3 DEF Idle

(* A call that passes the test of chmod or chown has the right, and has     *)
(* changed nothing yet.                                                    *)
LEMMA CheckKeeps ==
  ASSUME TypeOK, NEW c \in Contexts,
         \/ \E p \in PermissionSets : ChmodCheck(c, p)
         \/ \E uid \in Uids : ChownCheck(c, uid)
  PROVE  /\ TypeOK'
         /\ UNCHANGED <<kind, permissions, owner, target, handle>>
         /\ MayAdminister(c, permissions)
         /\ \A d \in Contexts \ {c} : call'[d] = call[d]
         /\ Idle(c)
<1>1. PICK r \in Calls : /\ Goto(c, r)
                         /\ Idle(c)
                         /\ UNCHANGED <<kind, permissions, owner, target, handle>>
                         /\ MayAdminister(c, permissions)
  <2>1. CASE \E p \in PermissionSets : ChmodCheck(c, p)
    <3>1. PICK p \in PermissionSets : ChmodCheck(c, p)
      BY <2>1
    <3>2. [at |-> "chmod_write", permissions |-> p] \in Calls
      BY DEF Calls
    <3>3. QED
      BY <3>1, <3>2 DEF ChmodCheck
  <2>2. CASE \E uid \in Uids : ChownCheck(c, uid)
    <3>1. PICK uid \in Uids : ChownCheck(c, uid)
      BY <2>2
    <3>2. [at |-> "chown_write", uid |-> uid] \in Calls
      BY DEF Calls
    <3>3. QED
      BY <3>1, <3>2 DEF ChownCheck
  <2>3. QED
    BY <2>1, <2>2
<1>2. /\ \A d \in Contexts \ {c} : call'[d] = call[d]
      /\ call' \in [Contexts -> Calls]
  BY <1>1, GotoMoves
<1>3. TypeOK'
  BY <1>1, <1>2 DEF TypeOK, Calls
<1>4. QED
  BY <1>1, <1>2, <1>3

(* The write of a chmod or chown ends the call. *)
LEMMA WriteKeeps ==
  ASSUME TypeOK, NEW c \in Contexts, ChmodWrite(c) \/ ChownWrite(c)
  PROVE  /\ TypeOK'
         /\ UNCHANGED <<kind, target, handle>>
         /\ ~Idle(c)
         /\ Idle(c)'
         /\ \A d \in Contexts \ {c} : call'[d] = call[d]
<1> DEFINE r == [at |-> "idle", result |-> "Ok"]
<1>1. /\ Goto(c, r) /\ UNCHANGED <<kind, target, handle>>
      /\ call[c].at \in {"chmod_write", "chown_write"}
  BY DEF ChmodWrite, ChownWrite, Return, At
<1>2. r \in Calls /\ r.at = "idle"
  BY DEF Calls
<1>3. permissions' \in PermissionSets /\ owner' \in Uids
  <2>1. call[c] \in Calls
    BY DEF TypeOK, Calls
  <2>2. QED
    BY <2>1, CallForms DEF ChmodWrite, ChownWrite, At, TypeOK
<1> HIDE DEF r
<1>4. /\ call'[c] = r
      /\ \A d \in Contexts \ {c} : call'[d] = call[d]
      /\ call' \in [Contexts -> Calls]
  BY <1>1, <1>2, GotoMoves
<1>5. TypeOK'
  BY <1>1, <1>3, <1>4 DEF TypeOK, Calls
<1>6. QED
  BY <1>1, <1>2, <1>4, <1>5 DEF Idle

(* A step of a context is one of six. *)
LEMMA StepCases ==
  ASSUME NEW c \in Contexts, Begin(c) \/ ChmodWrite(c) \/ ChownWrite(c)
  PROVE  \/ \E flags \in FlagSets : ObjectOpen(c, flags)
         \/ Denied(c)
         \/ \/ \E p \in PermissionSets : ChmodCheck(c, p)
            \/ \E uid \in Uids : ChownCheck(c, uid)
         \/ ReadTarget(c) \/ \E t \in Targets : SetTarget(c, t)
         \/ ChmodWrite(c) \/ ChownWrite(c)
BY DEF Begin, Open, OpenDenied, AdministerDenied

LEMMA StepTypes ==
  ASSUME TypeOK, NEW c \in Contexts, Begin(c) \/ ChmodWrite(c) \/ ChownWrite(c)
  PROVE  TypeOK'
BY StepCases, OpenKeeps, DeniedKeeps, CheckKeeps, WriteKeeps, TargetKeeps

LEMMA InitTypes == Init => TypeOK
BY ContextsAssumption DEF Init, TypeOK, IsPermissionSet

-----------------------------------------------------------------------------

(* TypeOK holds in every interleaving: a handle has flags open knows, and   *)
(* what a call is about to write is a permission set or a user.            *)
THEOREM AccessTypeCorrect == Spec => []TypeOK
<1>1. TypeOK /\ [Next]_vars => TypeOK'
  <2> SUFFICES ASSUME TypeOK, [Next]_vars PROVE TypeOK'
    OBVIOUS
  <2>1. CASE Next
    BY <2>1, StepTypes DEF Next
  <2>2. CASE UNCHANGED vars
    BY <2>2 DEF vars, TypeOK
  <2>3. QED
    BY <2>1, <2>2
<1>2. QED
  BY <1>1, InitTypes, PTL DEF Spec

(* The permission test answers exactly what the sets of rights say,        *)
(* whatever the roles of the context and their order: for several rights   *)
(* whether one of them is there, for none whether the context has all.     *)
THEOREM TestIsExact == Spec => []TestExact
<1>1. TestExact
  <2> SUFFICES ASSUME NEW c \in Contexts, NEW asked \in SUBSET Permission
               PROVE  CheckPermission(c, permissions, asked) <=>
                        \/ asked \cap Effective(c, permissions) # {}
                        \/ Privileged(c) \/ Uid[c] = permissions.uid
    BY DEF TestExact
  <2>1. CASE Privileged(c) \/ Uid[c] = permissions.uid
    BY <2>1 DEF CheckPermission
  <2>2. CASE ~(Privileged(c) \/ Uid[c] = permissions.uid)
    <3>1. asked \cap Effective(c, permissions) # {} <=>
            \/ Has(permissions.default_rights, asked)
            \/ \E g \in RoleRights(c, permissions) : Has(g, asked)
      BY <2>2 DEF Effective, Has
    <3>2. QED
      BY <2>2, <3>1 DEF CheckPermission
  <2>3. QED
    BY <2>1, <2>2
<1>2. QED
  BY <1>1, PTL

(* Whoever can change the object got the right from somebody who could,    *)
(* however calls overlap; and a right taken away between the test and the  *)
(* write of a call is good for that write and no other.                    *)
THEOREM RightsAreHandedOn == Spec => RightsHandedOn
<1>1. TypeOK /\ [Next]_vars => [HandedOn]_vars
  <2> SUFFICES ASSUME TypeOK, Next PROVE HandedOn
    OBVIOUS
  <2>1. PICK c \in Contexts : Begin(c) \/ ChmodWrite(c) \/ ChownWrite(c)
    BY DEF Next
  <2>2. CASE \/ \E flags \in FlagSets : ObjectOpen(c, flags)
             \/ Denied(c)
             \/ ReadTarget(c) \/ \E t \in Targets : SetTarget(c, t)
    <3>1. /\ UNCHANGED <<permissions, owner>>
          /\ \A d \in Contexts : Idle(d) => Idle(d)'
      BY <2>2, OpenKeeps, DeniedKeeps, TargetKeeps
    <3>2. Able' \subseteq Able
      BY <3>1 DEF Able, MayAdminister
    <3>3. QED
      BY <3>1, <3>2 DEF HandedOn
  <2>3. CASE \/ \E p \in PermissionSets : ChmodCheck(c, p)
             \/ \E uid \in Uids : ChownCheck(c, uid)
    <3>1. /\ UNCHANGED <<permissions, owner>>
          /\ MayAdminister(c, permissions)
          /\ \A d \in Contexts \ {c} : call'[d] = call[d]
      BY <2>3, CheckKeeps
    <3>2. Able' \subseteq Able
      BY <3>1 DEF Able, MayAdminister, Idle
    <3>3. QED
      BY <3>1, <3>2 DEF HandedOn
  <2>4. CASE ChmodWrite(c) \/ ChownWrite(c)
    <3>1. /\ ~Idle(c) /\ Idle(c)' /\ call'[c] # call[c]
          /\ \A d \in Contexts \ {c} : call'[d] = call[d]
      BY <2>4, WriteKeeps DEF Idle
    <3>2. c \in Able /\ (c \in Able' => MayAdminister(c, permissions'))
      BY <3>1 DEF Able, MayAdminister
    <3>3. ASSUME NEW d \in Able', d \notin Able
          PROVE  At(c, "chmod_write") /\ MayAdminister(d, call[c].permissions)
      <4>1. d \in Contexts /\ d # c /\ Idle(d)'
        BY <3>1, <3>2, <3>3 DEF Able, Idle
      <4>2. MayAdminister(d, permissions') /\ ~MayAdminister(d, permissions)
        BY <3>3, <4>1 DEF Able, MayAdminister
      <4>3. permissions' # permissions
        BY <4>2
      <4>4. ChmodWrite(c)
        BY <2>4, <4>3 DEF ChownWrite
      <4>5. QED
        BY <4>2, <4>4 DEF ChmodWrite
    <3>4. QED
      BY <3>1, <3>2, <3>3 DEF HandedOn
  <2>5. QED
    BY <2>1, <2>2, <2>3, <2>4, StepCases
<1>2. QED
  BY <1>1, AccessTypeCorrect, PTL DEF Spec, RightsHandedOn

-----------------------------------------------------------------------------

(* Contexts of a group that may not administer the object at any moment,   *)
(* and steps that change it only as calls of contexts outside the group.   *)
Powerless(G) == \A c \in G : ~MayAdminister(c, permissions)
Resting(G) == \A c \in G : Idle(c)
ByOthers(G) ==
  <<permissions, owner>>' # <<permissions, owner>> =>
    \E c \in Contexts \ G : ~Idle(c) /\ call'[c] # call[c]

(* The steps of a context without the right: none of them is a test of     *)
(* chmod or chown passed.                                                  *)
LEMMA PowerlessStay ==
  ASSUME TypeOK, NEW G \in SUBSET Contexts, Powerless(G),
         Resting(G), [Next]_vars
  PROVE  /\ Resting(G)'
         /\ [ByOthers(G)]_vars
<1>1. CASE UNCHANGED vars
  BY <1>1 DEF vars, Resting, Idle
<1>2. CASE Next
  <2>1. PICK c \in Contexts : Begin(c) \/ ChmodWrite(c) \/ ChownWrite(c)
    BY <1>2 DEF Next
  <2>2. CASE \/ \E flags \in FlagSets : ObjectOpen(c, flags)
             \/ Denied(c)
             \/ ReadTarget(c) \/ \E t \in Targets : SetTarget(c, t)
    BY <2>2, OpenKeeps, DeniedKeeps, TargetKeeps DEF Resting, ByOthers
  <2>3. CASE \/ \E p \in PermissionSets : ChmodCheck(c, p)
             \/ \E uid \in Uids : ChownCheck(c, uid)
    <3>1. c \notin G
      BY <2>3, CheckKeeps DEF Powerless
    <3>2. QED
      BY <2>3, <3>1, CheckKeeps DEF Resting, ByOthers, Idle
  <2>4. CASE ChmodWrite(c) \/ ChownWrite(c)
    <3>1. /\ ~Idle(c) /\ Idle(c)'
          /\ \A d \in Contexts \ {c} : call'[d] = call[d]
      BY <2>4, WriteKeeps
    <3>2. c \notin G /\ call'[c] # call[c]
      BY <3>1 DEF Resting, Idle
    <3>3. QED
      BY <3>1, <3>2 DEF Resting, ByOthers, Idle
  <2>5. QED
    BY <2>1, <2>2, <2>3, <2>4, StepCases
<1>3. QED
  BY <1>1, <1>2

(* However calls overlap, contexts that never have the right to administer *)
(* an object have no part in what becomes of its permissions and owner:    *)
(* between the test of another's chmod and its write they can do nothing   *)
(* that a right of theirs would be needed for.                             *)
THEOREM OutsidersChangeNothing ==
  ASSUME NEW G \in SUBSET Contexts
  PROVE  Spec /\ []Powerless(G) => [][ByOthers(G)]_vars
<1>1. Init => Resting(G)
  <2>1. ASSUME Init, NEW c \in G PROVE call[c].at = "idle"
    BY <2>1 DEF Init
  <2>2. QED
    BY <2>1 DEF Resting, Idle
<1>2. TypeOK /\ Powerless(G) /\ Resting(G) /\ [Next]_vars =>
        Resting(G)' /\ [ByOthers(G)]_vars
  BY PowerlessStay
<1>3. QED
  BY <1>1, <1>2, AccessTypeCorrect, PTL DEF Spec

-----------------------------------------------------------------------------

(* While calls do not overlap, the right tested is the right at the write. *)
THEOREM SerialInvariance == SerialSpec => []SerialInductive
<1>1. Init => SerialInductive
  BY InitTypes DEF Init, SerialInductive, Idle
<1>2. SerialInductive /\ [SerialNext]_vars => SerialInductive'
  <2> SUFFICES ASSUME SerialInductive, [SerialNext]_vars
               PROVE  SerialInductive'
    OBVIOUS
  <2> USE DEF SerialInductive
  <2>1. CASE UNCHANGED vars
    BY <2>1 DEF vars, TypeOK, Idle, Alone, MayAdminister
  <2>2. CASE SerialNext
    <3>1. PICK c \in Contexts :
            Alone(c) /\ (Begin(c) \/ ChmodWrite(c) \/ ChownWrite(c))
      BY <2>2 DEF SerialNext
    <3>2. TypeOK'
      BY <3>1, StepTypes
    <3>3. \A d \in Contexts \ {c} : Idle(d)'
      <4>1. \A d \in Contexts \ {c} : Idle(d)
        BY <3>1 DEF Alone
      <4>2. CASE \/ \E flags \in FlagSets : ObjectOpen(c, flags)
                 \/ Denied(c)
                 \/ ReadTarget(c) \/ \E t \in Targets : SetTarget(c, t)
        BY <4>1, <4>2, OpenKeeps, DeniedKeeps, TargetKeeps
      <4>3. CASE ~(\/ \E flags \in FlagSets : ObjectOpen(c, flags)
                   \/ Denied(c)
                   \/ ReadTarget(c) \/ \E t \in Targets : SetTarget(c, t))
        <5>1. \A d \in Contexts \ {c} : call'[d] = call[d]
          BY <3>1, <4>3, StepCases, CheckKeeps, WriteKeeps
        <5>2. QED
          BY <4>1, <5>1 DEF Idle
      <4>4. QED
        BY <4>2, <4>3
    <3>4. Idle(c)' \/ MayAdminister(c, permissions)'
      <4>1. CASE \/ \E flags \in FlagSets : ObjectOpen(c, flags)
                 \/ Denied(c)
                 \/ ReadTarget(c) \/ \E t \in Targets : SetTarget(c, t)
        <5>1. Idle(c)
          BY <4>1 DEF ObjectOpen, Denied, ReadTarget, SetTarget, UsesSymlink
        <5>2. QED
          BY <4>1, <5>1, OpenKeeps, DeniedKeeps, TargetKeeps
      <4>2. CASE \/ \E p \in PermissionSets : ChmodCheck(c, p)
                 \/ \E uid \in Uids : ChownCheck(c, uid)
        BY <4>2, CheckKeeps DEF MayAdminister
      <4>3. CASE ChmodWrite(c) \/ ChownWrite(c)
        BY <4>3, WriteKeeps
      <4>4. QED
        BY <3>1, <4>1, <4>2, <4>3, StepCases
    <3>5. QED
      BY <3>2, <3>3, <3>4 DEF Alone
  <2>3. QED
    BY <2>1, <2>2
<1>3. QED
  BY <1>1, <1>2, PTL DEF SerialSpec

(* While calls do not overlap, every chmod and chown that takes effect is   *)
(* one by a context with the right to it at that moment.                   *)
THEOREM ChangesAreByRight == SerialSpec => ChangesByRight
<1>1. SerialInductive /\ [SerialNext]_vars => [ByRight]_vars
  <2> SUFFICES ASSUME SerialInductive, SerialNext,
                      <<permissions, owner>>' # <<permissions, owner>>
               PROVE  \E c \in Contexts :
                        call'[c] # call[c] /\ MayAdminister(c, permissions)
    BY DEF ByRight
  <2>1. PICK c \in Contexts : Begin(c) \/ ChmodWrite(c) \/ ChownWrite(c)
    BY DEF SerialNext
  <2>2. TypeOK
    BY DEF SerialInductive
  <2>3. ChmodWrite(c) \/ ChownWrite(c)
    BY <2>1, <2>2, StepCases, OpenKeeps, DeniedKeeps, CheckKeeps, TargetKeeps
  <2>4. ~Idle(c) /\ Idle(c)'
    BY <2>2, <2>3, WriteKeeps
  <2>5. call'[c] # call[c] /\ MayAdminister(c, permissions)
    BY <2>4 DEF SerialInductive, Idle
  <2>6. QED
    BY <2>5
<1>2. QED
  BY <1>1, SerialInvariance, PTL DEF SerialSpec, ChangesByRight

=============================================================================
