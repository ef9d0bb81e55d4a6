------------------------------ MODULE Devices ------------------------------
(***************************************************************************)
(* Device handles and device managers.  A device object binds a device; to *)
(* get at it as a character, block or network device, a handle asks the    *)
(* global manager of that kind, which goes through its devices for the id  *)
(* of the bound one.                                                       *)
(*                                                                         *)
(* A step of a task is one critical section: the Once of a global, the     *)
(* lock of the handle's cell, the lock of one device.  Nothing in the      *)
(* kernel holds a device's lock for writing, and its id never changes, so  *)
(* the id of the bound device is read as the cell is.                      *)
(***************************************************************************)
EXTENDS Naturals, Sequences

CONSTANTS
  Tasks,
  Devices,
  DType,      \* the kind of each device: no driver implements two
  Id,         \* its major.minor: nothing keeps two devices from having one
  MaxListed   \* bound: devices of a manager

Kinds == {"Char", "Block", "Network"}
AnyKind == "Any"
NoDevice == "none"

ASSUME DevicesAssumption ==
  /\ DType \in [Devices -> Kinds]
  /\ NoDevice \notin Devices
  /\ MaxListed \in Nat

VARIABLES
  listed,  \* devices, of each of the managers
  shared,  \* whether finalize_setup has put the managers into their Arcs
  ready,   \* the Once cells of globals.rs that are set
  device,  \* RamobsDeviceObject.device, shared by the handles on it
  call,    \* where each task is in the call it makes
  since    \* for the properties: what device has been since the call began,
           \* and which cells were set and which device was bound then

vars == <<listed, shared, ready, device, call, since>>

NotReady == [is |-> "NotReady"]
Denied == [is |-> "PermissionDenied"]
Ok(d) == [is |-> "Ok", device |-> d]

At(t, l) == call[t].at = l
Goto(t, r) == call' = [call EXCEPT ![t] = r]
Return(t, a) ==
  call' = [call EXCEPT ![t] = [at |-> "idle", kind |-> call[t].kind, answer |-> a]]

Init ==
  /\ listed = [k \in Kinds |-> <<>>]
  /\ shared = FALSE
  /\ ready = {}
  /\ device = NoDevice
  /\ call = [t \in Tasks |-> [at |-> "idle", kind |-> AnyKind, answer |-> NotReady]]
  /\ since = [t \in Tasks |-> [held |-> {}, ready |-> {}, first |-> NoDevice]]

(* A device that lands with the character devices, whatever it is. *)
RegisterAsChar(d) ==
  /\ ~shared
  /\ Len(listed["Char"]) < MaxListed
  /\ listed' = [listed EXCEPT !["Char"] = Append(@, d)]
  /\ UNCHANGED <<shared, ready, device, call, since>>

(* register needs the manager to itself, which nobody has once it is       *)
(* shared.                                                                 *)
Register(d) ==
  /\ ~shared
  /\ Len(listed[DType[d]]) < MaxListed
  /\ listed' = [listed EXCEPT ![DType[d]] = Append(@, d)]
  /\ UNCHANGED <<shared, ready, device, call, since>>

FinalizeSetup ==
  /\ ~shared
  /\ shared' = TRUE
  /\ UNCHANGED <<listed, ready, device, call, since>>

(* The managers init_globals makes global before the one of a kind. *)
Before == [Char |-> {}, Block |-> {"Char"}, Network |-> {"Char", "Block"}]

InitGlobal(k) ==
  /\ shared
  /\ k \notin ready
  /\ Before[k] \subseteq ready
  /\ ready' = ready \cup {k}
  /\ UNCHANGED <<listed, shared, device, call, since>>

(* A binding in two steps: the old device goes before the new one comes. *)
SetDeviceInTwo(d) ==
  /\ device' = IF device = NoDevice THEN d ELSE NoDevice
  /\ since' = [t \in Tasks |->
                 IF At(t, "idle") THEN since[t]
                 ELSE [since[t] EXCEPT !.held = @ \cup {device'}]]
  /\ UNCHANGED <<listed, shared, ready, call>>

(* set_device tests no flag of the handle, and another device may be bound. *)
SetDevice(d) ==
  /\ device' = d
  /\ since' = [t \in Tasks |->
                 IF At(t, "idle") THEN since[t]
                 ELSE [since[t] EXCEPT !.held = @ \cup {d}]]
  /\ UNCHANGED <<listed, shared, ready, call>>

(* as_char_device, as_block_device, as_network_device; as_device. *)
Begin(t, k) ==
  /\ At(t, "idle")
  /\ Goto(t, [at |-> IF k = AnyKind THEN "cell" ELSE "global", kind |-> k])
  /\ since' = [since EXCEPT ![t] = [held |-> {device}, ready |-> ready,
                                    first |-> device]]
  /\ UNCHANGED <<listed, shared, ready, device>>

AskGlobal(t) ==
  /\ At(t, "global")
  /\ IF call[t].kind \in ready
     THEN Goto(t, [at |-> "cell", kind |-> call[t].kind])
     ELSE Return(t, NotReady)
  /\ UNCHANGED <<listed, shared, ready, device, since>>

ReadCell(t) ==
  /\ At(t, "cell")
  /\ \/ device = NoDevice /\ Return(t, NotReady)
     \/ device # NoDevice /\ call[t].kind = AnyKind /\ Return(t, Ok(device))
     \/ /\ device # NoDevice
        /\ call[t].kind # AnyKind
        /\ Goto(t, [at |-> "find", kind |-> call[t].kind,
                    id |-> Id[device], next |-> 1])
  /\ UNCHANGED <<listed, shared, ready, device, since>>

(* A search for the id of whatever is bound by now, and one that looks for  *)
(* any device of the kind.                                                 *)
FindCurrent(t) ==
  LET c == call[t]
      devices == listed[c.kind]
  IN  /\ At(t, "find")
      /\ \/ c.next > Len(devices) /\ Return(t, Denied)
         \/ /\ c.next <= Len(devices)
            /\ Id[devices[c.next]] = Id[device]
            /\ Return(t, Ok(devices[c.next]))
         \/ /\ c.next <= Len(devices)
            /\ Id[devices[c.next]] # Id[device]
            /\ Goto(t, [c EXCEPT !.next = @ + 1])
      /\ UNCHANGED <<listed, shared, ready, device, since>>
FindKind(t) ==
  LET c == call[t]
      devices == listed[c.kind]
  IN  /\ At(t, "find")
      /\ \/ c.next > Len(devices) /\ Return(t, Denied)
         \/ c.next <= Len(devices) /\ Return(t, Ok(devices[c.next]))
      /\ UNCHANGED <<listed, shared, ready, device, since>>

(* get_by_id: one device after the other. *)
Find(t) ==
  LET c == call[t]
      devices == listed[c.kind]
  IN  /\ At(t, "find")
      /\ \/ c.next > Len(devices) /\ Return(t, Denied)
         \/ /\ c.next <= Len(devices)
            /\ Id[devices[c.next]] = c.id
            /\ Return(t, Ok(devices[c.next]))
         \/ /\ c.next <= Len(devices)
            /\ Id[devices[c.next]] # c.id
            /\ Goto(t, [c EXCEPT !.next = @ + 1])
      /\ UNCHANGED <<listed, shared, ready, device, since>>

Next ==
  \/ \E d \in Devices : Register(d) \/ SetDevice(d)
  \/ FinalizeSetup
  \/ \E k \in Kinds : InitGlobal(k)
  \/ \E t \in Tasks :
       \/ \E k \in Kinds \cup {AnyKind} : Begin(t, k)
       \/ AskGlobal(t) \/ ReadCell(t) \/ Find(t)

Spec == Init /\ [][Next]_vars

-----------------------------------------------------------------------------

Answer == {NotReady, Denied} \cup {Ok(d) : d \in Devices}
Ids == {Id[d] : d \in Devices}
Asking == Kinds \cup {AnyKind}
Call ==
  [at: {"idle"}, kind: Asking, answer: Answer]
    \cup [at: {"global"}, kind: Kinds] \cup [at: {"cell"}, kind: Asking]
    \cup [at: {"find"}, kind: Kinds, id: Ids, next: Nat \ {0}]
Begun == [held: SUBSET (Devices \cup {NoDevice}), ready: SUBSET Kinds,
          first: Devices \cup {NoDevice}]

(* Every variable has its declared range, and each manager lists devices   *)
(* of its own kind.                                                        *)
TypeOK ==
  /\ listed \in [Kinds -> Seq(Devices)]
  /\ \A k \in Kinds : \A i \in DOMAIN listed[k] : DType[listed[k][i]] = k
  /\ shared \in BOOLEAN
  /\ ready \subseteq Kinds
  /\ device \in Devices \cup {NoDevice}
  /\ call \in [Tasks -> Call]
  /\ since \in [Tasks -> Begun]

(* A call that got a device got one of the kind it asked for, and one that *)
(* has the id of a device bound while it ran.  The handle looks for the    *)
(* device by its id alone, so only where two devices have one id can it be *)
(* another than the one bound.                                             *)
AnswersFit ==
  \A t \in Tasks :
    At(t, "idle") /\ call[t].answer.is = "Ok" =>
      /\ call[t].kind \in {AnyKind, DType[call[t].answer.device]}
      /\ \E d \in since[t].held \ {NoDevice} : Id[d] = Id[call[t].answer.device]

(* NotReady is never the answer of a call that began with its manager      *)
(* global and a device bound: neither ever goes away.                      *)
NotReadyIsTrue ==
  \A t \in Tasks :
    At(t, "idle") /\ call[t].answer = NotReady =>
      \/ since[t].first = NoDevice
      \/ call[t].kind # AnyKind /\ call[t].kind \notin since[t].ready

(* A call is answered as if at one moment: the one at which it reads the   *)
(* cell, though it searches the manager's list later and step by step.     *)
Matches(k, id) == {i \in DOMAIN listed[k] : Id[listed[k][i]] = id}
Lookup(k, id) ==
  IF Matches(k, id) = {} THEN Denied
  ELSE Ok(listed[k][CHOOSE i \in Matches(k, id) : \A j \in Matches(k, id) : i <= j])

AnswerOf(t) ==
  IF At(t, "idle") THEN call[t].answer
  ELSE IF At(t, "find") THEN Lookup(call[t].kind, call[t].id)
  ELSE [is |-> "asked", kind |-> call[t].kind]

answers == [t \in Tasks |-> AnswerOf(t)]

Query == INSTANCE DeviceQuery WITH answer <- answers
ImplementsQuery == Query!QuerySpec

=============================================================================
