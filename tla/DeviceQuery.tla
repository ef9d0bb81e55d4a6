---------------------------- MODULE DeviceQuery ----------------------------
(***************************************************************************)
(* What a device handle promises of as_char_device, as_block_device,       *)
(* as_network_device and as_device: a call is answered at one moment, from *)
(* what the managers list and what is bound at that moment.                *)
(***************************************************************************)
EXTENDS Naturals, Sequences

CONSTANTS
  Tasks,
  Devices,
  Id        \* what Device::id says of each device

Kinds == {"Char", "Block", "Network"}
AnyKind == "Any"  \* what as_device asks for
NoDevice == "none"

VARIABLES
  listed,  \* the devices of each manager, in order
  ready,   \* the kinds whose manager is global
  device,  \* the device bound, or NoDevice
  answer   \* of each task: what it asks for, or the last answer it got

queryVars == <<listed, ready, device, answer>>

Asked(k) == [is |-> "asked", kind |-> k]
NotReady == [is |-> "NotReady"]
Denied == [is |-> "PermissionDenied"]
Ok(d) == [is |-> "Ok", device |-> d]

(* The first device of a manager that has the id. *)
Matches(k, id) == {i \in DOMAIN listed[k] : Id[listed[k][i]] = id}
Lookup(k, id) ==
  IF Matches(k, id) = {} THEN Denied
  ELSE Ok(listed[k][CHOOSE i \in Matches(k, id) : \A j \in Matches(k, id) : i <= j])

Outcome(k) ==
  IF (k # AnyKind /\ k \notin ready) \/ device = NoDevice THEN NotReady
  ELSE IF k = AnyKind THEN Ok(device) ELSE Lookup(k, Id[device])

QueryInit ==
  /\ listed = [k \in Kinds |-> <<>>]
  /\ ready = {}
  /\ device = NoDevice
  /\ answer = [t \in Tasks |-> NotReady]

(* Managers are filled before the first of them is global. *)
Fill ==
  /\ ready = {}
  /\ listed' \in [Kinds -> Seq(Devices)]
  /\ UNCHANGED <<ready, device, answer>>

Publish(k) ==
  /\ ready' = ready \cup {k}
  /\ UNCHANGED <<listed, device, answer>>

Bind(d) ==
  /\ device' = d
  /\ UNCHANGED <<listed, ready, answer>>

Ask(t, k) ==
  /\ answer[t].is # "asked"
  /\ answer' = [answer EXCEPT ![t] = Asked(k)]
  /\ UNCHANGED <<listed, ready, device>>

Reply(t) ==
  /\ answer[t].is = "asked"
  /\ answer' = [answer EXCEPT ![t] = Outcome(answer[t].kind)]
  /\ UNCHANGED <<listed, ready, device>>

QueryNext ==
  \/ Fill
  \/ \E k \in Kinds : Publish(k)
  \/ \E d \in Devices : Bind(d)
  \/ \E t \in Tasks : Reply(t) \/ \E k \in Kinds \cup {AnyKind} : Ask(t, k)

QuerySpec == QueryInit /\ [][QueryNext]_queryVars

=============================================================================
