----------------------------- MODULE MCDevices -----------------------------
(***************************************************************************)
(* An instance of Devices: three character devices and a block device,     *)
(* which has the id of two of them.  Tasks meet in the cell alone, and     *)
(* SetDevice may come at every step, so one task that asks is enough.      *)
(***************************************************************************)
EXTENDS Devices

CONSTANTS c1, c2, c3, b1

KindOf == [d \in Devices |-> IF d = b1 THEN "Block" ELSE "Char"]
IdOf == [d \in Devices |-> IF d = c3 THEN 2 ELSE 1]
=============================================================================
