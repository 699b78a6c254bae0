----------------------------- MODULE Catalogue -----------------------------
(***************************************************************************)
(* What the application sees of a DeviceManager: which devices are known,  *)
(* how many parameters each has announced, the numbers of those stored and *)
(* whether the device is reported as loaded.  Requests, retries, chunks    *)
(* and queues are invisible here.                                          *)
(***************************************************************************)
EXTENDS Naturals, FiniteSets

CONSTANTS
  Addr,          \* addresses of devices
  ParamId,       \* parameter numbers
  NoDevice,      \* the device is unknown
  MaxDevices,    \* devices the table holds
  MaxParameters  \* parameters it holds for each

VARIABLE table

Record(total, stored, loaded) ==
  [total |-> total, stored |-> stored, loaded |-> loaded]

KnownDevices == {d \in Addr : table[d] # NoDevice}

(* A device announces itself, possibly again: it starts from nothing. *)
Announce(d, total) ==
  /\ d \in KnownDevices \/ Cardinality(KnownDevices) < MaxDevices
  /\ table' = [table EXCEPT ![d] = Record(total, {}, FALSE)]

(* One parameter of a known device is stored.  The device is loaded from   *)
(* the moment it has as many parameters as it announced.                   *)
Learn(d, p) ==
  /\ d \in KnownDevices
  /\ LET dev    == table[d]
         stored == dev.stored \cup {p}
     IN  /\ Cardinality(stored) <= MaxParameters
         /\ table' = [table EXCEPT ![d] =
                        Record(dev.total, stored, Cardinality(stored) >= dev.total)]

ForgetAll == table' = [d \in Addr |-> NoDevice]

Init == table = [d \in Addr |-> NoDevice]

Next ==
  \/ \E d \in Addr, n \in ParamId : Announce(d, n) \/ Learn(d, n)
  \/ ForgetAll

Spec == Init /\ [][Next]_table
=============================================================================
