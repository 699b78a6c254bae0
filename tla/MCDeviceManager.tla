-------------------------- MODULE MCDeviceManager --------------------------
(***************************************************************************)
(* DeviceManager alone, in an environment that may do anything: packets    *)
(* and chunks nobody asked for, in any order, and every call of the        *)
(* application at any time.  One device, three parameter numbers, and      *)
(* capacities small enough to be reached: two entries in a parameter map,  *)
(* two pending reads, one queued packet, two chunks.                       *)
(***************************************************************************)
EXTENDS DeviceManager, TLC

CONSTANTS s1, s2

MCParamId == 0..MaxParamId
(* The slots are interchangeable: the code's list of pending requests has  *)
(* no other structure, and which free slot a request takes is read nowhere.*)
SlotSymmetry == Permutations(Slot)

MCParsed(fragments) == Content \cup {Failed}
=============================================================================
