---------------------------- MODULE MCGuestSched ----------------------------
(***************************************************************************)
(* Instances of GuestSched for TLC.  The number of slots is the source's.  *)
(* The faults are either those that leave the VMCS regions sound or all of *)
(* them; two requests suffice for a start and a stop, three for a stop     *)
(* followed by another start.                                              *)
(***************************************************************************)
EXTENDS GuestSched

SomeFaults == {{"clone", "entry", "nic"}, FaultKinds}

RequestBound == [f \in SomeFaults |-> IF f = FaultKinds THEN 2 ELSE 3]
=============================================================================
