---------------------------- MODULE MCProductGuest ----------------------------
(***************************************************************************)
(* A volume of 28 units: the window [0, 4), room for two small disks or a  *)
(* large one, and above them the records in the three highest units.  The  *)
(* file of the adopted size ends below the records and meets the second    *)
(* disk; the other reaches into the records and down over the first disk.  *)
(*                                                                         *)
(* An operator is concerned with one of three subjects, as their requests  *)
(* share little beyond starting and stopping guests, which is in all of    *)
(* them: the power button; the list for the next boot, with a library file *)
(* that reaches into the records; the library and new installs, where an   *)
(* earlier boot may have left an entry on the list.  What a guest writes   *)
(* is not followed for the first, nor what it writes into the window,      *)
(* which nothing else looks at.                                            *)
(***************************************************************************)
EXTENDS ProductGuest

VARIABLE subject

\* The large disk leaves no room for a second one; only the library's placement
\* depends on it.  It is the one an earlier boot may have left on the list.
Large == 16

MCInit ==
    /\ Init
    /\ subject \in {"power", "list", "library"}
    /\ subject # "library" => GptSize(Window) # Large
    /\ DecodeList # << >> <=> subject = "library" /\ GptSize(Window) = Large

Concerns ==
    /\ subject # "power" => power' = power /\ resets' = resets
    /\ subject = "power" =>
          lib' = lib /\ shown' = shown /\ vol' = vol /\ choice'.bytes # Large
    /\ subject = "list" =>
          /\ lib'.bytes # StoredIso
          /\ choice'.kind \notin {"reinstall", "tail"}
    /\ subject = "library" => shown' = saved'
    /\ vol'[0] = vol[0]

MCNext == Next /\ Concerns /\ UNCHANGED subject

MCSpec == MCInit /\ [][MCNext]_<<vars, subject>> /\ Fairness
=============================================================================
