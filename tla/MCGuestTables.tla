---------------------------- MODULE MCGuestTables ----------------------------
(***************************************************************************)
(* The two users of the guest table: the REST API with its start mailbox   *)
(* (RestVms), and the HA pair with the inventory import (HaPair).  They    *)
(* keep tables of their own, so each is explored beside the other's        *)
(* initial state.                                                          *)
(*                                                                         *)
(* REST: two slots and three guest ids: the table can be full, hold a      *)
(* destroyed record between two guests, and see an id come back.           *)
(* HA: two slots per table and inventories of two lines (BatchCap = Cap,   *)
(* as in the source); one repeats an id, and the parser refuses some.      *)
(***************************************************************************)
EXTENDS HaPair, RestVms

MCSpecs == {Defaults, [size |-> "custom", iso |-> 0, image |-> "None"]}

MCBatches == {<<>>, <<1>>, <<1, 2>>, <<2, 2>>, <<0, 1>>, <<3, 1>>, <<1, 2, 3>>}

MCRestSpecs == {Defaults,
                [size |-> "custom", iso |-> 1, image |-> "None"],
                [size |-> "default", iso |-> 1, image |-> "LinuxBzImage"]}

TablesInit == Init /\ RestInit

RestOnly == Init /\ RestNext /\ UNCHANGED vars

HaOnly == RestInit /\ Next /\ UNCHANGED restVars

TablesNext == RestOnly \/ HaOnly

TablesSpec == TablesInit /\ [][TablesNext]_<<vars, restVars>>
=============================================================================
