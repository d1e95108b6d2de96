----------------------------- MODULE MCListener -----------------------------
(***************************************************************************)
(* The listener with a page whose reply fills the transmit buffer, kept or *)
(* closed after it, and the two stops, whose replies are short: a reply    *)
(* sent behind another can be split.  The limits keep the code's order.    *)
(***************************************************************************)
EXTENDS Listener

MCReplySize == [page |-> 2, off |-> 1, panic |-> 1]
MCRequests == {[kind |-> "page", close |-> FALSE],
               [kind |-> "page", close |-> TRUE],
               [kind |-> "off", close |-> FALSE]}
MCTimeSteps == {0, 1}
=============================================================================
