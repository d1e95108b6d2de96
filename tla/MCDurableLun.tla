---------------------------- MODULE MCDurableLun ----------------------------
(***************************************************************************)
(* Two sectors, as two native blocks of one sector (512n) or as one block  *)
(* of two (4Kn scaled down, so that a request may cover part of a block).  *)
(* One sector is in the pinned prefix and both share a cache line.  Two    *)
(* rounds of one try and three faults: a command is retried, a request is  *)
(* given up, and one more fault meets what it left behind.                 *)
(***************************************************************************)
EXTENDS DurableLun
=============================================================================
