------------------------------ MODULE MCAuditLog ------------------------------
(***************************************************************************)
(* AuditLog with room for three records, two kinds of events and three     *)
(* boots.  Every boot records BootStarted, so the second boot can join a   *)
(* chain of two records and the third finds the chain too long to join.    *)
(* With two values of the checksum, images that differ often share it.     *)
(***************************************************************************)
EXTENDS AuditLog

=============================================================================
