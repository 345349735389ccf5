------------------------------- MODULE MCWaits ------------------------------
(* Small instances of Waits. *)
EXTENDS Waits
=============================================================================
