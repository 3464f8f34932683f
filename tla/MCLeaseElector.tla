--------------------------- MODULE MCLeaseElector ---------------------------
(***************************************************************************)
(* LeaseElector on two processes, for TLC.                                 *)
(***************************************************************************)
EXTENDS LeaseElector
=============================================================================
