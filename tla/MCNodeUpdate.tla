----------------------------- MODULE MCNodeUpdate -----------------------------
(***************************************************************************)
(* NodeUpdate for TLC.                                                     *)
(***************************************************************************)
EXTENDS NodeUpdate
===============================================================================
