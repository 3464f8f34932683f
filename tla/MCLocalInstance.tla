-------------------------- MODULE MCLocalInstance --------------------------
(***************************************************************************)
(* Three starts of one node, three inodes, two crashes, for TLC.           *)
(***************************************************************************)
EXTENDS LocalInstance
=============================================================================
