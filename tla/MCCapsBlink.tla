---------------------------- MODULE MCCapsBlink ----------------------------
(***************************************************************************)
(* CapsBlink on two keyboards, for TLC.                                    *)
(***************************************************************************)
EXTENDS CapsBlink
=============================================================================
