---------------------------- MODULE MCAsyncSource ----------------------------
(* Small instances of AsyncSource for TLC. *)
EXTENDS AsyncSource
==============================================================================
