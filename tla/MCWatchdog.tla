------------------------------ MODULE MCWatchdog ------------------------------
(***************************************************************************)
(* Watchdog for TLC: three handles, one of which may still owe its late    *)
(* exit event while the next is launched.                                  *)
(***************************************************************************)
EXTENDS Watchdog
===============================================================================
