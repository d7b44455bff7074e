-------------------------- MODULE MCFpgaWatchdog --------------------------
(***************************************************************************)
(* Small instance, all of it in the configurations: the documented         *)
(* constants, a period that turns the watchdog off and one of two polls.   *)
(***************************************************************************)
EXTENDS FpgaWatchdog
=============================================================================
