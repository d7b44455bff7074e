--------------------------- MODULE MCUartConsole ---------------------------
(***************************************************************************)
(* Small instance, all of it in the configurations: a ring of three bytes, *)
(* two lines of at most two characters, every kind of key.                 *)
(***************************************************************************)
EXTENDS UartConsole
=============================================================================
