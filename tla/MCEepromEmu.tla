---------------------------- MODULE MCEepromEmu ----------------------------
(***************************************************************************)
(* Small instance: two parameters, two values, three slots a bank, so that *)
(* every third store of a tag migrates.  Tag 1 is short, tag 2 lies beyond *)
(* ee_is_full's array.                                                     *)
(***************************************************************************)
EXTENDS EepromEmu

CONSTANTS v1, v2

MCVal == {v1, v2}
MCDefault == [t \in 1 .. 2 |-> v1]
=============================================================================
